--------------------------- MODULE TopicConsumer ---------------------------
(***************************************************************************)
(* RunYDBConsumer (pkg/consumerutils/run_ydb_consumer.go) as RunConsumers  *)
(* runs it: any number of consumer processes on one partition of a topic.  *)
(*                                                                         *)
(* The topic is external.  It gives the partition to one process at a time *)
(* and starts each such session behind the committed offset.  The reader's *)
(* Commit puts an offset into a buffer that is sent later and flushed when *)
(* the reader is closed.  A session may be lost at any time; a commit of a *)
(* message read in a lost session is an error, or is dropped silently when *)
(* the reader has not yet heard of the loss.                               *)
(*                                                                         *)
(* A handler runs in a background context: cancellation does not cut it    *)
(* short, so a call of it is one step.                                     *)
(***************************************************************************)
EXTENDS Integers

CONSTANTS
  Procs,          \* consumer processes
  NoProc,
  Poison,         \* messages the handler never accepts
  MaxMessages,    \* bound on Write
  MaxStarts,      \* bound on Start
  MaxKills,       \* bound on Kill
  MaxLosses       \* bound on LoseSession

ASSUME TopicAssumption ==
  /\ NoProc \notin Procs
  /\ MaxMessages \in Nat /\ MaxStarts \in Nat /\ MaxKills \in Nat /\ MaxLosses \in Nat

VARIABLES
  written,      \* messages 1..written are in the partition
  committed,    \* messages 1..committed will not be offered again
  holder,       \* the process that has the partition, or NoProc
  next,         \* what its session reads next
  pc,           \* where each process stands
  msg,          \* the message it works on
  fresh,        \* those that read it in the session they still have
  pending,      \* the offset in its commit buffer, 0 for none
  cancelled,    \* those whose context is: a signal, or another goroutine failed
  times,        \* how often the handler accepted each message
  starts, kills, losses    \* how often these happened

topic  == <<written, committed, holder, next>>
proc   == <<pc, msg, fresh, pending, cancelled>>
counts == <<starts, kills, losses>>
vars   == <<topic, proc, times, counts>>

Messages == 1..MaxMessages
Phases   == {"down", "read", "handle", "wait", "commit", "closing"}

Init ==
  /\ written = 0 /\ committed = 0
  /\ holder = NoProc /\ next = 1
  /\ pc = [p \in Procs |-> "down"]
  /\ msg = [p \in Procs |-> 0]
  /\ fresh = {}
  /\ pending = [p \in Procs |-> 0]
  /\ cancelled = {}
  /\ times = [m \in Messages |-> 0]
  /\ starts = 0 /\ kills = 0 /\ losses = 0

Goto(p, phase) == pc' = [pc EXCEPT ![p] = phase]

-----------------------------------------------------------------------------
(* The topic and whoever runs the processes. *)

Write ==
  /\ written < MaxMessages
  /\ written' = written + 1
  /\ UNCHANGED <<committed, holder, next, proc, times, counts>>

Assign(p) ==
  /\ holder = NoProc
  /\ pc[p] \notin {"down", "closing"}
  /\ holder' = p
  /\ next' = committed + 1
  /\ UNCHANGED <<written, committed, proc, times, counts>>

(* What process p had of its session is worthless. *)
DropSession(p) ==
  /\ holder' = IF holder = p THEN NoProc ELSE holder
  /\ fresh' = fresh \ {p}
  /\ pending' = [pending EXCEPT ![p] = 0]

LoseSession(p) ==
  /\ holder = p
  /\ losses < MaxLosses
  /\ losses' = losses + 1
  /\ DropSession(p)
  /\ UNCHANGED <<written, committed, next, pc, msg, cancelled, times, starts, kills>>

SendCommit(p) ==
  /\ pending[p] # 0
  /\ committed' = pending[p]
  /\ pending' = [pending EXCEPT ![p] = 0]
  /\ UNCHANGED <<written, holder, next, pc, msg, fresh, cancelled, times, counts>>

Start(p) ==
  /\ pc[p] = "down"
  /\ starts < MaxStarts
  /\ starts' = starts + 1
  /\ Goto(p, "read")
  /\ UNCHANGED <<topic, msg, fresh, pending, cancelled, times, kills, losses>>

Kill(p) ==
  /\ pc[p] # "down"
  /\ kills < MaxKills
  /\ kills' = kills + 1
  /\ DropSession(p)
  /\ Goto(p, "down")
  /\ cancelled' = cancelled \ {p}
  /\ UNCHANGED <<written, committed, next, msg, times, starts, losses>>

(* SIGINT, or the errgroup's context after another goroutine failed. *)
Cancel(p) ==
  /\ pc[p] \notin {"down", "closing"}
  /\ cancelled' = cancelled \cup {p}
  /\ UNCHANGED <<topic, pc, msg, fresh, pending, times, counts>>

-----------------------------------------------------------------------------
(* RunYDBConsumer. *)

Read(p) ==
  /\ pc[p] = "read"
  /\ p \notin cancelled
  /\ holder = p
  /\ next <= written
  /\ msg' = [msg EXCEPT ![p] = next]
  /\ fresh' = fresh \cup {p}
  /\ next' = next + 1
  /\ Goto(p, "handle")
  /\ UNCHANGED <<written, committed, holder, pending, cancelled, times, counts>>

ReadCanceledLate(p) ==   \* fault: the context is looked at between messages only
  /\ pc[p] = "read"
  /\ p \in cancelled /\ holder = p /\ next <= written
  /\ Goto(p, "closing")
  /\ UNCHANGED <<topic, msg, fresh, pending, cancelled, times, counts>>

ReadCanceled(p) ==
  /\ pc[p] = "read"
  /\ p \in cancelled
  /\ Goto(p, "closing")
  /\ UNCHANGED <<topic, msg, fresh, pending, cancelled, times, counts>>

(* ReadMessage, or reading the body of the message, returns an error. *)
ReadFails(p) ==
  /\ pc[p] = "read"
  /\ Goto(p, "closing")
  /\ UNCHANGED <<topic, msg, fresh, pending, cancelled, times, counts>>

(* RetryNotify's call of the handler, behind contextCancelMiddleware. *)
HandlerSucceeds(p) ==
  /\ pc[p] = "handle"
  /\ p \notin cancelled
  /\ msg[p] \notin Poison
  /\ times' = [times EXCEPT ![msg[p]] = @ + 1]
  /\ Goto(p, "commit")
  /\ UNCHANGED <<topic, msg, fresh, pending, cancelled, counts>>

AfterFailureCommit == "commit"   \* fault: the message is given up
AfterFailureRead   == "read"     \* fault: it is skipped until a restart
AfterFailure       == "wait"

(* An error or a panic; MaxElapsedTime is 0, so it is always tried again. *)
HandlerFails(p) ==
  /\ pc[p] = "handle"
  /\ p \notin cancelled
  /\ Goto(p, AfterFailure)
  /\ UNCHANGED <<topic, msg, fresh, pending, cancelled, times, counts>>

HandlerCanceled(p) ==
  /\ pc[p] \in {"handle", "wait"}
  /\ p \in cancelled
  /\ Goto(p, "closing")
  /\ UNCHANGED <<topic, msg, fresh, pending, cancelled, times, counts>>

Retry(p) ==
  /\ pc[p] = "wait"
  /\ Goto(p, "handle")
  /\ UNCHANGED <<topic, msg, fresh, pending, cancelled, times, counts>>

(* reader.Commit in a background context: a cancelled consumer commits     *)
(* what it has handled.                                                    *)
CommitsCanceled(p) == p \notin cancelled   \* fault: the consumer's context is used
Commits(p)         == TRUE

Commit(p) ==
  /\ pc[p] = "commit"
  /\ p \in fresh
  /\ pending' = IF Commits(p) THEN [pending EXCEPT ![p] = msg[p]] ELSE pending
  /\ fresh' = fresh \ {p}
  /\ Goto(p, "read")
  /\ UNCHANGED <<topic, msg, cancelled, times, counts>>

(* The session is gone: an error ends the consumer, or nothing happens.    *)
CommitExpired(p) ==
  /\ pc[p] = "commit"
  /\ p \notin fresh
  /\ \E phase \in {"closing", "read"} : Goto(p, phase)
  /\ UNCHANGED <<topic, msg, fresh, pending, cancelled, times, counts>>

(* RunConsumers returns: queueReadersCloser closes the reader, which       *)
(* flushes its commits, and the process ends.                              *)
Flushed(p) == IF pending[p] # 0 THEN pending[p] ELSE committed

Close(p) ==
  /\ pc[p] = "closing"
  /\ committed' = Flushed(p)
  /\ DropSession(p)
  /\ Goto(p, "down")
  /\ cancelled' = cancelled \ {p}
  /\ UNCHANGED <<written, next, msg, times, counts>>

Consumer(p) ==
  \/ Read(p)
  \/ ReadCanceled(p)
  \/ HandlerSucceeds(p)
  \/ HandlerFails(p)
  \/ HandlerCanceled(p)
  \/ Retry(p)
  \/ Commit(p)
  \/ CommitExpired(p)
  \/ Close(p)

Environment(p) ==
  \/ Assign(p)
  \/ LoseSession(p)
  \/ SendCommit(p)
  \/ Start(p)
  \/ Kill(p)
  \/ Cancel(p)
  \/ ReadFails(p)

Next == Write \/ \E p \in Procs : Consumer(p) \/ Environment(p)

Spec == Init /\ [][Next]_vars

(* A running process runs, the topic assigns the partition and takes       *)
(* commits, and a handler that can accept a message does so sooner or      *)
(* later.  Nobody need start, stop or kill a process.                      *)
Fairness ==
  \A p \in Procs :
    /\ WF_vars(Consumer(p))
    /\ SF_vars(HandlerSucceeds(p))
    /\ WF_vars(Assign(p))
    /\ WF_vars(SendCommit(p))

FairSpec == Spec /\ Fairness
-----------------------------------------------------------------------------
TypeOK ==
  /\ written \in 0..MaxMessages /\ committed \in 0..MaxMessages
  /\ holder \in Procs \cup {NoProc}
  /\ next \in 1..(MaxMessages + 1)
  /\ pc \in [Procs -> Phases]
  /\ msg \in [Procs -> 0..MaxMessages] /\ pending \in [Procs -> 0..MaxMessages]
  /\ fresh \subseteq Procs /\ cancelled \subseteq Procs
  /\ times \in [Messages -> Nat]
  /\ starts \in 0..MaxStarts /\ kills \in 0..MaxKills /\ losses \in 0..MaxLosses

(* No message is lost: whatever is committed was accepted by the handler   *)
(* before, whoever died, lost the partition or was stopped in between      *)
(* (the commit follows the retries, run_ydb_consumer.go:56-70).            *)
CommittedIsHandled == \A m \in 1..committed : times[m] > 0

(* The handler accepts messages in their order: none before every earlier  *)
(* one was, whichever process had it (one message at a time, retried until *)
(* it is accepted, run_ydb_consumer.go:39-71).                             *)
HandledInOrder == \A m \in Messages : times[m] > 0 => \A k \in 1..(m - 1) : times[k] > 0

(* Interrupting and starting consumers repeats nothing: only a kill (which *)
(* SIGTERM is, too) or a lost session makes the handler see a message      *)
(* again after it accepted it (Commit in a background context, line 68, and the  *)
(* reader closed after the consumer, run_consumers.go:80).                 *)
OnceWithoutFaults == kills = 0 /\ losses = 0 => \A m \in Messages : times[m] <= 1

(* The consumers implement the abstract delivery. *)
Promise == INSTANCE Delivery WITH
  produced <- written,
  done     <- {m \in Messages : times[m] > 0},
  acked    <- committed
ImplementsDelivery == Promise!Spec

(* A signal stops a consumer, also while it waits for a message or retries *)
(* one that is never accepted (contextCancelMiddleware and the contexts of *)
(* ReadMessage and RetryNotify).                                           *)
StopsOnSignal == \A p \in Procs : (p \in cancelled) ~> (pc[p] = "down")

(* While some process stays up, everything written before the first        *)
(* message no handler accepts is handled in the end, and all is committed  *)
(* if there is no such message.  (A process that lost the partition while  *)
(* it retried that message, and has it again, holds the commits up.)       *)
Good == {m \in 1..written : \A k \in 1..m : k \notin Poison}

Drained ==
  /\ \A m \in Good : times[m] > 0
  /\ Good = 1..written => committed = written

Drains == (\E p \in Procs : <>[](pc[p] \notin {"down", "closing"})) => <>[]Drained

-----------------------------------------------------------------------------
(* What makes the safety properties inductive. *)

(* The session is ahead of the commits, and what it went past was handled, *)
(* but for the message in hand.                                            *)
SessionContiguous ==
  /\ committed <= written
  /\ holder # NoProc =>
       /\ committed < next /\ next <= written + 1
       /\ \A m \in 1..(next - 1) :
            \/ times[m] > 0
            \/ holder \in fresh /\ msg[holder] = m /\ pc[holder] # "commit"

(* Only the holder has a fresh message, the last one its session read. *)
FreshIsLast ==
  \A p \in Procs : p \in fresh => holder = p /\ msg[p] = next - 1 /\ committed < msg[p]

(* A buffered commit is the holder's, new, and of handled messages. *)
PendingHandled ==
  \A p \in Procs : pending[p] # 0 =>
    /\ holder = p
    /\ committed < pending[p] /\ pending[p] < next
    /\ p \in fresh => pending[p] < msg[p]
    /\ \A m \in 1..pending[p] : times[m] > 0

(* Before a message in hand everything was handled, however old it is. *)
HandIsNext ==
  \A p \in Procs :
    /\ pc[p] \in {"handle", "wait", "commit"} =>
         msg[p] \in 1..written /\ \A k \in 1..(msg[p] - 1) : times[k] > 0
    /\ pc[p] = "commit" => times[msg[p]] > 0
    /\ pc[p] \in {"down", "read"} => p \notin fresh

IInv ==
  /\ TypeOK
  /\ CommittedIsHandled
  /\ HandledInOrder
  /\ SessionContiguous
  /\ FreshIsLast
  /\ PendingHandled
  /\ HandIsNext
=============================================================================
