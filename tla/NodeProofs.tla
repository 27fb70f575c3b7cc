----------------------------- MODULE NodeProofs -----------------------------
(***************************************************************************)
(* Proofs about Node for any peers, chain, inventories, transactions and   *)
(* bounds, and any number of goroutines.                                   *)
(***************************************************************************)
EXTENDS Node, Induction, SequenceTheorems, FiniteSetTheorems

-----------------------------------------------------------------------------
(* Lists that leave an element out. *)

(* A list is copied element by element. *)
LEMMA CopySteps ==
  ASSUME NEW S, NEW s \in Seq(S), NEW e
  PROVE  \E copy :
           /\ copy[0] = <<>>
           /\ \A i \in 1..Len(s) :
                copy[i] = IF s[i] = e THEN copy[i - 1] ELSE Append(copy[i - 1], s[i])
           /\ AllBut(s, e) = copy[Len(s)]
<1> DEFINE Value(f, i) == IF i = 0 THEN <<>>
                          ELSE IF s[i] = e THEN f[i - 1] ELSE Append(f[i - 1], s[i])
           Copies(f, n) == f = [i \in 0..n |-> Value(f, i)]
           T == {n \in Nat : ~ \E f : Copies(f, n)}
<1>1. T = {}
  <2> SUFFICES ASSUME T # {} PROVE FALSE
    OBVIOUS
  <2>1. PICK d \in T : \A n \in T : d <= n
    <3>1. T \in SUBSET Nat
      OBVIOUS
    <3> HIDE DEF T
    <3> QED BY <3>1, LeastNatural
  <2>2. d # 0
    <3>1. Copies([i \in 0..0 |-> <<>>], 0)
      OBVIOUS
    <3> HIDE DEF Copies
    <3> QED BY <2>1, <3>1
  <2>3. d - 1 \in Nat /\ d - 1 \notin T
    <3> HIDE DEF Copies
    <3> QED BY <2>1, <2>2
  <2>4. PICK f : Copies(f, d - 1)
    <3> HIDE DEF Copies
    <3> QED BY <2>3
  <2> DEFINE g == [i \in 0..d |-> IF i = d THEN Value(f, d) ELSE f[i]]
  <2>5. \A i \in 0..d : g[i] = Value(g, i)
    <3> TAKE i \in 0..d
    <3>1. CASE i = d
      <4>1. d - 1 \in 0..d /\ d - 1 # d
        BY <2>1, <2>3
      <4> QED BY <2>2, <3>1, <4>1
    <3>2. CASE i # d
      <4>1. i \in 0..(d - 1) /\ d \in Nat
        BY <2>1, <3>2
      <4>2. g[i] = f[i] /\ f[i] = Value(f, i)
        BY <2>4, <3>2, <4>1
      <4>3. i # 0 => i - 1 \in 0..d /\ i - 1 # d
        BY <4>1
      <4>4. i # 0 => g[i - 1] = f[i - 1]
        BY <4>3
      <4> QED BY <4>2, <4>4
    <3> QED BY <3>1, <3>2
  <2>6. Copies(g, d)
    <3> HIDE DEF Value
    <3> QED BY <2>5
  <2> HIDE DEF g, Copies
  <2> QED BY <2>1, <2>6
<1> DEFINE copy == CHOOSE f : Copies(f, Len(s))
<1>2. Len(s) \in Nat
  OBVIOUS
<1>3. Copies(copy, Len(s))
  <2> HIDE DEF Copies
  <2> QED BY <1>1, <1>2
<1>4. AllBut(s, e) = copy[Len(s)]
  BY DEF AllBut
<1>5. \A i \in 0..Len(s) : copy[i] = Value(copy, i)
  <2> HIDE DEF copy, Value
  <2> QED BY <1>3
<1> WITNESS copy
<1> HIDE DEF copy
<1> QED BY <1>2, <1>4, <1>5

(* What is left out is not in the copy, and another head stays the head. *)
LEMMA AllButKeeps ==
  ASSUME NEW S, NEW s \in Seq(S), NEW e
  PROVE  /\ AllBut(s, e) \in Seq(S \ {e})
         /\ s # <<>> /\ s[1] # e => AllBut(s, e) # <<>> /\ AllBut(s, e)[1] = s[1]
<1>1. PICK copy :
        /\ copy[0] = <<>>
        /\ \A i \in 1..Len(s) :
             copy[i] = IF s[i] = e THEN copy[i - 1] ELSE Append(copy[i - 1], s[i])
        /\ AllBut(s, e) = copy[Len(s)]
  BY CopySteps
<1> DEFINE Kept(i) == /\ copy[i] \in Seq(S \ {e})
                      /\ i # 0 /\ s[1] # e => Len(copy[i]) # 0 /\ copy[i][1] = s[1]
           T == {i \in 0..Len(s) : ~Kept(i)}
<1>2. Len(s) \in Nat /\ (s # <<>> => Len(s) # 0)
  BY EmptySeq
<1>3. T = {}
  <2> SUFFICES ASSUME T # {} PROVE FALSE
    OBVIOUS
  <2>1. PICK d \in T : \A n \in T : d <= n
    <3>1. T \in SUBSET Nat
      BY <1>2
    <3> HIDE DEF T
    <3> QED BY <3>1, LeastNatural
  <2>2. d # 0
    <3>1. Kept(0)
      BY <1>1, EmptySeq
    <3> HIDE DEF Kept
    <3> QED BY <2>1, <3>1
  <2>3. d \in 1..Len(s) /\ d - 1 \in 0..Len(s) /\ d - 1 \notin T
    <3> HIDE DEF Kept
    <3> QED BY <1>2, <2>1, <2>2
  <2>4. Kept(d - 1)
    <3> HIDE DEF Kept
    <3> QED BY <2>3
  <2>5. s[d] \in S /\ copy[d] = IF s[d] = e THEN copy[d - 1] ELSE Append(copy[d - 1], s[d])
    BY <1>1, <2>3
  <2>6. Kept(d)
    <3>1. CASE s[d] = e
      BY <2>3, <2>4, <2>5, <3>1
    <3>2. CASE s[d] # e
      <4> DEFINE c == copy[d - 1]
      <4>1. copy[d] = Append(c, s[d]) /\ c \in Seq(S \ {e}) /\ s[d] \in S \ {e}
        BY <2>4, <2>5, <3>2
      <4>2. /\ copy[d] \in Seq(S \ {e}) /\ Len(copy[d]) = Len(c) + 1
            /\ \A i \in 1..Len(c) : copy[d][i] = c[i]
            /\ copy[d][Len(c) + 1] = s[d]
        <5> HIDE DEF c
        <5> QED BY <4>1, AppendProperties
      <4>3. Len(c) \in Nat /\ (d - 1 = 0 => Len(c) = 0)
        BY <1>1, <4>1, EmptySeq
      <4>4. CASE d = 1
        BY <4>2, <4>3, <4>4
      <4>5. CASE d # 1
        BY <2>3, <2>4, <4>2, <4>3, <4>5
      <4> QED BY <4>4, <4>5
    <3> QED BY <3>1, <3>2
  <2> HIDE DEF Kept
  <2> QED BY <2>1, <2>6
<1>4. Kept(Len(s))
  <2> HIDE DEF Kept
  <2> QED BY <1>2, <1>3
<1> QED BY <1>1, <1>2, <1>4, EmptySeq

(* Without the head of a list that holds nothing twice, its tail is left. *)
LEMMA AllButHead ==
  ASSUME NEW S, NEW s \in Seq(S), s # <<>>, IsInjective(s)
  PROVE  AllBut(s, s[1]) = Tail(s)
<1>1. PICK copy :
        /\ copy[0] = <<>>
        /\ \A i \in 1..Len(s) :
             copy[i] = IF s[i] = s[1] THEN copy[i - 1] ELSE Append(copy[i - 1], s[i])
        /\ AllBut(s, s[1]) = copy[Len(s)]
  BY CopySteps
<1> DEFINE Rest(i) == /\ copy[i] \in Seq(S) /\ Len(copy[i]) = i - 1
                      /\ \A k \in 1..(i - 1) : copy[i][k] = s[k + 1]
           T == {i \in 1..Len(s) : ~Rest(i)}
<1>2. Len(s) \in Nat /\ Len(s) # 0 /\ DOMAIN s = 1..Len(s)
  BY EmptySeq
<1>3. T = {}
  <2> SUFFICES ASSUME T # {} PROVE FALSE
    OBVIOUS
  <2>1. PICK d \in T : \A n \in T : d <= n
    <3>1. T \in SUBSET Nat
      BY <1>2
    <3> HIDE DEF T
    <3> QED BY <3>1, LeastNatural
  <2>2. d # 1
    <3>1. copy[1] = copy[1 - 1] /\ copy[1 - 1] = <<>>
      BY <1>1, <1>2
    <3>2. Rest(1)
      BY <3>1, EmptySeq
    <3> HIDE DEF Rest
    <3> QED BY <2>1, <3>2
  <2>3. d \in 2..Len(s) /\ d - 1 \in 1..Len(s) /\ d - 1 \notin T
    <3> HIDE DEF Rest
    <3> QED BY <1>2, <2>1, <2>2
  <2>4. Rest(d - 1)
    <3> HIDE DEF Rest
    <3> QED BY <2>3
  <2> DEFINE c == copy[d - 1]
  <2>5. copy[d] = Append(c, s[d]) /\ s[d] \in S
    <3>1. d \in DOMAIN s /\ 1 \in DOMAIN s /\ d # 1
      BY <1>2, <2>3
    <3>2. s[d] # s[1]
      BY <3>1 DEF IsInjective
    <3>3. d \in 1..Len(s) /\ s[d] \in S
      BY <1>2, <2>3
    <3> QED BY <1>1, <3>2, <3>3
  <2>6. /\ copy[d] \in Seq(S) /\ Len(copy[d]) = Len(c) + 1
        /\ \A i \in 1..Len(c) : copy[d][i] = c[i]
        /\ copy[d][Len(c) + 1] = s[d]
    <3>1. c \in Seq(S)
      BY <2>4
    <3> HIDE DEF c
    <3> QED BY <2>5, <3>1, AppendProperties
  <2>7. Rest(d)
    <3>1. Len(c) = d - 2 /\ d \in Nat
      BY <1>2, <2>3, <2>4
    <3>2. Len(copy[d]) = d - 1
      BY <2>6, <3>1
    <3>3. ASSUME NEW k \in 1..(d - 1) PROVE copy[d][k] = s[k + 1]
      <4>1. CASE k = d - 1
        BY <2>6, <3>1, <4>1
      <4>2. CASE k # d - 1
        <5>1. k \in 1..(d - 2)
          BY <3>1, <4>2
        <5> QED BY <2>4, <2>6, <3>1, <5>1
      <4> QED BY <4>1, <4>2
    <3> QED BY <2>6, <3>2, <3>3
  <2> HIDE DEF Rest
  <2> QED BY <2>1, <2>7
<1>4. Rest(Len(s))
  <2> HIDE DEF Rest
  <2> QED BY <1>2, <1>3
<1>5. /\ Tail(s) \in Seq(S) /\ Len(Tail(s)) = Len(s) - 1
      /\ \A k \in 1..Len(Tail(s)) : Tail(s)[k] = s[k + 1]
  BY HeadTailProperties
<1>6. /\ copy[Len(s)] \in Seq(S) /\ Len(copy[Len(s)]) = Len(Tail(s))
      /\ \A k \in 1..Len(Tail(s)) : copy[Len(s)][k] = Tail(s)[k]
  BY <1>4, <1>5
<1>7. copy[Len(s)] = Tail(s)
  BY <1>5, <1>6, SeqEqual
<1> QED BY <1>1, <1>7

-----------------------------------------------------------------------------
(* The invariant. *)

Hashes == Blocks \cup Foreign

(* What the central node sends: to any node, and, of transactions, to      *)
(* others only.                                                            *)
Own ==
  {Msg("getblocks", Central, "none", <<>>), Msg("inv", Central, "block", Chain)}
  \cup {Msg("getdata", Central, "block", b) : b \in Hashes}
  \cup {Msg("block", Central, "none", b) : b \in Blocks}
OfTxs ==
  {Msg("inv", Central, "tx", <<t>>) : t \in Txs}
  \cup {Msg("getdata", Central, "tx", t) : t \in Txs}
  \cup {Msg("tx", Central, "none", t) : t \in Txs \cup {Empty}}
OwnRequests == {To(a, m) : a \in Addresses, m \in Own}
Requests == OwnRequests \cup {To(p, m) : p \in Peers, m \in OfTxs}

(* The inventories of blocks. *)
Inventory(s) == s \in Seq(Hashes) /\ s # <<>> /\ IsInjective(s)

(* The message a goroutine at pc has. *)
Serves(pc, m) ==
  \/ pc = "idle" /\ m = NoMsg
  \/ pc \in {"addr", "append", "range"} /\ m.cmd = "addr" /\ m.from \in Peers /\ m.item \in Seq(Addresses)
  \/ /\ pc \in {"inv", "filter"}
     /\ m.cmd = "inv" /\ m.type = "block" /\ m.from \in Addresses /\ Inventory(m.item)
  \/ /\ pc = "inv"
     /\ m.cmd = "inv" /\ m.type = "tx" /\ m.from \in Peers /\ m.item \in {<<t>> : t \in Txs}
  \/ pc = "getdata" /\ m.cmd = "getdata" /\ m.type = "tx" /\ m.from \in Peers /\ m.item \in Txs
  \/ /\ pc \in {"tx", "store", "head", "announce"}
     /\ m.cmd = "tx" /\ m.from \in Peers \cup {NoAddr} /\ m.item \in Txs
  \/ pc \in {"next", "first", "slice"} /\ m.cmd = "block" /\ m.from \in Addresses
  \/ pc = "assign" /\ m.cmd \in {"inv", "block"} /\ m.from \in Addresses

Requesting == {"send", "drop"}

ConnOk(c) ==
  /\ IF c.pc \in Requesting
     THEN c.todo \in Seq(Requests) /\ c.todo # <<>>
          /\ c.then \in {"idle", "slice", "filter"} /\ Serves(c.then, c.msg)
     ELSE c.todo = <<>> /\ Serves(c.pc, c.msg)
  /\ IF c.pc = "assign" THEN c.kept \in Seq(Hashes) ELSE c.kept \in Seq(Addresses)

(* A process that is down holds nothing. *)
DownIsEmpty ==
  status = "down" =>
    /\ nodeAddress = NoAddr /\ Memory
    /\ inbox = EmptyBag /\ wanted = {} /\ overlapped = FALSE

StateTyped ==
  /\ keys = Blocks \cup {"last-hash"}
  /\ status \in {"up", "down"}
  /\ KnownNodes \in Seq(Addresses)
  /\ blocksInTransit \in Seq(Hashes)
  /\ memoryPool \subseteq Txs
  /\ BagToSet(inbox) \subseteq Own
  /\ DOMAIN conn = Handlers
  /\ \A h \in Handlers : ConnOk(conn[h])

NotesTyped ==
  /\ cause \in {"none", "best height", "signal", "read", "send", "index", "map"}
  /\ announced \subseteq Peers \X Txs
  /\ wanted \subseteq Hashes
  /\ overlapped \in BOOLEAN /\ cutOff \in BOOLEAN
  /\ messages \in 0..MaxMessages /\ starts \in 0..MaxStarts

Running == status = "up" => nodeAddress = Central

NodeInv == StateTyped /\ NotesTyped /\ DownIsEmpty /\ Running

(* A list of nodes that begins with the central one; as long as the node   *)
(* reaches itself, KnownNodes does, and what a goroutine will assign to it. *)
Headed(nodes) == nodes # <<>> /\ nodes[1] = Central

SelfFirst ==
  ~cutOff =>
    /\ Headed(KnownNodes)
    /\ \A h \in Handlers : conn[h].pc \in {"drop", "append"} => Headed(conn[h].kept)

(* What was announced, or asked for, is in the pool, or was announced by   *)
(* an earlier process.                                                     *)
Here(t, pool, n) == t \in pool \/ n > 1

TodoHere(todo, pool, n) ==
  \A i \in DOMAIN todo :
    LET m == todo[i].msg
    IN  /\ m.cmd = "inv" /\ m.type = "tx" => Here(m.item[1], pool, n)
        /\ m.cmd = "tx" /\ m.item = Empty => n > 1

PoolOk(c, pool, n) ==
  /\ c.pc = "getdata" => Here(c.msg.item, pool, n)
  /\ c.pc \in Requesting => TodoHere(c.todo, pool, n)
  /\ c.pc \in {"head", "announce"} => c.msg.item \in pool

PoolInv ==
  /\ starts = 0 => status = "down" /\ announced = {}
  /\ status = "up" => \A a \in announced : Here(a[2], memoryPool, starts)
  /\ \A h \in Handlers : PoolOk(conn[h], memoryPool, starts)

(* Where a goroutine is in its handler. *)
Pending(c) == IF c.pc \in Requesting THEN c.then ELSE c.pc

(* The blocks in transit: between two handlers; after an inventory, or the *)
(* next block, was asked for and before it is taken out; and before the    *)
(* list without it is assigned.                                            *)
Steady(items, rest) == ToSet(items) = rest /\ IsInjective(items)
Asked(items, rest)  == items # <<>> /\ IsInjective(items) /\ rest = ToSet(Tail(items))

Transit(c, items, rest) ==
  /\ Pending(c) = "filter" => items = c.msg.item
  /\ Pending(c) = "first" => items # <<>>
  /\ Pending(c) \in {"filter", "slice"} => Asked(items, rest)
  /\ Pending(c) = "assign" => Steady(c.kept, rest)
  /\ Pending(c) \notin {"filter", "slice", "assign"} => Steady(items, rest)

InOrder ==
  ~overlapped =>
    /\ \A g, h \in Busy : g = h
    /\ Busy = {} => Steady(blocksInTransit, wanted)
    /\ \A h \in Busy : Transit(conn[h], blocksInTransit, wanted)

-----------------------------------------------------------------------------
(* What a goroutine may be doing. *)

LEMMA SendingIsOk ==
  ASSUME NEW m, NEW todo \in Seq(Requests), NEW then,
         then \notin Requesting, then = "idle" \/ Serves(then, m),
         todo # <<>> => then \in {"idle", "slice", "filter"}
  PROVE  ConnOk(Sending(m, todo, then))
<1> DEFINE held == IF then = "idle" THEN NoMsg ELSE m
<1>1. Serves(then, held)
  BY DEF Serves
<1>2. <<>> \in Seq(Addresses) /\ <<>> \in Seq(Hashes)
  BY EmptySeq
<1>3. CASE todo = <<>>
  BY <1>1, <1>2, <1>3 DEF Sending, At, ConnOk, Requesting
<1>4. CASE todo # <<>>
  BY <1>1, <1>2, <1>4 DEF Sending, AtSend, ConnOk, Requesting
<1> QED BY <1>3, <1>4

LEMMA OneRequest ==
  ASSUME NEW r \in Requests
  PROVE  <<r>> \in Seq(Requests) /\ <<r>> # <<>>
BY EmptySeq

LEMMA IdleIsOk == ConnOk(Idle)
<1>1. <<>> \in Seq(Addresses)
  BY EmptySeq
<1> QED BY <1>1 DEF ConnOk, Idle, At, Requesting, Serves

LEMMA Bounds == MaxMessages \in Nat /\ MaxStarts \in Nat
BY NodeAssumption

LEMMA StartIsHeaded == <<Central>> \in Seq(Addresses) /\ Headed(<<Central>>)
BY EmptySeq DEF Headed, Addresses

(* What is made of a shared list, to be assigned. *)
LEMMA MadeIsOk ==
  ASSUME NEW pc, NEW c, NEW kept, c.todo = <<>>, Serves(pc, c.msg), pc \notin Requesting,
         IF pc = "assign" THEN kept \in Seq(Hashes) ELSE kept \in Seq(Addresses)
  PROVE  ConnOk(Made(pc, c, kept))
BY DEF ConnOk, Made

(* Who does something does it in the central node. *)
LEMMA BusyIsUp ==
  ASSUME NodeInv, NEW h \in Handlers, conn[h].pc # "idle"
  PROVE  status = "up" /\ nodeAddress = Central
<1>1. CASE status = "down"
  BY <1>1 DEF NodeInv, DownIsEmpty, Memory, Idle, At
<1> QED BY <1>1 DEF NodeInv, StateTyped, Running

LEMMA NoBestHeight ==
  ASSUME StateTyped
  PROVE  ~HasBestHeight /\ "last-hash" \notin Hashes
BY NodeAssumption DEF StateTyped, HasBestHeight, BestHeightKey, Hashes

(* What a step that ends nothing has to keep. *)
LEMMA GoesOn ==
  ASSUME NodeInv, status = "up", NEW h \in Handlers, NEW c, ConnOk(c),
         conn' = [conn EXCEPT ![h] = c],
         UNCHANGED <<keys, status, cause, nodeAddress, starts>>,
         KnownNodes' \in Seq(Addresses), blocksInTransit' \in Seq(Hashes), memoryPool' \subseteq Txs,
         BagToSet(inbox') \subseteq Own, announced' \subseteq Peers \X Txs,
         wanted' \subseteq Hashes, overlapped' \in BOOLEAN, cutOff' \in BOOLEAN,
         messages' \in 0..MaxMessages
  PROVE  NodeInv'
<1>1. DOMAIN conn' = Handlers /\ \A g \in Handlers : ConnOk(conn'[g])
  BY DEF NodeInv, StateTyped
<1>2. StateTyped'
  BY <1>1 DEF NodeInv, StateTyped
<1>3. NotesTyped'
  BY DEF NodeInv, NotesTyped
<1>4. DownIsEmpty' /\ Running'
  BY DEF NodeInv, DownIsEmpty, Running
<1> QED BY <1>2, <1>3, <1>4 DEF NodeInv

(* The end of a process, *)
LEMMA EndKeeps ==
  ASSUME NodeInv, NEW why \in {"best height", "signal", "read", "send", "index", "map"}, End(why),
         messages' \in 0..MaxMessages, starts' \in 0..MaxStarts
  PROVE  NodeInv'
<1>1. /\ KnownNodes' = <<Central>> /\ KnownNodes' \in Seq(Addresses)
      /\ blocksInTransit' = <<>> /\ blocksInTransit' \in Seq(Hashes)
  BY StartIsHeaded, EmptySeq DEF End
<1>2. conn' = [h \in Handlers |-> Idle] /\ \A h \in Handlers : ConnOk(conn'[h])
  BY IdleIsOk DEF End
<1>3. inbox' = EmptyBag /\ BagToSet(inbox') = {}
  BY DEF End, EmptyBag, BagToSet, SetToBag
<1>4. StateTyped'
  BY <1>1, <1>2, <1>3 DEF NodeInv, StateTyped, End
<1>5. NotesTyped'
  BY DEF NodeInv, NotesTyped, End
<1>6. DownIsEmpty' /\ Running'
  BY <1>1, <1>2, <1>3 DEF DownIsEmpty, Running, Memory, End
<1> QED BY <1>4, <1>5, <1>6 DEF NodeInv

(* its start, *)
LEMMA StartKeeps ==
  ASSUME NodeInv, NEW addr \in Addresses, StartServer(addr)
  PROVE  NodeInv'
<1>1. starts' \in 0..MaxStarts /\ messages' \in 0..MaxMessages
  <2>1. starts \in 0..MaxStarts /\ messages \in 0..MaxMessages
    BY DEF NodeInv, NotesTyped
  <2>2. starts < MaxStarts /\ starts' = starts + 1 /\ messages' = messages
    BY DEF StartServer
  <2> QED BY <2>1, <2>2, Bounds
<1>2. KnownNodes[1] = Central
  <2>1. KnownNodes = <<Central>>
    BY DEF StartServer, NodeInv, DownIsEmpty, Memory
  <2> QED BY <2>1
<1>3. CASE addr = KnownNodes[1]
  <2>1. /\ status' = "up" /\ nodeAddress' = Central /\ cause' = "none"
        /\ UNCHANGED <<keys, shared, conn, inbox, announced, notes>>
    BY <1>2, <1>3 DEF StartServer
  <2>2. StateTyped' /\ NotesTyped'
    BY <1>1, <2>1 DEF NodeInv, StateTyped, NotesTyped, shared, notes
  <2> QED BY <2>1, <2>2 DEF NodeInv, DownIsEmpty, Running
<1>4. CASE addr # KnownNodes[1]
  <2>1. End("best height")
    BY <1>4, NoBestHeight DEF StartServer, SendVersionPanics, NodeInv
  <2> QED BY <1>1, <2>1, EndKeeps
<1> QED BY <1>3, <1>4

(* and the first state. *)
LEMMA InitKeeps == Init => NodeInv
<1> SUFFICES ASSUME Init PROVE NodeInv
  OBVIOUS
<1>1. KnownNodes \in Seq(Addresses) /\ blocksInTransit \in Seq(Hashes) /\ blocksInTransit = <<>>
  BY StartIsHeaded, EmptySeq DEF Init, Memory
<1>2. \A h \in Handlers : ConnOk(conn[h])
  BY IdleIsOk DEF Init, Memory
<1>3. BagToSet(inbox) = {}
  BY DEF Init, EmptyBag, BagToSet, SetToBag
<1>4. StateTyped
  BY <1>1, <1>2, <1>3 DEF StateTyped, Init, Memory
<1>5. NotesTyped
  <2>1. 0 \in 0..MaxMessages /\ 0 \in 0..MaxStarts
    BY Bounds
  <2> QED BY <2>1 DEF NotesTyped, Init
<1> QED BY <1>4, <1>5 DEF NodeInv, DownIsEmpty, Running, Init

-----------------------------------------------------------------------------
(* A connection. *)

(* What a message that can be served asks for. *)
LEMMA Kinds ==
  ASSUME NodeInv, NEW m \in Own \cup Arriving, ~Panics(m)
  PROVE  \/ m.cmd = "getblocks" /\ m.from \in Addresses
         \/ m.cmd = "getdata" /\ m.type = "block" /\ m.from \in Addresses /\ m.item \in Hashes
         \/ m.cmd = "block" /\ m.from \in Addresses /\ m.item \in Blocks
         \/ m.cmd = "getdata" /\ m.type = "tx" /\ Serves("getdata", m)
            /\ \E a \in announced : a[2] = m.item
         \/ m.cmd \in {"addr", "inv", "tx"} /\ Serves(m.cmd, m)
<1>1. CASE m \in Own
  <2>1. Inventory(Chain) /\ Central \in Addresses /\ Blocks \subseteq Hashes
    <3>1. Chain \in Seq(Blocks) /\ Chain # <<>> /\ IsInjective(Chain)
      BY NodeAssumption
    <3>2. Chain \in Seq(Hashes)
      BY <3>1 DEF Hashes
    <3> QED BY <3>1, <3>2 DEF Inventory, Addresses, Hashes
  <2> QED BY <1>1, <2>1 DEF Own, Msg, Serves
<1>2. CASE m \in SendTx
  BY <1>2 DEF SendTx, Msg, Serves
<1>3. CASE \E p \in Peers : m \in FromPeer(p)
  <2>1. PICK p \in Peers : m \in FromPeer(p)
    BY <1>3
  <2>2. p \in Addresses /\ Lists \subseteq Seq(Addresses)
    BY NodeAssumption DEF Addresses
  <2>3. ~HasBestHeight /\ keys = Blocks \cup {"last-hash"} /\ "last-hash" \notin Hashes
    BY NoBestHeight DEF NodeInv, StateTyped
  <2>4. \A items \in Inventories : Inventory(items)
    <3>1. \A items \in Inventories : items \in Seq(Hashes) /\ items # <<>> /\ IsInjective(items)
      BY NodeAssumption DEF Hashes
    <3> QED BY <3>1 DEF Inventory
  <2>5. CASE m \in {Msg("getblocks", p, "none", <<>>), Msg("version", p, "none", <<>>)}
    BY <2>2, <2>3, <2>5 DEF Msg, Panics
  <2>6. CASE \E list \in Lists : m = Msg("addr", p, "none", list)
    <3>1. PICK list \in Lists : m = Msg("addr", p, "none", list)
      BY <2>6
    <3>2. m.cmd = "addr" /\ m.from = p /\ m.item = list
      BY <3>1 DEF Msg
    <3>3. m.item \in Seq(Addresses)
      BY <2>2, <3>2
    <3> QED BY <2>2, <3>2, <3>3 DEF Serves
  <2>7. CASE \E items \in Inventories : m = Msg("inv", p, "block", items)
    BY <2>2, <2>4, <2>7 DEF Msg, Serves
  <2>8. CASE \E t \in Txs : m \in {Msg("inv", p, "tx", <<t>>), Msg("tx", p, "none", t)}
    BY <2>2, <2>8 DEF Msg, Serves
  <2>9. CASE \E b \in Hashes : m = Msg("block", p, "none", b)
    BY <2>2, <2>3, <2>9 DEF Msg, Panics, Hashes
  <2>10. CASE \E t \in Txs : <<p, t>> \in announced /\ m = Msg("getdata", p, "tx", t)
    BY <2>2, <2>10 DEF Msg, Serves
  <2>11. CASE \E b \in Blocks : m = Msg("getdata", p, "block", b)
    BY <2>2, <2>11 DEF Msg, Hashes
  <2> QED BY <2>1, <2>5, <2>6, <2>7, <2>8, <2>9, <2>10, <2>11 DEF FromPeer, Hashes
<1> QED BY <1>1, <1>2, <1>3 DEF Arriving

(* A goroutine that begins is in order, and no block is added. *)
LEMMA BeginIsOk ==
  ASSUME NodeInv, status = "up", NEW m \in Own \cup Arriving, ~Panics(m)
  PROVE  /\ ConnOk(Begin(m)) /\ AddBlock(m) = keys
         /\ Begin(m).pc = "send" => Begin(m).then = "idle" /\ Begin(m).todo \in Seq(OwnRequests)
         /\ Begin(m).pc \in {"idle", "send", "next", "addr", "inv", "getdata", "tx"}
         /\ Begin(m).pc = "getdata" => \E a \in announced : a[2] = Begin(m).msg.item
<1>1. nodeAddress = Central /\ keys = Blocks \cup {"last-hash"} /\ "last-hash" \notin Hashes
  BY NoBestHeight DEF NodeInv, Running, StateTyped
<1>2. \A r \in OwnRequests : r \in Requests
  BY DEF Requests
<1>3. ASSUME NEW todo \in Seq(OwnRequests), Begin(m) = Sending(m, todo, "idle"), m.cmd # "block"
      PROVE  /\ ConnOk(Begin(m)) /\ AddBlock(m) = keys /\ Begin(m).pc \in {"idle", "send"}
             /\ Begin(m).pc = "send" => Begin(m).then = "idle" /\ Begin(m).todo \in Seq(OwnRequests)
  <2>1. todo \in Seq(Requests)
    BY <1>2
  <2>2. ConnOk(Sending(m, todo, "idle"))
    BY <2>1, SendingIsOk DEF Requesting
  <2> QED BY <1>3, <2>2 DEF AddBlock, Sending, At, AtSend
<1>4. CASE m.cmd = "getblocks" /\ m.from \in Addresses
  <2>1. HandleGetBlocks(m) \in Seq(OwnRequests)
    <3>1. Inv("block", GetBlockHashes) \in Own
      BY <1>1 DEF Inv, Own, GetBlockHashes
    <3>2. To(m.from, Inv("block", GetBlockHashes)) \in OwnRequests
      BY <1>4, <3>1 DEF OwnRequests
    <3> QED BY <3>2 DEF HandleGetBlocks
  <2>2. Begin(m) = Sending(m, HandleGetBlocks(m), "idle")
    BY <1>4 DEF Begin
  <2> QED BY <1>3, <1>4, <2>1, <2>2
<1>5. CASE m.cmd = "getdata" /\ m.type = "block" /\ m.from \in Addresses /\ m.item \in Hashes
  <2>1. GetBlock(m.item) # {} => m.item \in Blocks
    BY <1>1, <1>5 DEF GetBlock
  <2>2. HandleGetDataBlock(m) \in Seq(OwnRequests)
    <3>1. m.item \in Blocks => Block(m.item) \in Own
      BY <1>1 DEF Block, Own
    <3>2. m.item \in Blocks => To(m.from, Block(m.item)) \in OwnRequests
      BY <1>5, <3>1 DEF OwnRequests
    <3> QED BY <2>1, <3>2, EmptySeq DEF HandleGetDataBlock
  <2>3. Begin(m) = Sending(m, HandleGetDataBlock(m), "idle")
    BY <1>5 DEF Begin
  <2> QED BY <1>3, <1>5, <2>2, <2>3
<1>6. CASE m.cmd = "block" /\ m.from \in Addresses /\ m.item \in Blocks
  <2> DEFINE o == Msg("block", m.from, "none", <<>>)
  <2>1. Begin(m) = At("next", o)
    BY <1>6 DEF Begin
  <2>2. Serves("next", o)
    BY <1>6 DEF Serves, Msg
  <2>3. ConnOk(At("next", o))
    BY <2>2, EmptySeq DEF ConnOk, At, Requesting
  <2> QED BY <1>1, <1>6, <2>1, <2>3 DEF AddBlock, At
<1>7. CASE ((m.cmd = "getdata" /\ m.type = "tx") \/ m.cmd \in {"addr", "inv", "tx"}) /\ Serves(m.cmd, m)
  <2>1. Begin(m) = At(m.cmd, m)
    BY <1>7 DEF Begin
  <2>2. ConnOk(At(m.cmd, m))
    BY <1>7, EmptySeq DEF ConnOk, At, Requesting
  <2>3. m.cmd = "getdata" => \E a \in announced : a[2] = m.item
    BY <1>7, Kinds
  <2> QED BY <1>7, <2>1, <2>2, <2>3 DEF AddBlock, At
<1> QED BY <1>4, <1>5, <1>6, <1>7, Kinds

(* A goroutine is found for a message. *)
LEMMA ConnectionBegins ==
  ASSUME NodeInv, status = "up", NEW m \in Own \cup Arriving, ~Panics(m), HandleConnection(m)
  PROVE  \E h \in Handlers :
           /\ conn[h].pc = "idle" /\ conn' = [conn EXCEPT ![h] = Begin(m)]
           /\ UNCHANGED <<keys, status, cause, nodeAddress, shared, announced, starts, wanted, cutOff>>
           /\ overlapped' = (overlapped \/ Busy # {})
<1>1. \E h : h \in Handlers \ Busy
  BY DEF HandleConnection, Busy
<1> DEFINE h == CHOOSE h \in Handlers \ Busy : TRUE
<1>2. h \in Handlers \ Busy
  BY <1>1
<1>3. conn' = [conn EXCEPT ![h] = Begin(m)]
  BY DEF HandleConnection
<1> HIDE DEF h
<1>4. h \in Handlers /\ conn[h].pc = "idle"
  BY <1>2 DEF Busy
<1>5. AddBlock(m) = keys
  BY BeginIsOk
<1> QED BY <1>3, <1>4, <1>5 DEF HandleConnection

LEMMA ConnectionKeeps ==
  ASSUME NodeInv, status = "up", NEW m \in Own \cup Arriving, ~Panics(m), HandleConnection(m),
         BagToSet(inbox') \subseteq Own, messages' \in 0..MaxMessages
  PROVE  NodeInv'
<1>1. PICK h \in Handlers :
        /\ conn[h].pc = "idle" /\ conn' = [conn EXCEPT ![h] = Begin(m)]
        /\ UNCHANGED <<keys, status, cause, nodeAddress, shared, announced, starts, wanted, cutOff>>
        /\ overlapped' = (overlapped \/ Busy # {})
  BY ConnectionBegins
<1>2. ConnOk(Begin(m))
  BY BeginIsOk
<1>3. /\ KnownNodes' \in Seq(Addresses) /\ blocksInTransit' \in Seq(Hashes) /\ memoryPool' \subseteq Txs
      /\ announced' \subseteq Peers \X Txs /\ wanted' \subseteq Hashes
      /\ overlapped' \in BOOLEAN /\ cutOff' \in BOOLEAN
  BY <1>1 DEF NodeInv, StateTyped, NotesTyped, shared
<1> QED BY <1>1, <1>2, <1>3, GoesOn

(* The listener takes what the node sent to itself, *)
LEMMA OwnIsServed ==
  ASSUME NodeInv, AcceptOwn
  PROVE  \E m \in Own :
           /\ status = "up" /\ ~Panics(m) /\ HandleConnection(m) /\ UNCHANGED messages
           /\ BagToSet(inbox') \subseteq BagToSet(inbox)
<1>1. PICK m \in BagToSet(inbox) : HandleConnection(m) /\ inbox' = inbox (-) SetToBag({m})
  BY DEF AcceptOwn
<1>2. m \in Own
  BY DEF NodeInv, StateTyped
<1>3. BagToSet(inbox') \subseteq BagToSet(inbox)
  BY <1>1 DEF BagToSet, SetToBag, (-)
<1>4. Blocks \subseteq keys
  BY DEF NodeInv, StateTyped
<1>5. ~Panics(m)
  BY <1>2, <1>4 DEF Own, Msg, Panics
<1> QED BY <1>1, <1>2, <1>3, <1>5 DEF AcceptOwn

LEMMA AcceptOwnKeeps ==
  ASSUME NodeInv, AcceptOwn
  PROVE  NodeInv'
<1>1. PICK m \in Own :
        /\ status = "up" /\ ~Panics(m) /\ HandleConnection(m) /\ UNCHANGED messages
        /\ BagToSet(inbox') \subseteq BagToSet(inbox)
  BY OwnIsServed
<1>2. BagToSet(inbox') \subseteq Own /\ messages' \in 0..MaxMessages
  BY <1>1 DEF NodeInv, StateTyped, NotesTyped
<1> QED BY <1>1, <1>2, ConnectionKeeps

(* and what others send, as far as it can be read. *)
LEMMA AnotherMessage ==
  ASSUME NodeInv, messages < MaxMessages, messages' = messages + 1
  PROVE  messages' \in 0..MaxMessages
<1>1. messages \in 0..MaxMessages
  BY DEF NodeInv, NotesTyped
<1> QED BY <1>1, Bounds

LEMMA AcceptKeeps ==
  ASSUME NodeInv, Accept
  PROVE  NodeInv'
<1>1. PICK m \in Arriving :
        IF Panics(m) THEN End("best height") /\ UNCHANGED starts
        ELSE HandleConnection(m) /\ UNCHANGED inbox
  BY DEF Accept
<1>2. status = "up" /\ messages' \in 0..MaxMessages
  BY AnotherMessage DEF Accept
<1>3. starts \in 0..MaxStarts /\ BagToSet(inbox) \subseteq Own
  BY DEF NodeInv, StateTyped, NotesTyped
<1>4. CASE Panics(m)
  BY <1>1, <1>2, <1>3, <1>4, EndKeeps
<1>5. CASE ~Panics(m)
  BY <1>1, <1>2, <1>3, <1>5, ConnectionKeeps
<1> QED BY <1>4, <1>5

LEMMA ProcessEndKeeps ==
  ASSUME NodeInv, CloseDB \/ ReadFails
  PROVE  NodeInv'
<1>1. messages' \in 0..MaxMessages /\ starts' \in 0..MaxStarts
  BY AnotherMessage DEF CloseDB, ReadFails, counts, NodeInv, NotesTyped
<1>2. \E why \in {"signal", "read"} : End(why)
  BY DEF CloseDB, ReadFails
<1> QED BY <1>1, <1>2, EndKeeps

-----------------------------------------------------------------------------
(* A handler's step. *)

(* What is sent next, and what is left to do then. *)
LEMMA SendingOn ==
  ASSUME NodeInv, NEW h \in Handlers, conn[h].pc \in Requesting
  PROVE  /\ status = "up" /\ nodeAddress = Central
         /\ conn[h].todo \in Seq(Requests) /\ conn[h].todo # <<>>
         /\ conn[h].then \in {"idle", "slice", "filter"} /\ Serves(conn[h].then, conn[h].msg)
         /\ Head(conn[h].todo) \in Requests /\ Tail(conn[h].todo) \in Seq(Requests)
         /\ ConnOk(Sending(conn[h].msg, Tail(conn[h].todo), conn[h].then))
<1>1. conn[h].pc # "idle"
  BY DEF Requesting
<1>2. status = "up" /\ nodeAddress = Central
  BY <1>1, BusyIsUp
<1>3. /\ conn[h].todo \in Seq(Requests) /\ conn[h].todo # <<>>
      /\ conn[h].then \in {"idle", "slice", "filter"} /\ Serves(conn[h].then, conn[h].msg)
  BY DEF NodeInv, StateTyped, ConnOk
<1>4. Head(conn[h].todo) \in Requests /\ Tail(conn[h].todo) \in Seq(Requests)
  BY <1>3, HeadTailProperties
<1>5. ConnOk(Sending(conn[h].msg, Tail(conn[h].todo), conn[h].then))
  BY <1>3, <1>4, SendingIsOk DEF Requesting
<1> QED BY <1>2, <1>3, <1>4, <1>5

(* Where a request goes. *)
LEMMA RequestGoes ==
  ASSUME NEW r \in Requests
  PROVE  /\ r.to \in Addresses
         /\ r.to = Central => r.msg \in Own
         /\ r.msg.cmd = "inv" /\ r.msg.type = "tx" =>
              r.to \in Peers /\ \E t \in Txs : r.msg.item = <<t>> /\ r.msg.item[1] = t
         /\ r.msg.cmd = "tx" => r.msg \in OfTxs
<1>1. CASE r \in OwnRequests
  BY <1>1 DEF OwnRequests, Own, Msg, To
<1>2. CASE \E p \in Peers, m \in OfTxs : r = To(p, m)
  <2>1. r.to \in Peers /\ r.to # Central /\ r.msg \in OfTxs
    BY <1>2, NodeAssumption DEF To
  <2>2. r.msg.cmd = "inv" => \E t \in Txs : r.msg.item = <<t>> /\ r.msg.item[1] = t
    BY <2>1 DEF OfTxs, Msg
  <2> QED BY <2>1, <2>2 DEF Addresses
<1> QED BY <1>1, <1>2 DEF Requests

LEMMA SendKeeps ==
  ASSUME NodeInv, NEW h \in Handlers, Send(h)
  PROVE  NodeInv'
<1>1. conn[h].pc \in Requesting
  BY DEF Send, Requesting
<1> DEFINE r == Head(conn[h].todo)
<1>2. /\ status = "up" /\ nodeAddress = Central /\ r \in Requests
      /\ ConnOk(Sending(conn[h].msg, Tail(conn[h].todo), conn[h].then))
  BY <1>1, SendingOn
<1>3. /\ conn' = [conn EXCEPT ![h] = Sending(conn[h].msg, Tail(conn[h].todo), conn[h].then)]
      /\ UNCHANGED <<Process, notes, shared>>
      /\ IF r.to = Central
         THEN inbox' = inbox (+) SetToBag({r.msg}) /\ UNCHANGED announced
         ELSE /\ announced' = announced \cup
                   IF r.msg.cmd = "inv" /\ r.msg.type = "tx" THEN {<<r.to, r.msg.item[1]>>} ELSE {}
              /\ UNCHANGED inbox
  BY <1>2 DEF Send, Sends
<1> HIDE DEF r
<1>4. BagToSet(inbox') \subseteq Own
  <2>1. BagToSet(inbox) \subseteq Own
    BY DEF NodeInv, StateTyped
  <2>2. CASE r.to = Central
    <3>1. r.msg \in Own
      BY <1>2, <2>2, RequestGoes
    <3>2. BagToSet(inbox') = BagToSet(inbox) \cup {r.msg}
      BY <1>3, <2>2 DEF BagToSet, SetToBag, (+)
    <3> QED BY <2>1, <3>1, <3>2
  <2>3. CASE r.to # Central
    BY <1>3, <2>1, <2>3
  <2> QED BY <2>2, <2>3
<1>5. announced' \subseteq Peers \X Txs
  <2>1. announced \subseteq Peers \X Txs
    BY DEF NodeInv, NotesTyped
  <2>2. r.msg.cmd = "inv" /\ r.msg.type = "tx" => <<r.to, r.msg.item[1]>> \in Peers \X Txs
    BY <1>2, RequestGoes
  <2> QED BY <1>3, <2>1, <2>2
<1>6. /\ KnownNodes' \in Seq(Addresses) /\ blocksInTransit' \in Seq(Hashes) /\ memoryPool' \subseteq Txs
      /\ wanted' \subseteq Hashes /\ overlapped' \in BOOLEAN /\ cutOff' \in BOOLEAN
      /\ messages' \in 0..MaxMessages
      /\ UNCHANGED <<keys, status, cause, nodeAddress, starts>>
  BY <1>3 DEF NodeInv, StateTyped, NotesTyped, Process, notes, shared, counts
<1> QED BY <1>2, <1>3, <1>4, <1>5, <1>6, GoesOn

(* What the steps that send nothing leave alone. *)
LEMMA QuietStep ==
  ASSUME NodeInv, NEW h \in Handlers, NEW c, ConnOk(c), status = "up",
         conn' = [conn EXCEPT ![h] = c], UNCHANGED <<Process, Wire, overlapped>>,
         KnownNodes' \in Seq(Addresses), blocksInTransit' \in Seq(Hashes), memoryPool' \subseteq Txs,
         wanted' \subseteq Hashes, cutOff' \in BOOLEAN
  PROVE  NodeInv'
<1>1. /\ BagToSet(inbox') \subseteq Own /\ announced' \subseteq Peers \X Txs
      /\ overlapped' \in BOOLEAN /\ messages' \in 0..MaxMessages
      /\ UNCHANGED <<keys, status, cause, nodeAddress, starts>>
  BY DEF NodeInv, StateTyped, NotesTyped, Process, Wire, counts
<1> QED BY <1>1, GoesOn

LEMMA SameShared ==
  ASSUME NodeInv
  PROVE  /\ KnownNodes' = KnownNodes => KnownNodes' \in Seq(Addresses)
         /\ blocksInTransit' = blocksInTransit => blocksInTransit' \in Seq(Hashes)
         /\ memoryPool' = memoryPool => memoryPool' \subseteq Txs
         /\ wanted' = wanted => wanted' \subseteq Hashes
         /\ cutOff' = cutOff => cutOff' \in BOOLEAN
BY DEF NodeInv, StateTyped, NotesTyped

(* A node that is not reached is left out. *)
LEMMA DropKeeps ==
  ASSUME NodeInv, NEW h \in Handlers, NotAvailable(h) \/ DropNode(h)
  PROVE  NodeInv'
<1>1. conn[h].pc \in Requesting
  BY DEF NotAvailable, DropNode, Requesting
<1>2. /\ status = "up" /\ nodeAddress = Central
      /\ conn[h].todo \in Seq(Requests) /\ conn[h].todo # <<>>
      /\ conn[h].then \in {"idle", "slice", "filter"} /\ Serves(conn[h].then, conn[h].msg)
      /\ ConnOk(Sending(conn[h].msg, Tail(conn[h].todo), conn[h].then))
  BY <1>1, SendingOn
<1>3. CASE NotAvailable(h)
  <2> DEFINE to == Head(conn[h].todo).to
  <2>1. /\ conn' = [conn EXCEPT ![h] = Made("drop", conn[h], Others(to))]
        /\ cutOff' = (cutOff \/ to = Central)
        /\ UNCHANGED <<Process, Wire, overlapped, shared, wanted>>
    BY <1>2, <1>3 DEF NotAvailable
  <2>2. Others(to) \in Seq(Addresses)
    <3> HIDE DEF to
    <3>1. KnownNodes \in Seq(Addresses)
      BY DEF NodeInv, StateTyped
    <3>2. AllBut(KnownNodes, to) \in Seq(Addresses \ {to})
      BY <3>1, AllButKeeps
    <3> QED BY <3>2 DEF Others
  <2>3. ConnOk(Made("drop", conn[h], Others(to)))
    <3> HIDE DEF to
    <3> QED BY <1>2, <2>2 DEF ConnOk, Made, Requesting
  <2>4. cutOff' \in BOOLEAN
    BY <2>1
  <2>5. UNCHANGED <<KnownNodes, blocksInTransit, memoryPool, wanted>>
    BY <2>1 DEF shared
  <2> QED BY <1>2, <2>1, <2>3, <2>4, <2>5, SameShared, QuietStep
<1>4. CASE DropNode(h)
  <2>1. conn[h].kept \in Seq(Addresses)
    BY <1>4 DEF DropNode, NodeInv, StateTyped, ConnOk
  <2>2. /\ conn' = [conn EXCEPT ![h] = Sending(conn[h].msg, Tail(conn[h].todo), conn[h].then)]
        /\ KnownNodes' \in Seq(Addresses)
        /\ UNCHANGED <<Process, Wire, overlapped>>
        /\ UNCHANGED <<blocksInTransit, memoryPool, wanted, cutOff>>
    BY <1>4, <2>1 DEF DropNode, Sends, notes
  <2> QED BY <1>2, <2>2, SameShared, QuietStep
<1> QED BY <1>3, <1>4

(* What a goroutine that sends nothing has, *)
LEMMA ServingNow ==
  ASSUME NodeInv, NEW h \in Handlers, conn[h].pc \notin Requesting \cup {"idle"}
  PROVE  /\ status = "up" /\ nodeAddress = Central
         /\ conn[h].todo = <<>> /\ Serves(conn[h].pc, conn[h].msg)
<1>1. conn[h].pc # "idle" /\ conn[h].pc \notin Requesting
  OBVIOUS
<1> QED BY <1>1, BusyIsUp DEF NodeInv, StateTyped, ConnOk

(* when it goes on without a request, *)
LEMMA GotoIsOk ==
  ASSUME NEW m, NEW pc, pc \notin Requesting, pc = "idle" \/ Serves(pc, m)
  PROVE  ConnOk(Sending(m, <<>>, pc))
BY SendingIsOk, EmptySeq

(* and with one. *)
LEMMA RequestIsOk ==
  ASSUME NEW m, NEW r \in Requests, NEW then \in {"idle", "slice", "filter"},
         then = "idle" \/ Serves(then, m)
  PROVE  ConnOk(Sending(m, <<r>>, then))
<1>1. then \notin Requesting
  BY DEF Requesting
<1> QED BY <1>1, OneRequest, SendingIsOk

LEMMA AddrKeeps ==
  ASSUME NodeInv, NEW h \in Handlers, HandleAddr(h) \/ AppendNodes(h) \/ RangeNodes(h)
  PROVE  NodeInv'
<1>1. conn[h].pc \in {"addr", "append", "range"} /\ KnownNodes \in Seq(Addresses)
  BY DEF HandleAddr, AppendNodes, RangeNodes, NodeInv, StateTyped
<1>2. /\ status = "up" /\ nodeAddress = Central /\ conn[h].todo = <<>>
      /\ Serves("append", conn[h].msg) /\ Serves("range", conn[h].msg)
      /\ conn[h].msg.item \in Seq(Addresses)
  BY <1>1, ServingNow DEF Requesting, Serves
<1>3. UNCHANGED <<Process, Wire, overlapped>> /\ UNCHANGED <<blocksInTransit, memoryPool, wanted, cutOff>>
  BY DEF HandleAddr, AppendNodes, RangeNodes, notes, shared
<1>4. CASE HandleAddr(h)
  <2>1. KnownNodes \o conn[h].msg.item \in Seq(Addresses)
    BY <1>1, <1>2, ConcatProperties
  <2>2. ConnOk(Made("append", conn[h], KnownNodes \o conn[h].msg.item))
    BY <1>2, <2>1, MadeIsOk DEF Requesting
  <2>3. /\ conn' = [conn EXCEPT ![h] = Made("append", conn[h], KnownNodes \o conn[h].msg.item)]
        /\ KnownNodes' = KnownNodes
    BY <1>4 DEF HandleAddr, shared
  <2> QED BY <1>2, <1>3, <2>2, <2>3, SameShared, QuietStep
<1>5. CASE AppendNodes(h)
  <2>1. conn[h].kept \in Seq(Addresses)
    BY <1>5 DEF AppendNodes, NodeInv, StateTyped, ConnOk
  <2>2. ConnOk(Sending(conn[h].msg, <<>>, "range"))
    BY <1>2, GotoIsOk DEF Requesting
  <2>3. /\ conn' = [conn EXCEPT ![h] = Sending(conn[h].msg, <<>>, "range")]
        /\ KnownNodes' \in Seq(Addresses)
    BY <1>5, <2>1 DEF AppendNodes, Goto, Sends
  <2> QED BY <1>2, <1>3, <2>2, <2>3, SameShared, QuietStep
<1>6. CASE RangeNodes(h)
  <2>1. RequestBlocks(KnownNodes) \in Seq(Requests)
    <3>1. Len(KnownNodes) \in Nat /\ DOMAIN KnownNodes = 1..Len(KnownNodes)
      BY <1>1
    <3>2. GetBlocks \in Own
      BY <1>2 DEF GetBlocks, Own
    <3>3. \A i \in 1..Len(KnownNodes) : To(KnownNodes[i], GetBlocks) \in Requests
      BY <1>1, <3>1, <3>2 DEF Requests, OwnRequests
    <3>4. RequestBlocks(KnownNodes) = [i \in 1..Len(KnownNodes) |-> To(KnownNodes[i], GetBlocks)]
      BY <3>1 DEF RequestBlocks
    <3> QED BY <3>1, <3>3, <3>4, IsASeq
  <2>2. /\ ConnOk(Sending(conn[h].msg, RequestBlocks(KnownNodes), "idle"))
        /\ conn' = [conn EXCEPT ![h] = Sending(conn[h].msg, RequestBlocks(KnownNodes), "idle")]
        /\ KnownNodes' = KnownNodes
    BY <1>6, <2>1, SendingIsOk DEF Requesting, RangeNodes, Sends, shared
  <2> QED BY <1>2, <1>3, <2>2, SameShared, QuietStep
<1> QED BY <1>4, <1>5, <1>6

LEMMA BlockKeeps ==
  ASSUME NodeInv, NEW h \in Handlers,
         NextBlock(h) \/ Reindex(h) \/ (FirstBlock(h) /\ blocksInTransit # <<>>)
  PROVE  NodeInv'
<1>1. conn[h].pc \in {"next", "first"}
  BY DEF NextBlock, Reindex, FirstBlock
<1>2. status = "up" /\ nodeAddress = Central /\ conn[h].msg.from \in Addresses /\ conn[h].msg.cmd = "block"
  BY <1>1, ServingNow DEF Requesting, Serves
<1>3. CASE FirstBlock(h) /\ blocksInTransit # <<>>
  <2> DEFINE r == To(conn[h].msg.from, GetData("block", blocksInTransit[1]))
  <2>1. blocksInTransit[1] \in Hashes
    <3>1. blocksInTransit \in Seq(Hashes)
      BY DEF NodeInv, StateTyped
    <3> QED BY <1>3, <3>1, EmptySeq
  <2>2. r \in Requests
    <3>1. GetData("block", blocksInTransit[1]) \in Own
      BY <1>2, <2>1 DEF GetData, Own
    <3> QED BY <1>2, <3>1 DEF Requests, OwnRequests
  <2>3. conn' = [conn EXCEPT ![h] = Sending(conn[h].msg, <<r>>, "slice")]
    BY <1>3 DEF FirstBlock, Sends
  <2>4. ConnOk(Sending(conn[h].msg, <<r>>, "slice"))
    <3>1. Serves("slice", conn[h].msg)
      BY <1>2 DEF Serves
    <3> HIDE DEF r
    <3> QED BY <2>2, <3>1, RequestIsOk
  <2>5. /\ UNCHANGED <<Process, Wire, overlapped>> /\ UNCHANGED <<KnownNodes, blocksInTransit, memoryPool, cutOff>>
        /\ wanted' \subseteq Hashes
    BY <1>3 DEF FirstBlock, shared, NodeInv, NotesTyped
  <2> HIDE DEF r
  <2> QED BY <1>2, <2>3, <2>4, <2>5, SameShared, QuietStep
<1>4. CASE NextBlock(h) \/ Reindex(h)
  <2>1. UNCHANGED <<Process, Wire, overlapped>> /\ UNCHANGED <<KnownNodes, blocksInTransit, memoryPool, wanted, cutOff>>
    BY <1>4 DEF NextBlock, Reindex, notes, shared
  <2>2. \E pc \in {"idle", "first"} : conn' = [conn EXCEPT ![h] = Sending(conn[h].msg, <<>>, pc)]
    BY <1>4 DEF NextBlock, Reindex, Goto, Sends
  <2>3. \A pc \in {"idle", "first"} : ConnOk(Sending(conn[h].msg, <<>>, pc))
    <3>1. Serves("first", conn[h].msg)
      BY <1>2 DEF Serves
    <3> QED BY <3>1, GotoIsOk DEF Requesting
  <2> QED BY <1>2, <2>1, <2>2, <2>3, SameShared, QuietStep
<1> QED BY <1>3, <1>4

(* The list of blocks in transit is read, changed and assigned. *)
LEMMA TransitKeeps ==
  ASSUME NodeInv, NEW h \in Handlers,
         \/ HandleInvBlock(h) \/ FilterTransit(h) \/ AssignTransit(h)
         \/ SliceTransit(h) /\ blocksInTransit # <<>>
  PROVE  NodeInv'
<1>1. /\ conn[h].pc \in {"inv", "filter", "slice", "assign"}
      /\ conn[h].pc = "inv" => conn[h].msg.type = "block"
  BY DEF HandleInvBlock, FilterTransit, SliceTransit, AssignTransit
<1>2. conn[h].pc \notin Requesting \cup {"idle"}
  BY <1>1 DEF Requesting
<1>3. /\ status = "up" /\ nodeAddress = Central /\ conn[h].todo = <<>>
      /\ conn[h].pc \in {"inv", "filter"} =>
           conn[h].msg.from \in Addresses /\ Inventory(conn[h].msg.item) /\ Serves("filter", conn[h].msg)
      /\ conn[h].pc \in {"filter", "slice"} => Serves("assign", conn[h].msg)
  BY <1>1, <1>2, ServingNow DEF Serves
<1>4. UNCHANGED <<Process, Wire, overlapped>> /\ UNCHANGED <<KnownNodes, memoryPool, cutOff>>
  BY DEF HandleInvBlock, FilterTransit, SliceTransit, AssignTransit, notes, shared
<1>5. blocksInTransit \in Seq(Hashes) /\ wanted \subseteq Hashes
  BY DEF NodeInv, StateTyped, NotesTyped
<1>6. CASE HandleInvBlock(h)
  <2> DEFINE items == conn[h].msg.item
             r == To(conn[h].msg.from, GetData("block", items[1]))
  <2>1. /\ Inventory(items) /\ conn[h].msg.from \in Addresses /\ Serves("filter", conn[h].msg)
    BY <1>1, <1>3, <1>6 DEF HandleInvBlock
  <2>2. /\ blocksInTransit' = items /\ wanted' = ToSet(Tail(items))
        /\ conn' = [conn EXCEPT ![h] = Sending(conn[h].msg, <<r>>, "filter")]
    BY <1>6 DEF HandleInvBlock, Sends
  <2>3. r \in Requests
    <3>1. items[1] \in Hashes
      BY <2>1, EmptySeq DEF Inventory
    <3>2. GetData("block", items[1]) \in Own
      BY <1>3, <3>1 DEF GetData, Own
    <3> QED BY <2>1, <3>2 DEF Requests, OwnRequests
  <2>4. wanted' \subseteq Hashes
    <3>1. Tail(items) \in Seq(Hashes)
      BY <2>1, HeadTailProperties DEF Inventory
    <3> HIDE DEF items
    <3> QED BY <2>2, <3>1 DEF ToSet
  <2> HIDE DEF r
  <2>5. ConnOk(Sending(conn[h].msg, <<r>>, "filter"))
    BY <2>1, <2>3, RequestIsOk
  <2>6. blocksInTransit' \in Seq(Hashes)
    BY <2>1, <2>2 DEF Inventory
  <2> QED BY <1>3, <1>4, <2>2, <2>4, <2>5, <2>6, SameShared, QuietStep
<1>7. CASE FilterTransit(h) \/ (SliceTransit(h) /\ blocksInTransit # <<>>)
  <2>1. PICK kept :
          /\ \/ kept = AllBut(blocksInTransit, conn[h].msg.item[1])
             \/ blocksInTransit # <<>> /\ kept = Tail(blocksInTransit)
          /\ conn' = [conn EXCEPT ![h] = Made("assign", conn[h], kept)]
    BY <1>7 DEF FilterTransit, SliceTransit
  <2>2. kept \in Seq(Hashes)
    <3>1. AllBut(blocksInTransit, conn[h].msg.item[1]) \in Seq(Hashes)
      <4>1. AllBut(blocksInTransit, conn[h].msg.item[1]) \in Seq(Hashes \ {conn[h].msg.item[1]})
        BY <1>5, AllButKeeps
      <4> QED BY <4>1
    <3> QED BY <1>5, <2>1, <3>1, HeadTailProperties
  <2>3. Serves("assign", conn[h].msg)
    BY <1>3, <1>7 DEF FilterTransit, SliceTransit
  <2>4. ConnOk(Made("assign", conn[h], kept))
    BY <1>3, <2>2, <2>3, MadeIsOk DEF Requesting
  <2>5. UNCHANGED <<blocksInTransit, wanted>>
    BY <1>7 DEF FilterTransit, SliceTransit, notes, shared
  <2> QED BY <1>3, <1>4, <2>1, <2>4, <2>5, SameShared, QuietStep
<1>8. CASE AssignTransit(h)
  <2>1. conn[h].kept \in Seq(Hashes)
    BY <1>8 DEF AssignTransit, NodeInv, StateTyped, ConnOk, Requesting
  <2>2. /\ conn' = [conn EXCEPT ![h] = Sending(conn[h].msg, <<>>, "idle")] /\ wanted' = wanted
        /\ blocksInTransit' \in Seq(Hashes)
    BY <1>8, <2>1 DEF AssignTransit, Goto, Sends, notes
  <2>3. ConnOk(Sending(conn[h].msg, <<>>, "idle"))
    BY GotoIsOk DEF Requesting
  <2> QED BY <1>3, <1>4, <2>2, <2>3, SameShared, QuietStep
<1> QED BY <1>6, <1>7, <1>8

(* A transaction is announced to other nodes. *)
LEMMA AnnounceTells ==
  ASSUME NodeInv, nodeAddress = Central, NEW m, m.item \in Txs
  PROVE  /\ Announcement(m) \in Seq({To(p, Msg("inv", Central, "tx", <<m.item>>)) : p \in Peers})
         /\ Announcement(m) \in Seq(Requests)
<1> DEFINE others == AllBut(AllBut(KnownNodes, nodeAddress), m.from)
           Told == {To(p, Msg("inv", Central, "tx", <<m.item>>)) : p \in Peers}
<1>1. others \in Seq(Peers)
  <2>1. KnownNodes \in Seq(Addresses)
    BY DEF NodeInv, StateTyped
  <2>2. AllBut(KnownNodes, nodeAddress) \in Seq(Addresses \ {Central})
    BY <2>1, AllButKeeps
  <2>3. others \in Seq((Addresses \ {Central}) \ {m.from})
    BY <2>2, AllButKeeps
  <2> HIDE DEF others
  <2> QED BY <2>3 DEF Addresses
<1> HIDE DEF others
<1>2. Announcement(m) = <<>> \/ Announcement(m) = [i \in DOMAIN others |-> To(others[i], Inv("tx", <<m.item>>))]
  BY DEF Announcement, others
<1>3. Inv("tx", <<m.item>>) = Msg("inv", Central, "tx", <<m.item>>)
  BY DEF Inv
<1>4. Told \subseteq Requests
  BY DEF Requests, OfTxs
<1>5. \A i \in 1..Len(others) : To(others[i], Inv("tx", <<m.item>>)) \in Told
  BY <1>1, <1>3
<1> HIDE DEF Told
<1>6. Announcement(m) \in Seq(Told)
  <2>1. Len(others) \in Nat /\ DOMAIN others = 1..Len(others)
    BY <1>1
  <2>2. [i \in 1..Len(others) |-> To(others[i], Inv("tx", <<m.item>>))] \in Seq(Told)
    BY <1>5, <2>1, IsASeq
  <2> QED BY <1>2, <2>1, <2>2, EmptySeq
<1>7. Announcement(m) \in Seq(Requests)
  BY <1>4, <1>6
<1> QED BY <1>6, <1>7 DEF Told

LEMMA TxKeeps ==
  ASSUME NodeInv, NEW h \in Handlers,
         \/ HandleGetDataTx(h) \/ StoreBegins(h) \/ StoreTx(h) \/ HandleInvTx(h) \/ Announce(h)
         \/ IsFirst(h) /\ KnownNodes # <<>>
  PROVE  NodeInv'
<1> DEFINE m == conn[h].msg
<1>1. /\ conn[h].pc \in {"getdata", "tx", "store", "head", "announce", "inv"}
      /\ conn[h].pc = "inv" => conn[h].msg.type = "tx"
  BY DEF HandleGetDataTx, StoreBegins, StoreTx, IsFirst, Announce, HandleInvTx
<1>2. conn[h].pc \notin Requesting \cup {"idle"}
  BY <1>1 DEF Requesting
<1>3. status = "up" /\ nodeAddress = Central /\ Serves(conn[h].pc, m)
  BY <1>2, ServingNow
<1>4. UNCHANGED <<Process, Wire, overlapped>> /\ UNCHANGED <<KnownNodes, blocksInTransit, wanted, cutOff>>
  BY DEF HandleGetDataTx, StoreBegins, StoreTx, IsFirst, Announce, HandleInvTx, notes, shared
<1>5. memoryPool' \subseteq Txs
  <2>1. memoryPool \subseteq Txs
    BY DEF NodeInv, StateTyped
  <2>2. StoreTx(h) => m.item \in Txs
    BY <1>3 DEF StoreTx, Serves
  <2> QED BY <2>1, <2>2 DEF HandleGetDataTx, StoreBegins, StoreTx, IsFirst, Announce, HandleInvTx, shared
<1>6. \E c : ConnOk(c) /\ conn' = [conn EXCEPT ![h] = c]
  <2>1. CASE HandleGetDataTx(h)
    <3> DEFINE r == To(m.from, Tx(IF m.item \in memoryPool THEN m.item ELSE Empty))
    <3>1. m.from \in Peers /\ m.item \in Txs
      BY <1>3, <2>1 DEF HandleGetDataTx, Serves
    <3>2. r \in Requests
      <4>1. Tx(IF m.item \in memoryPool THEN m.item ELSE Empty) \in OfTxs
        BY <1>3, <3>1 DEF Tx, OfTxs
      <4> QED BY <3>1, <4>1 DEF Requests
    <3>3. conn' = [conn EXCEPT ![h] = Sending(m, <<r>>, "idle")]
      BY <2>1 DEF HandleGetDataTx, Sends
    <3> HIDE DEF r
    <3> QED BY <3>2, <3>3, RequestIsOk
  <2>2. CASE StoreBegins(h) \/ StoreTx(h) \/ (IsFirst(h) /\ KnownNodes # <<>>)
    <3>1. \E pc \in {"store", "head", "announce", "idle"} : conn' = [conn EXCEPT ![h] = Sending(m, <<>>, pc)]
      BY <2>2 DEF StoreBegins, StoreTx, IsFirst, Goto, Sends
    <3>2. \A pc \in {"store", "head", "announce"} : Serves(pc, m)
      <4>1. conn[h].pc \in {"tx", "store", "head"}
        BY <2>2 DEF StoreBegins, StoreTx, IsFirst
      <4> QED BY <1>3, <4>1 DEF Serves
    <3>3. \A pc \in {"store", "head", "announce", "idle"} : ConnOk(Sending(m, <<>>, pc))
      BY <3>2, GotoIsOk DEF Requesting
    <3> QED BY <3>1, <3>3
  <2>3. CASE Announce(h)
    <3>1. conn' = [conn EXCEPT ![h] = Sending(m, Announcement(m), "idle")] /\ m.item \in Txs
      BY <1>3, <2>3 DEF Announce, Sends, Serves
    <3>2. Announcement(m) \in Seq(Requests)
      BY <1>3, <3>1, AnnounceTells
    <3> QED BY <3>1, <3>2, SendingIsOk DEF Requesting
  <2>4. CASE HandleInvTx(h)
    <3> DEFINE t == m.item[1]
               r == To(m.from, GetData("tx", t))
    <3>1. conn[h].pc = "inv" /\ m.type = "tx"
      BY <2>4 DEF HandleInvTx
    <3>2. m.from \in Peers /\ m.item \in {<<x>> : x \in Txs}
      BY <1>3, <3>1 DEF Serves
    <3>3. t \in Txs
      BY <3>2
    <3>4. r \in Requests
      <4>1. GetData("tx", t) \in OfTxs
        BY <1>3, <3>3 DEF GetData, OfTxs
      <4> QED BY <3>2, <4>1 DEF Requests
    <3>5. \/ conn' = [conn EXCEPT ![h] = Sending(m, <<>>, "idle")]
          \/ conn' = [conn EXCEPT ![h] = Sending(m, <<r>>, "idle")]
      BY <2>4 DEF HandleInvTx, Sends
    <3> HIDE DEF r
    <3>6. ConnOk(Sending(m, <<>>, "idle")) /\ ConnOk(Sending(m, <<r>>, "idle"))
      BY <3>4, GotoIsOk, RequestIsOk DEF Requesting
    <3> QED BY <3>5, <3>6
  <2> QED BY <2>1, <2>2, <2>3, <2>4
<1> QED BY <1>3, <1>4, <1>5, <1>6, SameShared, QuietStep

(* The steps that end the process. *)
Failing(h) ==
  \/ SendFails(h)
  \/ MapConflict(h)
  \/ IsFirst(h) /\ KnownNodes = <<>>
  \/ (SliceTransit(h) \/ FirstBlock(h)) /\ blocksInTransit = <<>>

LEMMA FailingEnds ==
  ASSUME NEW h \in Handlers, Failing(h)
  PROVE  \E why \in {"send", "map", "index"} : End(why) /\ UNCHANGED counts
BY DEF Failing, SendFails, MapConflict, IsFirst, SliceTransit, FirstBlock

LEMMA FailingKeeps ==
  ASSUME NodeInv, NEW h \in Handlers, Failing(h)
  PROVE  NodeInv'
<1>1. \E why \in {"send", "map", "index"} : End(why) /\ UNCHANGED counts
  BY FailingEnds
<1>2. UNCHANGED counts => messages' \in 0..MaxMessages /\ starts' \in 0..MaxStarts
  BY DEF counts, NodeInv, NotesTyped
<1> QED BY <1>1, <1>2, EndKeeps

LEMMA StepKeeps ==
  ASSUME NodeInv, NEW h \in Handlers, Step(h)
  PROVE  NodeInv'
BY SendKeeps, DropKeeps, AddrKeeps, BlockKeeps, TransitKeeps, TxKeeps, FailingKeeps DEF Step, Failing

LEMMA StutterKeeps ==
  ASSUME NodeInv, UNCHANGED vars
  PROVE  NodeInv'
<1> USE DEF vars, shared, counts, notes
<1>1. StateTyped'
  BY DEF NodeInv, StateTyped
<1>2. NotesTyped'
  BY DEF NodeInv, NotesTyped
<1>3. DownIsEmpty' /\ Running'
  BY DEF NodeInv, DownIsEmpty, Running, Memory
<1> QED BY <1>1, <1>2, <1>3 DEF NodeInv

(* What a node that runs holds is in order, whoever connects, with         *)
(* whatever interleaving and however it ends.                              *)
THEOREM NodeIsInOrder == Spec => []NodeInv
<1>1. Init => NodeInv
  BY InitKeeps
<1>2. NodeInv /\ [Next]_vars => NodeInv'
  BY StartKeeps, ProcessEndKeeps, AcceptKeeps, AcceptOwnKeeps, StepKeeps, StutterKeeps DEF Next
<1> QED BY <1>1, <1>2, PTL DEF Spec

(* The types of the variables. *)
THEOREM NodeTypes == Spec => []TypeOK
<1>1. NodeInv => TypeOK
  <2> SUFFICES ASSUME NodeInv PROVE TypeOK
    OBVIOUS
  <2>1. nodeAddress \in Addresses \cup {NoAddr}
    BY DEF NodeInv, StateTyped, DownIsEmpty, Running, Addresses
  <2>2. ASSUME NEW h \in Handlers
        PROVE  /\ conn[h].msg.cmd \in Commands /\ conn[h].msg.from \in Addresses \cup {NoAddr}
               /\ \A i \in DOMAIN conn[h].todo : conn[h].todo[i].to \in Addresses
               /\ conn[h].kept \in IF conn[h].pc = "assign" THEN Seq(Hashes) ELSE Seq(Addresses)
    <3>1. ConnOk(conn[h])
      BY DEF NodeInv, StateTyped
    <3>2. PICK pc : Serves(pc, conn[h].msg)
      BY <3>1 DEF ConnOk
    <3>3. conn[h].msg.cmd \in Commands /\ conn[h].msg.from \in Addresses \cup {NoAddr}
      BY <3>2 DEF Serves, NoMsg, Msg, Addresses, Commands
    <3>4. conn[h].todo \in Seq(Requests)
      BY <3>1, EmptySeq DEF ConnOk
    <3>5. \A i \in DOMAIN conn[h].todo : conn[h].todo[i].to \in Addresses
      BY <3>4, RequestGoes
    <3> QED BY <3>1, <3>3, <3>5 DEF ConnOk
  <2>3. keys \subseteq Blocks \cup Foreign \cup {"last-hash"}
    BY DEF NodeInv, StateTyped
  <2> QED BY <2>1, <2>2, <2>3 DEF NodeInv, StateTyped, NotesTyped, Hashes, TypeOK
<1> QED BY <1>1, NodeIsInOrder, PTL

(* A node that reaches itself stays at the head of every list made of       *)
(* KnownNodes: the ends and the start of a process,                        *)
LEMMA FirstEnd ==
  ASSUME NEW why, End(why)
  PROVE  SelfFirst'
<1>1. \A h \in Handlers : conn'[h].pc = "idle"
  BY DEF End, Idle, At
<1> QED BY <1>1, StartIsHeaded DEF End, SelfFirst

(* its steps.                                                              *)
LEMMA FirstGoesOn ==
  ASSUME NodeInv, SelfFirst, NEW h \in Handlers, NEW c, conn' = [conn EXCEPT ![h] = c],
         ~cutOff' => ~cutOff,
         ~cutOff' => Headed(KnownNodes'),
         ~cutOff' /\ c.pc \in {"drop", "append"} => Headed(c.kept)
  PROVE  SelfFirst'
BY DEF SelfFirst, NodeInv, StateTyped

LEMMA FirstStep ==
  ASSUME NodeInv, SelfFirst, NEW h \in Handlers, Step(h)
  PROVE  SelfFirst'
<1>1. CASE Failing(h)
  BY <1>1, FailingEnds, FirstEnd
<1>2. CASE NotAvailable(h)
  <2> DEFINE to == Head(conn[h].todo).to
             c  == Made("drop", conn[h], Others(to))
  <2>1. nodeAddress = Central
    BY <1>2, SendingOn DEF NotAvailable, Requesting
  <2>2. /\ conn' = [conn EXCEPT ![h] = c] /\ KnownNodes' = KnownNodes
        /\ cutOff' = (cutOff \/ to = Central)
    BY <1>2, <2>1 DEF NotAvailable, shared
  <2>3. ~cutOff' => Headed(c.kept)
    <3>1. c.kept = AllBut(KnownNodes, to)
      BY DEF Made, Others
    <3>2. KnownNodes \in Seq(Addresses)
      BY DEF NodeInv, StateTyped
    <3> HIDE DEF to, c
    <3>3. ~cutOff' => Headed(KnownNodes) /\ to # Central
      BY <2>2 DEF SelfFirst
    <3> QED BY <3>1, <3>2, <3>3, AllButKeeps DEF Headed
  <2> HIDE DEF to, c
  <2> QED BY <2>2, <2>3, FirstGoesOn DEF SelfFirst
<1>3. CASE DropNode(h) \/ AppendNodes(h)
  <2>1. conn[h].pc \in {"drop", "append"} /\ KnownNodes' = conn[h].kept /\ cutOff' = cutOff
    BY <1>3 DEF DropNode, AppendNodes, notes
  <2>2. ~cutOff => Headed(KnownNodes')
    BY <2>1 DEF SelfFirst
  <2>3. PICK c : conn' = [conn EXCEPT ![h] = c] /\ c.pc \notin {"drop", "append"}
    <3>1. CASE DropNode(h)
      <4>1. conn' = [conn EXCEPT ![h] = Sending(conn[h].msg, Tail(conn[h].todo), conn[h].then)]
        BY <3>1 DEF DropNode, Sends
      <4>2. conn[h].then \in {"idle", "slice", "filter"}
        BY <3>1, SendingOn DEF DropNode, Requesting
      <4>3. Sending(conn[h].msg, Tail(conn[h].todo), conn[h].then).pc \notin {"drop", "append"}
        BY <4>2 DEF Sending, At, AtSend
      <4> QED BY <4>1, <4>3
    <3>2. CASE AppendNodes(h)
      <4>1. conn' = [conn EXCEPT ![h] = Sending(conn[h].msg, <<>>, "range")]
        BY <3>2 DEF AppendNodes, Goto, Sends
      <4>2. Sending(conn[h].msg, <<>>, "range").pc \notin {"drop", "append"}
        BY DEF Sending, At
      <4> QED BY <4>1, <4>2
    <3> QED BY <1>3, <3>1, <3>2
  <2> QED BY <2>1, <2>2, <2>3, FirstGoesOn
<1>4. CASE HandleAddr(h)
  <2> DEFINE kept == KnownNodes \o conn[h].msg.item
  <2>1. conn[h].msg.item \in Seq(Addresses) /\ KnownNodes \in Seq(Addresses)
    BY <1>4, ServingNow DEF HandleAddr, Requesting, Serves, NodeInv, StateTyped
  <2>2. /\ conn' = [conn EXCEPT ![h] = Made("append", conn[h], kept)]
        /\ KnownNodes' = KnownNodes /\ cutOff' = cutOff
    BY <1>4 DEF HandleAddr, shared, notes
  <2>3. Headed(KnownNodes) => Headed(kept)
    <3>1. /\ Len(kept) = Len(KnownNodes) + Len(conn[h].msg.item)
          /\ Len(KnownNodes) \in Nat /\ Len(conn[h].msg.item) \in Nat
      BY <2>1, ConcatProperties
    <3>2. ASSUME KnownNodes # <<>> PROVE kept # <<>> /\ kept[1] = KnownNodes[1]
      <4>1. Len(KnownNodes) # 0
        BY <2>1, <3>2, EmptySeq
      <4>2. Len(kept) # 0
        BY <3>1, <4>1
      <4>3. kept[1] = KnownNodes[1]
        BY <2>1, <3>1, <4>1, ConcatProperties
      <4> QED BY <4>2, <4>3, EmptySeq
    <3> QED BY <3>2 DEF Headed
  <2>4. Made("append", conn[h], kept).kept = kept
    BY DEF Made
  <2> HIDE DEF kept
  <2> QED BY <2>2, <2>3, <2>4, FirstGoesOn DEF SelfFirst
<1>5. CASE ~(Failing(h) \/ NotAvailable(h) \/ DropNode(h) \/ AppendNodes(h) \/ HandleAddr(h))
  <2>1. KnownNodes' = KnownNodes /\ cutOff' = cutOff
    BY <1>5 DEF Step, Failing, Send, RangeNodes, HandleGetDataTx, NextBlock, FirstBlock, Reindex,
                SliceTransit, AssignTransit, StoreBegins, StoreTx, IsFirst, Announce,
                HandleInvBlock, FilterTransit, HandleInvTx, shared, notes
  <2>2. PICK c : conn' = [conn EXCEPT ![h] = c] /\ c.pc \notin {"drop", "append"}
    <3>1. CASE \E m, todo, then :
                 /\ conn' = [conn EXCEPT ![h] = Sending(m, todo, then)]
                 /\ then \notin {"drop", "append"}
      <4>1. PICK m, todo, then :
              conn' = [conn EXCEPT ![h] = Sending(m, todo, then)] /\ then \notin {"drop", "append"}
        BY <3>1
      <4>2. Sending(m, todo, then).pc \notin {"drop", "append"}
        BY <4>1 DEF Sending, At, AtSend
      <4> QED BY <4>1, <4>2
    <3>2. CASE FilterTransit(h) \/ (SliceTransit(h) /\ ~Failing(h))
      BY <3>2 DEF FilterTransit, SliceTransit, Failing, Made
    <3>3. CASE Send(h)
      <4>1. conn[h].then \in {"idle", "slice", "filter"}
        BY <3>3, SendingOn DEF Send, Requesting
      <4>2. conn' = [conn EXCEPT ![h] = Sending(conn[h].msg, Tail(conn[h].todo), conn[h].then)]
        BY <3>3 DEF Send, Sends
      <4>3. Sending(conn[h].msg, Tail(conn[h].todo), conn[h].then).pc \notin {"drop", "append"}
        BY <4>1 DEF Sending, At, AtSend
      <4> QED BY <4>2, <4>3
    <3>4. CASE RangeNodes(h) \/ HandleGetDataTx(h) \/ HandleInvTx(h) \/ Announce(h) \/ HandleInvBlock(h)
      <4>1. \E todo, then : /\ conn' = [conn EXCEPT ![h] = Sending(conn[h].msg, todo, then)]
                            /\ then \in {"idle", "filter"}
        BY <3>4 DEF RangeNodes, HandleGetDataTx, HandleInvTx, Announce, HandleInvBlock, Sends
      <4> QED BY <3>1, <4>1
    <3>5. CASE \/ NextBlock(h) \/ Reindex(h) \/ AssignTransit(h) \/ StoreBegins(h) \/ StoreTx(h)
               \/ (IsFirst(h) \/ FirstBlock(h)) /\ ~Failing(h)
      <4>1. \E todo, then : /\ conn' = [conn EXCEPT ![h] = Sending(conn[h].msg, todo, then)]
                            /\ then \in {"idle", "first", "slice", "store", "head", "announce"}
        BY <3>5 DEF NextBlock, Reindex, AssignTransit, StoreBegins, StoreTx, IsFirst, FirstBlock,
                    Failing, Goto, Sends
      <4> QED BY <3>1, <4>1
    <3> QED BY <1>5, <3>2, <3>3, <3>4, <3>5 DEF Step, Failing
  <2> QED BY <2>1, <2>2, FirstGoesOn DEF SelfFirst
<1> QED BY <1>1, <1>2, <1>3, <1>4, <1>5

LEMMA FirstConnection ==
  ASSUME NodeInv, SelfFirst, status = "up", NEW m \in Own \cup Arriving, ~Panics(m), HandleConnection(m)
  PROVE  SelfFirst'
<1>1. PICK h \in Handlers :
        /\ conn' = [conn EXCEPT ![h] = Begin(m)]
        /\ UNCHANGED <<keys, status, cause, nodeAddress, shared, announced, starts, wanted, cutOff>>
  BY ConnectionBegins
<1>2. Begin(m).pc \notin {"drop", "append"}
  BY BeginIsOk
<1> QED BY <1>1, <1>2, FirstGoesOn DEF SelfFirst, shared

LEMMA FirstNext ==
  ASSUME NodeInv, SelfFirst, [Next]_vars
  PROVE  SelfFirst'
<1>1. CASE UNCHANGED vars
  BY <1>1 DEF vars, shared, notes, SelfFirst
<1>2. CASE AcceptOwn
  BY <1>2, OwnIsServed, FirstConnection
<1>3. CASE Accept
  <2>1. PICK m \in Arriving : IF Panics(m) THEN End("best height") ELSE HandleConnection(m)
    BY <1>3 DEF Accept
  <2>2. status = "up"
    BY <1>3 DEF Accept
  <2> QED BY <2>1, <2>2, FirstEnd, FirstConnection
<1>4. CASE CloseDB \/ ReadFails
  <2>1. \E why : End(why)
    BY <1>4 DEF CloseDB, ReadFails
  <2> QED BY <2>1, FirstEnd
<1>5. ASSUME NEW addr \in Addresses, StartServer(addr) PROVE SelfFirst'
  <2>1. End("best height") \/ UNCHANGED <<shared, conn, notes>>
    BY <1>5 DEF StartServer
  <2>2. CASE UNCHANGED <<shared, conn, notes>>
    BY <2>2 DEF shared, notes, SelfFirst
  <2> QED BY <2>1, <2>2, FirstEnd
<1> QED BY <1>1, <1>2, <1>3, <1>4, <1>5, FirstStep DEF Next

LEMMA SelfIsFirst == Spec => []SelfFirst
<1>1. Init => SelfFirst
  BY StartIsHeaded DEF Init, Memory, Idle, At, SelfFirst
<1>2. NodeInv /\ SelfFirst /\ [Next]_vars => SelfFirst'
  BY FirstNext
<1> QED BY <1>1, <1>2, NodeIsInOrder, PTL DEF Spec

(* A process that serves has itself at the head of KnownNodes, as long as  *)
(* it reaches itself.                                                      *)
THEOREM NodeIsFirst == Spec => []FirstIsSelf
<1>1. NodeInv /\ SelfFirst => FirstIsSelf
  BY DEF NodeInv, Running, SelfFirst, Headed, FirstIsSelf
<1> QED BY <1>1, NodeIsInOrder, SelfIsFirst, PTL

-----------------------------------------------------------------------------
(* The pool. *)

LEMMA SendingHere ==
  ASSUME NEW m, NEW todo, NEW then, NEW pool, NEW n, TodoHere(todo, pool, n), then # "getdata",
         then \notin Requesting, then \in {"head", "announce"} => m.item \in pool
  PROVE  PoolOk(Sending(m, todo, then), pool, n)
BY DEF PoolOk, Sending, At, AtSend, Requesting

(* A larger pool is as good. *)
LEMMA MoreIsHere ==
  ASSUME NEW c, NEW pool, NEW more, NEW n, pool \subseteq more, PoolOk(c, pool, n)
  PROVE  PoolOk(c, more, n)
BY DEF PoolOk, TodoHere, Here

LEMMA NoneToSend ==
  ASSUME NEW pool, NEW n
  PROVE  TodoHere(<<>>, pool, n)
BY DEF TodoHere

(* What asks for a block, or for a transaction, tells of none. *)
LEMMA AskingTellsNothing ==
  ASSUME NEW todo, NEW pool, NEW n,
         \A i \in DOMAIN todo :
           todo[i].msg.cmd \notin {"inv", "tx"} \/ (todo[i].msg.cmd = "inv" /\ todo[i].msg.type = "block")
  PROVE  TodoHere(todo, pool, n)
BY DEF TodoHere

LEMMA OneTodo ==
  ASSUME NEW r, NEW pool, NEW n,
         r.msg.cmd = "inv" /\ r.msg.type = "tx" => Here(r.msg.item[1], pool, n),
         r.msg.cmd = "tx" /\ r.msg.item = Empty => n > 1
  PROVE  TodoHere(<<r>>, pool, n)
BY DEF TodoHere

LEMMA LessTodo ==
  ASSUME NEW todo \in Seq(Requests), todo # <<>>, NEW pool, NEW n, TodoHere(todo, pool, n)
  PROVE  TodoHere(Tail(todo), pool, n)
<1>1. \A i \in DOMAIN Tail(todo) : i + 1 \in DOMAIN todo /\ Tail(todo)[i] = todo[i + 1]
  BY HeadTailProperties
<1> QED BY <1>1 DEF TodoHere

(* What a step that ends nothing has to keep. *)
LEMMA PoolGoesOn ==
  ASSUME NodeInv, PoolInv, NEW h \in Handlers, NEW c, status = "up",
         conn' = [conn EXCEPT ![h] = c], PoolOk(c, memoryPool', starts),
         memoryPool \subseteq memoryPool', UNCHANGED <<status, starts>>,
         \A a \in announced' : a \in announced \/ Here(a[2], memoryPool, starts)
  PROVE  PoolInv'
<1>1. starts # 0
  BY DEF PoolInv
<1>2. \A a \in announced' : Here(a[2], memoryPool', starts)
  BY DEF PoolInv, Here
<1>3. \A g \in Handlers : PoolOk(conn'[g], memoryPool', starts)
  <2>1. TAKE g \in Handlers
  <2>2. PoolOk(conn[g], memoryPool', starts)
    BY MoreIsHere DEF PoolInv
  <2> QED BY <2>2 DEF NodeInv, StateTyped
<1> QED BY <1>1, <1>2, <1>3 DEF PoolInv

LEMMA PoolEnd ==
  ASSUME PoolInv, NEW why, End(why), UNCHANGED starts
  PROVE  PoolInv'
<1>1. \A h \in Handlers : conn'[h].pc = "idle"
  BY DEF End, Idle, At
<1>2. \A h \in Handlers : PoolOk(conn'[h], memoryPool', starts')
  BY <1>1 DEF PoolOk, Requesting
<1> QED BY <1>2 DEF PoolInv, End

LEMMA PoolStart ==
  ASSUME NodeInv, PoolInv, NEW addr \in Addresses, StartServer(addr)
  PROVE  PoolInv'
<1>1. starts \in Nat /\ starts' = starts + 1 /\ (announced # {} => starts # 0)
  <2>1. starts \in 0..MaxStarts
    BY DEF NodeInv, NotesTyped
  <2>2. starts' = starts + 1
    BY DEF StartServer
  <2> QED BY <2>1, <2>2, Bounds DEF PoolInv
<1>2. status = "down" /\ \A h \in Handlers : conn[h].pc = "idle"
  <2>1. status = "down"
    BY DEF StartServer
  <2> QED BY <2>1 DEF NodeInv, DownIsEmpty, Memory, Idle, At
<1>3. announced' = announced /\ \A h \in Handlers : conn'[h].pc = "idle"
  <2>1. (conn' = conn \/ conn' = [h \in Handlers |-> Idle]) /\ announced' = announced
    BY DEF StartServer, End
  <2> QED BY <1>2, <2>1 DEF Idle, At
<1>4. \A h \in Handlers : PoolOk(conn'[h], memoryPool', starts')
  BY <1>3 DEF PoolOk, Requesting
<1>5. starts' # 0 /\ (announced' # {} => starts' > 1)
  BY <1>1, <1>3
<1>6. \A a \in announced' : Here(a[2], memoryPool', starts')
  BY <1>5 DEF Here
<1> QED BY <1>4, <1>5, <1>6 DEF PoolInv

LEMMA PoolConnection ==
  ASSUME NodeInv, PoolInv, status = "up", NEW m \in Own \cup Arriving, ~Panics(m), HandleConnection(m)
  PROVE  PoolInv'
<1>1. PICK h \in Handlers :
        /\ conn' = [conn EXCEPT ![h] = Begin(m)]
        /\ UNCHANGED <<keys, status, cause, nodeAddress, shared, announced, starts, wanted, cutOff>>
  BY ConnectionBegins
<1>2. /\ Begin(m).pc = "send" => Begin(m).todo \in Seq(OwnRequests)
      /\ Begin(m).pc \in {"idle", "send", "next", "addr", "inv", "getdata", "tx"}
      /\ Begin(m).pc = "getdata" => \E a \in announced : a[2] = Begin(m).msg.item
  BY BeginIsOk
<1>3. Begin(m).pc = "send" => TodoHere(Begin(m).todo, memoryPool, starts)
  <2>1. \A r \in OwnRequests :
          r.msg.cmd \notin {"inv", "tx"} \/ (r.msg.cmd = "inv" /\ r.msg.type = "block")
    BY DEF OwnRequests, Own, To, Msg
  <2> QED BY <1>2, <2>1, AskingTellsNothing
<1>4. PoolOk(Begin(m), memoryPool, starts)
  BY <1>2, <1>3 DEF PoolOk, PoolInv, Requesting
<1>5. memoryPool' = memoryPool
  BY <1>1 DEF shared
<1> QED BY <1>1, <1>4, <1>5, PoolGoesOn

LEMMA PoolSend ==
  ASSUME NodeInv, PoolInv, NEW h \in Handlers, Send(h) \/ NotAvailable(h) \/ DropNode(h)
  PROVE  PoolInv'
<1>1. conn[h].pc \in Requesting
  BY DEF Send, NotAvailable, DropNode, Requesting
<1> DEFINE todo == conn[h].todo
<1>2. /\ status = "up" /\ nodeAddress = Central /\ todo \in Seq(Requests) /\ todo # <<>>
      /\ conn[h].then \in {"idle", "slice", "filter"}
  BY <1>1, SendingOn
<1>3. TodoHere(todo, memoryPool, starts)
  BY <1>1 DEF PoolInv, PoolOk
<1>4. memoryPool' = memoryPool /\ UNCHANGED <<status, starts>>
  BY DEF Send, NotAvailable, DropNode, Process, shared, counts
<1>5. conn[h].then \notin Requesting \cup {"getdata", "head", "announce"}
  BY <1>2 DEF Requesting
<1>6. CASE Send(h) \/ DropNode(h)
  <2>1. conn' = [conn EXCEPT ![h] = Sending(conn[h].msg, Tail(todo), conn[h].then)]
    BY <1>6 DEF Send, DropNode, Sends
  <2>2. PoolOk(Sending(conn[h].msg, Tail(todo), conn[h].then), memoryPool, starts)
    BY <1>2, <1>3, <1>5, LessTodo, SendingHere
  <2>3. \A a \in announced' : a \in announced \/ Here(a[2], memoryPool, starts)
    <3> DEFINE r == Head(todo)
    <3>1. r = todo[1] /\ 1 \in DOMAIN todo
      BY <1>2, HeadTailProperties, EmptySeq
    <3>2. r.msg.cmd = "inv" /\ r.msg.type = "tx" => Here(r.msg.item[1], memoryPool, starts)
      BY <1>3, <3>1 DEF TodoHere
    <3>3. \/ announced' = announced
          \/ r.msg.cmd = "inv" /\ r.msg.type = "tx" /\ announced' = announced \cup {<<r.to, r.msg.item[1]>>}
      BY <1>6 DEF Send, DropNode, Wire
    <3>4. \A a \in announced : a \in announced \/ Here(a[2], memoryPool, starts)
      OBVIOUS
    <3> HIDE DEF r
    <3>5. CASE r.msg.cmd = "inv" /\ r.msg.type = "tx" /\ announced' = announced \cup {<<r.to, r.msg.item[1]>>}
      <4>1. <<r.to, r.msg.item[1]>>[2] = r.msg.item[1]
        OBVIOUS
      <4> QED BY <3>2, <3>5, <4>1
    <3> QED BY <3>3, <3>4, <3>5
  <2> QED BY <1>2, <1>4, <2>1, <2>2, <2>3, PoolGoesOn
<1>7. CASE NotAvailable(h)
  <2> DEFINE c == Made("drop", conn[h], Others(Head(todo).to))
  <2>1. conn' = [conn EXCEPT ![h] = c] /\ announced' = announced
    BY <1>7 DEF NotAvailable, Wire
  <2>2. PoolOk(c, memoryPool, starts)
    BY <1>3 DEF PoolOk, Made
  <2> HIDE DEF c
  <2> QED BY <1>2, <1>4, <2>1, <2>2, PoolGoesOn
<1> QED BY <1>6, <1>7

(* A step that tells of no transaction. *)
LEMMA PoolAside ==
  ASSUME NodeInv, PoolInv, NEW h \in Handlers,
         \/ RangeNodes(h) \/ AppendNodes(h) \/ NextBlock(h) \/ (FirstBlock(h) /\ blocksInTransit # <<>>)
         \/ Reindex(h) \/ HandleInvBlock(h) \/ AssignTransit(h) \/ StoreBegins(h) \/ HandleInvTx(h)
  PROVE  PoolInv'
<1>1. conn[h].pc \in {"range", "append", "next", "first", "inv", "assign", "tx"}
  BY DEF RangeNodes, AppendNodes, NextBlock, FirstBlock, Reindex, HandleInvBlock, AssignTransit,
         StoreBegins, HandleInvTx
<1>2. status = "up"
  BY <1>1, BusyIsUp
<1>3. memoryPool' = memoryPool /\ announced' = announced /\ UNCHANGED <<status, starts>>
  BY DEF RangeNodes, AppendNodes, NextBlock, FirstBlock, Reindex, HandleInvBlock, AssignTransit,
         StoreBegins, HandleInvTx, Process, Wire, shared, counts
<1>4. \E todo, then :
        /\ conn' = [conn EXCEPT ![h] = Sending(conn[h].msg, todo, then)]
        /\ then \in {"idle", "range", "first", "slice", "filter", "store"}
        /\ \A i \in DOMAIN todo : todo[i].msg.cmd \in {"getblocks", "getdata"}
  <2>1. CASE RangeNodes(h)
    <3>1. \A i \in DOMAIN RequestBlocks(KnownNodes) :
            RequestBlocks(KnownNodes)[i].msg.cmd = "getblocks"
      BY DEF RequestBlocks, GetBlocks, Msg, To
    <3>2. conn' = [conn EXCEPT ![h] = Sending(conn[h].msg, RequestBlocks(KnownNodes), "idle")]
      BY <2>1 DEF RangeNodes, Sends
    <3> QED BY <3>1, <3>2
  <2>2. CASE FirstBlock(h) /\ blocksInTransit # <<>>
    <3> DEFINE todo == <<To(conn[h].msg.from, GetData("block", blocksInTransit[1]))>>
    <3>1. \A i \in DOMAIN todo : todo[i].msg.cmd = "getdata"
      BY DEF GetData, Msg, To
    <3>2. conn' = [conn EXCEPT ![h] = Sending(conn[h].msg, todo, "slice")]
      BY <2>2 DEF FirstBlock, Sends
    <3> QED BY <3>1, <3>2
  <2>3. CASE HandleInvBlock(h)
    <3> DEFINE todo == <<To(conn[h].msg.from, GetData("block", conn[h].msg.item[1]))>>
    <3>1. \A i \in DOMAIN todo : todo[i].msg.cmd = "getdata"
      BY DEF GetData, Msg, To
    <3>2. conn' = [conn EXCEPT ![h] = Sending(conn[h].msg, todo, "filter")]
      BY <2>3 DEF HandleInvBlock, Sends
    <3> QED BY <3>1, <3>2
  <2>4. CASE HandleInvTx(h)
    <3> DEFINE todo == <<To(conn[h].msg.from, GetData("tx", conn[h].msg.item[1]))>>
    <3>1. \A i \in DOMAIN todo : todo[i].msg.cmd = "getdata"
      BY DEF GetData, Msg, To
    <3>2. \/ conn' = [conn EXCEPT ![h] = Sending(conn[h].msg, <<>>, "idle")]
          \/ conn' = [conn EXCEPT ![h] = Sending(conn[h].msg, todo, "idle")]
      BY <2>4 DEF HandleInvTx, Sends
    <3>3. \A i \in DOMAIN <<>> : <<>>[i].msg.cmd \in {"getblocks", "getdata"}
      OBVIOUS
    <3>4. \A i \in DOMAIN todo : todo[i].msg.cmd \in {"getblocks", "getdata"}
      BY <3>1
    <3> HIDE DEF todo
    <3>5. CASE conn' = [conn EXCEPT ![h] = Sending(conn[h].msg, <<>>, "idle")]
      <4>1. PICK none : none = <<>>
        OBVIOUS
      <4> QED BY <3>3, <3>5, <4>1
    <3>6. CASE conn' = [conn EXCEPT ![h] = Sending(conn[h].msg, todo, "idle")]
      BY <3>4, <3>6
    <3> QED BY <3>2, <3>5, <3>6
  <2>5. CASE AppendNodes(h) \/ NextBlock(h) \/ Reindex(h) \/ AssignTransit(h) \/ StoreBegins(h)
    <3>1. \E then \in {"idle", "range", "first", "store"} :
            conn' = [conn EXCEPT ![h] = Sending(conn[h].msg, <<>>, then)]
      BY <2>5 DEF AppendNodes, NextBlock, Reindex, AssignTransit, StoreBegins, Goto, Sends
    <3>2. \A i \in DOMAIN <<>> : <<>>[i].msg.cmd \in {"getblocks", "getdata"}
      OBVIOUS
    <3> QED BY <3>1, <3>2
  <2> QED BY <2>1, <2>2, <2>3, <2>4, <2>5
<1>5. PICK todo, then :
        /\ conn' = [conn EXCEPT ![h] = Sending(conn[h].msg, todo, then)]
        /\ then \in {"idle", "range", "first", "slice", "filter", "store"}
        /\ \A i \in DOMAIN todo : todo[i].msg.cmd \in {"getblocks", "getdata"}
  BY <1>4
<1>6. PoolOk(Sending(conn[h].msg, todo, then), memoryPool, starts)
  <2>1. TodoHere(todo, memoryPool, starts)
    BY <1>5, AskingTellsNothing
  <2> QED BY <1>5, <2>1, SendingHere DEF Requesting
<1> QED BY <1>2, <1>3, <1>5, <1>6, PoolGoesOn

(* A step that makes a list. *)
LEMMA PoolMade ==
  ASSUME NodeInv, PoolInv, NEW h \in Handlers,
         HandleAddr(h) \/ FilterTransit(h) \/ (SliceTransit(h) /\ blocksInTransit # <<>>)
  PROVE  PoolInv'
<1>1. conn[h].pc \in {"addr", "filter", "slice"}
  BY DEF HandleAddr, FilterTransit, SliceTransit
<1>2. status = "up"
  BY <1>1, BusyIsUp
<1>3. memoryPool' = memoryPool /\ announced' = announced /\ UNCHANGED <<status, starts>>
  BY DEF HandleAddr, FilterTransit, SliceTransit, Process, Wire, shared, counts
<1>4. PICK pc, kept : /\ pc \in {"append", "assign"}
                      /\ conn' = [conn EXCEPT ![h] = Made(pc, conn[h], kept)]
  BY DEF HandleAddr, FilterTransit, SliceTransit
<1>5. PoolOk(Made(pc, conn[h], kept), memoryPool, starts)
  BY <1>4 DEF PoolOk, Made, Requesting
<1> QED BY <1>2, <1>3, <1>4, <1>5, PoolGoesOn

(* An answer without a transaction is one to a question of an earlier      *)
(* process; what is announced was stored before.                           *)
LEMMA PoolTx ==
  ASSUME NodeInv, PoolInv, NEW h \in Handlers,
         \/ HandleGetDataTx(h) \/ StoreTx(h) \/ Announce(h)
         \/ IsFirst(h) /\ KnownNodes # <<>>
  PROVE  PoolInv'
<1> DEFINE m == conn[h].msg
<1>1. conn[h].pc \in {"getdata", "store", "head", "announce"}
  BY DEF HandleGetDataTx, StoreTx, IsFirst, Announce
<1>2. conn[h].pc \notin Requesting \cup {"idle"}
  BY <1>1 DEF Requesting
<1>3. status = "up" /\ nodeAddress = Central /\ Serves(conn[h].pc, m)
  BY <1>2, ServingNow
<1>4. m.item \in Txs
  BY <1>1, <1>3 DEF Serves
<1>5. announced' = announced /\ UNCHANGED <<status, starts>> /\ memoryPool \subseteq memoryPool'
  BY DEF HandleGetDataTx, StoreTx, IsFirst, Announce, Process, Wire, shared, counts
<1>6. CASE HandleGetDataTx(h)
  <2> DEFINE r == To(m.from, Tx(IF m.item \in memoryPool THEN m.item ELSE Empty))
  <2>1. conn' = [conn EXCEPT ![h] = Sending(m, <<r>>, "idle")] /\ memoryPool' = memoryPool
    BY <1>6 DEF HandleGetDataTx, Sends, shared
  <2>2. Here(m.item, memoryPool, starts)
    BY <1>6 DEF HandleGetDataTx, PoolInv, PoolOk
  <2>3. r.msg.cmd = "tx" /\ (r.msg.item = Empty => m.item \notin memoryPool)
    <3>1. m.item # Empty
      BY <1>4, NodeAssumption
    <3> QED BY <3>1 DEF Tx, Msg, To
  <2> HIDE DEF r
  <2>4. TodoHere(<<r>>, memoryPool, starts)
    BY <2>2, <2>3, OneTodo DEF Here
  <2>5. PoolOk(Sending(m, <<r>>, "idle"), memoryPool, starts)
    BY <2>4, SendingHere DEF Requesting
  <2> QED BY <1>3, <1>5, <2>1, <2>5, PoolGoesOn
<1>7. CASE StoreTx(h) \/ (IsFirst(h) /\ KnownNodes # <<>>)
  <2>1. m.item \in memoryPool'
    BY <1>7 DEF StoreTx, IsFirst, PoolInv, PoolOk, shared
  <2>2. PICK then \in {"head", "announce", "idle"} : conn' = [conn EXCEPT ![h] = Sending(m, <<>>, then)]
    BY <1>7 DEF StoreTx, IsFirst, Goto, Sends
  <2>3. PoolOk(Sending(m, <<>>, then), memoryPool', starts)
    BY <2>1, NoneToSend, SendingHere DEF Requesting
  <2> QED BY <1>3, <1>5, <2>2, <2>3, PoolGoesOn
<1>8. CASE Announce(h)
  <2>1. conn' = [conn EXCEPT ![h] = Sending(m, Announcement(m), "idle")] /\ m.item \in memoryPool'
    BY <1>8 DEF Announce, Sends, PoolInv, PoolOk, shared
  <2>2. Announcement(m) \in Seq({To(p, Msg("inv", Central, "tx", <<m.item>>)) : p \in Peers})
    BY <1>3, <1>4, AnnounceTells
  <2>3. \A i \in DOMAIN Announcement(m) : Announcement(m)[i].msg = Msg("inv", Central, "tx", <<m.item>>)
    <3>1. \A r \in {To(p, Msg("inv", Central, "tx", <<m.item>>)) : p \in Peers} :
            r.msg = Msg("inv", Central, "tx", <<m.item>>)
      BY DEF To
    <3> QED BY <2>2, <3>1
  <2>4. TodoHere(Announcement(m), memoryPool', starts)
    BY <2>1, <2>3 DEF TodoHere, Here, Msg
  <2>5. PoolOk(Sending(m, Announcement(m), "idle"), memoryPool', starts)
    BY <2>4, SendingHere DEF Requesting
  <2> QED BY <1>3, <1>5, <2>1, <2>5, PoolGoesOn
<1> QED BY <1>6, <1>7, <1>8

LEMMA PoolNext ==
  ASSUME NodeInv, PoolInv, [Next]_vars
  PROVE  PoolInv'
<1>1. CASE UNCHANGED vars
  BY <1>1 DEF vars, shared, counts, PoolInv
<1>2. CASE AcceptOwn
  BY <1>2, OwnIsServed, PoolConnection
<1>3. CASE Accept
  <2>1. PICK m \in Arriving :
          IF Panics(m) THEN End("best height") /\ UNCHANGED starts
          ELSE HandleConnection(m)
    BY <1>3 DEF Accept
  <2>2. status = "up"
    BY <1>3 DEF Accept
  <2> QED BY <2>1, <2>2, PoolEnd, PoolConnection
<1>4. CASE CloseDB \/ ReadFails
  <2>1. \E why : End(why) /\ UNCHANGED starts
    BY <1>4 DEF CloseDB, ReadFails, counts
  <2> QED BY <2>1, PoolEnd
<1>5. ASSUME NEW h \in Handlers, Failing(h) PROVE PoolInv'
  <2>1. \E why : End(why) /\ UNCHANGED starts
    BY <1>5, FailingEnds DEF counts
  <2> QED BY <2>1, PoolEnd
<1>6. ASSUME NEW h \in Handlers, Step(h) PROVE PoolInv'
  BY <1>5, <1>6, PoolSend, PoolAside, PoolMade, PoolTx DEF Step, Failing
<1> QED BY <1>1, <1>2, <1>3, <1>4, <1>6, PoolStart DEF Next

(* A transaction announced to a peer is there when the peer asks for it,   *)
(* unless the process was restarted in between.                            *)
THEOREM AnnouncedIsThere == Spec => []EmptyOnlyAfterRestart
<1>1. Init => PoolInv
  BY DEF Init, Memory, Idle, At, PoolInv, PoolOk, Requesting
<1>2. NodeInv /\ PoolInv /\ [Next]_vars => PoolInv'
  BY PoolNext
<1>3. NodeInv /\ PoolInv => EmptyOnlyAfterRestart
  <2> SUFFICES ASSUME NodeInv, PoolInv, NEW h \in Handlers, NEW i \in DOMAIN conn[h].todo,
                      conn[h].todo[i].msg = Tx(Empty)
               PROVE  starts > 1
    BY DEF EmptyOnlyAfterRestart
  <2>1. conn[h].pc \in Requesting
    BY DEF NodeInv, StateTyped, ConnOk
  <2>2. TodoHere(conn[h].todo, memoryPool, starts)
    BY <2>1 DEF PoolInv, PoolOk
  <2> QED BY <2>2 DEF TodoHere, Tx, Msg
<1> QED BY <1>1, <1>2, <1>3, NodeIsInOrder, PTL DEF Spec

-----------------------------------------------------------------------------
(* The blocks in transit. *)

LEMMA PendingMade ==
  ASSUME NEW pc, NEW c, NEW kept
  PROVE  /\ pc = "drop" => Pending(Made(pc, c, kept)) = c.then
         /\ pc \notin Requesting => Pending(Made(pc, c, kept)) = pc
         /\ Made(pc, c, kept).msg = c.msg /\ Made(pc, c, kept).kept = kept
BY DEF Pending, Made, Requesting

LEMMA PendingOf ==
  ASSUME NEW m, NEW todo, NEW then, then \notin Requesting
  PROVE  /\ Pending(Sending(m, todo, then)) = then
         /\ then # "idle" => Sending(m, todo, then).msg = m
BY DEF Pending, Sending, At, AtSend, Requesting

(* Without the head, the rest of a list that holds nothing twice is left. *)
LEMMA RestOfList ==
  ASSUME NEW S, NEW s \in Seq(S), s # <<>>, IsInjective(s)
  PROVE  ToSet(Tail(s)) = ToSet(s) \ {s[1]} /\ IsInjective(Tail(s))
<1>1. /\ Len(s) \in Nat \ {0} /\ DOMAIN s = 1..Len(s)
      /\ DOMAIN Tail(s) = 1..(Len(s) - 1)
      /\ \A i \in 1..(Len(s) - 1) : Tail(s)[i] = s[i + 1]
  <2>1. Len(s) \in Nat \ {0} /\ DOMAIN s = 1..Len(s)
    BY EmptySeq
  <2>2. /\ Tail(s) \in Seq(S) /\ Len(Tail(s)) = Len(s) - 1
        /\ \A i \in 1..Len(Tail(s)) : Tail(s)[i] = s[i + 1]
    BY HeadTailProperties
  <2> QED BY <2>1, <2>2
<1>2. \A i, j \in 1..Len(s) : s[i] = s[j] => i = j
  BY <1>1 DEF IsInjective
<1>3. IsInjective(Tail(s))
  <2> SUFFICES ASSUME NEW i \in 1..(Len(s) - 1), NEW j \in 1..(Len(s) - 1), Tail(s)[i] = Tail(s)[j]
               PROVE  i = j
    BY <1>1 DEF IsInjective
  <2>1. i + 1 \in 1..Len(s) /\ j + 1 \in 1..Len(s)
    BY <1>1
  <2>2. s[i + 1] = s[j + 1]
    BY <1>1
  <2>3. i + 1 = j + 1
    BY <1>2, <2>1, <2>2
  <2> QED BY <2>3
<1>4. ASSUME NEW x \in ToSet(Tail(s)) PROVE x \in ToSet(s) \ {s[1]}
  <2>1. PICK i \in 1..(Len(s) - 1) : x = s[i + 1]
    BY <1>1, <1>4 DEF ToSet
  <2>2. i + 1 \in 1..Len(s) /\ 1 \in 1..Len(s) /\ i + 1 # 1
    BY <1>1
  <2> QED BY <1>1, <1>2, <2>1, <2>2 DEF ToSet
<1>5. ASSUME NEW x \in ToSet(s) \ {s[1]} PROVE x \in ToSet(Tail(s))
  <2>1. PICK j \in 1..Len(s) : x = s[j]
    BY <1>1, <1>5 DEF ToSet
  <2>2. j # 1
    BY <1>5, <2>1
  <2>3. j - 1 \in 1..(Len(s) - 1) /\ (j - 1) + 1 = j
    BY <1>1, <2>2
  <2>4. x = Tail(s)[j - 1]
    BY <1>1, <2>1, <2>3
  <2> QED BY <1>1, <2>3, <2>4 DEF ToSet
<1> QED BY <1>3, <1>4, <1>5

LEMMA RestIsSteady ==
  ASSUME NEW S, NEW s \in Seq(S), NEW rest, Asked(s, rest)
  PROVE  Steady(Tail(s), rest)
BY RestOfList DEF Asked, Steady

(* The one goroutine that is under way goes on. *)
LEMMA AloneGoesOn ==
  ASSUME NodeInv, InOrder, NEW h \in Handlers, conn[h].pc # "idle", NEW c,
         conn' = [conn EXCEPT ![h] = c], overlapped' = overlapped,
         ~overlapped /\ Transit(conn[h], blocksInTransit, wanted) => Transit(c, blocksInTransit', wanted')
  PROVE  InOrder'
<1> SUFFICES ASSUME ~overlapped
             PROVE  /\ \A f, g \in Busy' : f = g
                    /\ Busy' = {} => Steady(blocksInTransit', wanted')
                    /\ \A g \in Busy' : Transit(conn'[g], blocksInTransit', wanted')
  BY DEF InOrder
<1>1. h \in Busy /\ \A g \in Busy : g = h
  BY DEF Busy, InOrder
<1>2. Transit(c, blocksInTransit', wanted')
  BY <1>1 DEF InOrder
<1>3. conn'[h] = c /\ \A g \in Handlers \ {h} : conn'[g] = conn[g]
  BY DEF NodeInv, StateTyped
<1>4. \A g \in Busy' : g = h
  BY <1>1, <1>3 DEF Busy
<1>5. Busy' = {} => c.pc = "idle"
  BY <1>3 DEF Busy
<1>6. c.pc = "idle" => Steady(blocksInTransit', wanted')
  BY <1>2 DEF Transit, Pending, Requesting
<1> QED BY <1>2, <1>3, <1>4, <1>5, <1>6

(* The steps that leave the list of blocks in transit alone. *)
LEMMA OrderAside ==
  ASSUME NodeInv, InOrder, NEW h \in Handlers,
         \/ Send(h) \/ NotAvailable(h) \/ DropNode(h) \/ HandleAddr(h) \/ AppendNodes(h) \/ RangeNodes(h)
         \/ HandleGetDataTx(h) \/ Reindex(h) \/ NextBlock(h) \/ StoreBegins(h) \/ StoreTx(h) \/ Announce(h)
         \/ HandleInvTx(h) \/ (IsFirst(h) /\ KnownNodes # <<>>)
  PROVE  InOrder'
<1>1. UNCHANGED <<blocksInTransit, wanted, overlapped>>
  BY DEF Send, NotAvailable, DropNode, HandleAddr, AppendNodes, RangeNodes, HandleGetDataTx, Reindex,
         NextBlock, StoreBegins, StoreTx, Announce, HandleInvTx, IsFirst, shared, notes
<1>2. CASE Send(h) \/ NotAvailable(h) \/ DropNode(h)
  <2>1. conn[h].pc \in Requesting /\ conn[h].pc # "idle"
    BY <1>2 DEF Send, NotAvailable, DropNode, Requesting
  <2>2. conn[h].then \notin Requesting
    BY <2>1, SendingOn DEF Requesting
  <2>3. \E c : /\ conn' = [conn EXCEPT ![h] = c] /\ Pending(c) = conn[h].then
               /\ conn[h].then # "idle" => c.msg = conn[h].msg
    <3>1. CASE Send(h) \/ DropNode(h)
      <4> DEFINE c == Sending(conn[h].msg, Tail(conn[h].todo), conn[h].then)
      <4>1. conn' = [conn EXCEPT ![h] = c]
        BY <3>1 DEF Send, DropNode, Sends
      <4>2. Pending(c) = conn[h].then /\ (conn[h].then # "idle" => c.msg = conn[h].msg)
        BY <2>2, PendingOf
      <4> HIDE DEF c
      <4> QED BY <4>1, <4>2
    <3>2. CASE NotAvailable(h)
      <4> DEFINE c == Made("drop", conn[h], Others(Head(conn[h].todo).to))
      <4>1. conn' = [conn EXCEPT ![h] = c]
        BY <3>2 DEF NotAvailable
      <4>2. Pending(c) = conn[h].then /\ c.msg = conn[h].msg
        BY PendingMade
      <4> QED BY <4>1, <4>2
    <3> QED BY <1>2, <3>1, <3>2
  <2>4. PICK c : /\ conn' = [conn EXCEPT ![h] = c] /\ Pending(c) = conn[h].then
                 /\ conn[h].then # "idle" => c.msg = conn[h].msg
    BY <2>3
  <2>5. Pending(conn[h]) = conn[h].then
    BY <2>1 DEF Pending
  <2>6. Transit(conn[h], blocksInTransit, wanted) => Transit(c, blocksInTransit', wanted')
    <3>1. conn[h].then \in {"idle", "slice", "filter"}
      BY <2>1, SendingOn
    <3> QED BY <1>1, <2>4, <2>5, <3>1 DEF Transit
  <2> QED BY <1>1, <2>1, <2>4, <2>6, AloneGoesOn
<1>3. CASE \/ AppendNodes(h) \/ RangeNodes(h) \/ HandleGetDataTx(h) \/ Reindex(h) \/ NextBlock(h)
           \/ StoreBegins(h) \/ StoreTx(h) \/ Announce(h) \/ HandleInvTx(h)
           \/ IsFirst(h) /\ KnownNodes # <<>>
  <2>1. conn[h].pc \in {"append", "range", "getdata", "next", "tx", "store", "head", "announce", "inv"}
    BY <1>3 DEF AppendNodes, RangeNodes, HandleGetDataTx, Reindex, NextBlock, StoreBegins, StoreTx,
                Announce, HandleInvTx, IsFirst
  <2>2. \E todo, then : /\ conn' = [conn EXCEPT ![h] = Sending(conn[h].msg, todo, then)]
                        /\ then \in {"idle", "range", "first", "store", "head", "announce"}
                        /\ then = "first" => blocksInTransit # <<>>
    BY <1>3 DEF AppendNodes, RangeNodes, HandleGetDataTx, Reindex, NextBlock, StoreBegins, StoreTx,
                Announce, HandleInvTx, IsFirst, Goto, Sends
  <2>3. PICK todo, then : /\ conn' = [conn EXCEPT ![h] = Sending(conn[h].msg, todo, then)]
                          /\ then \in {"idle", "range", "first", "store", "head", "announce"}
                          /\ then = "first" => blocksInTransit # <<>>
    BY <2>2
  <2>4. Pending(Sending(conn[h].msg, todo, then)) = then
    BY <2>3, PendingOf DEF Requesting
  <2>5. Pending(conn[h]) = conn[h].pc
    BY <2>1 DEF Pending, Requesting
  <2>6. Transit(conn[h], blocksInTransit, wanted) =>
          Transit(Sending(conn[h].msg, todo, then), blocksInTransit', wanted')
    BY <1>1, <2>1, <2>3, <2>4, <2>5 DEF Transit
  <2> QED BY <1>1, <2>1, <2>3, <2>6, AloneGoesOn
<1>4. CASE HandleAddr(h)
  <2> DEFINE c == Made("append", conn[h], KnownNodes \o conn[h].msg.item)
  <2>1. conn[h].pc = "addr" /\ conn' = [conn EXCEPT ![h] = c]
    BY <1>4 DEF HandleAddr
  <2>2. Pending(c) = "append" /\ Pending(conn[h]) = "addr"
    BY <2>1, PendingMade DEF Pending, Requesting
  <2> HIDE DEF c
  <2>3. Transit(conn[h], blocksInTransit, wanted) => Transit(c, blocksInTransit', wanted')
    BY <1>1, <2>2 DEF Transit
  <2> QED BY <1>1, <2>1, <2>3, AloneGoesOn
<1> QED BY <1>2, <1>3, <1>4

(* A block is asked for, *)
LEMMA OrderAsk ==
  ASSUME NodeInv, InOrder, NEW h \in Handlers,
         (FirstBlock(h) /\ blocksInTransit # <<>>) \/ HandleInvBlock(h)
  PROVE  InOrder'
<1>1. overlapped' = overlapped
  BY DEF FirstBlock, HandleInvBlock
<1>2. CASE FirstBlock(h) /\ blocksInTransit # <<>>
  <2> DEFINE todo == <<To(conn[h].msg.from, GetData("block", blocksInTransit[1]))>>
  <2>1. /\ conn[h].pc = "first" /\ blocksInTransit # <<>> /\ blocksInTransit \in Seq(Hashes)
        /\ conn' = [conn EXCEPT ![h] = Sending(conn[h].msg, todo, "slice")]
        /\ wanted' = wanted \ {blocksInTransit[1]} /\ blocksInTransit' = blocksInTransit
    BY <1>2 DEF FirstBlock, Sends, shared, NodeInv, StateTyped
  <2> HIDE DEF todo
  <2>2. Pending(conn[h]) = "first" /\ Pending(Sending(conn[h].msg, todo, "slice")) = "slice"
    <3>1. "slice" \notin Requesting /\ "first" \notin Requesting
      BY DEF Requesting
    <3> QED BY <2>1, <3>1, PendingOf DEF Pending
  <2>3. Steady(blocksInTransit, wanted) => Asked(blocksInTransit', wanted')
    BY <2>1, RestOfList DEF Steady, Asked
  <2>4. Transit(conn[h], blocksInTransit, wanted) =>
          Transit(Sending(conn[h].msg, todo, "slice"), blocksInTransit', wanted')
    BY <2>2, <2>3 DEF Transit
  <2> QED BY <1>1, <2>1, <2>4, AloneGoesOn
<1>3. CASE HandleInvBlock(h)
  <2> DEFINE items == conn[h].msg.item
             todo  == <<To(conn[h].msg.from, GetData("block", items[1]))>>
  <2>1. /\ conn[h].pc = "inv" /\ conn[h].msg.type = "block"
        /\ conn' = [conn EXCEPT ![h] = Sending(conn[h].msg, todo, "filter")]
        /\ wanted' = ToSet(Tail(items)) /\ blocksInTransit' = items
    BY <1>3 DEF HandleInvBlock, Sends
  <2>2. Inventory(items)
    BY <2>1, ServingNow DEF Requesting, Serves
  <2> HIDE DEF todo
  <2>3. /\ Pending(Sending(conn[h].msg, todo, "filter")) = "filter"
        /\ Sending(conn[h].msg, todo, "filter").msg = conn[h].msg
    BY PendingOf DEF Requesting
  <2>4. Transit(Sending(conn[h].msg, todo, "filter"), blocksInTransit', wanted')
    BY <2>1, <2>2, <2>3 DEF Transit, Asked, Inventory
  <2> QED BY <1>1, <2>1, <2>4, AloneGoesOn
<1> QED BY <1>2, <1>3

(* and is not in transit any more, once the list without it is made and    *)
(* assigned.                                                               *)
LEMMA OrderTakeOut ==
  ASSUME NodeInv, InOrder, NEW h \in Handlers,
         \/ FilterTransit(h) \/ AssignTransit(h)
         \/ SliceTransit(h) /\ blocksInTransit # <<>>
  PROVE  InOrder'
<1>1. UNCHANGED <<wanted, overlapped>>
  BY DEF FilterTransit, AssignTransit, SliceTransit, notes
<1>2. CASE FilterTransit(h) \/ (SliceTransit(h) /\ blocksInTransit # <<>>)
  <2>1. PICK kept :
          /\ conn' = [conn EXCEPT ![h] = Made("assign", conn[h], kept)]
          /\ \/ conn[h].pc = "filter" /\ kept = AllBut(blocksInTransit, conn[h].msg.item[1])
             \/ conn[h].pc = "slice" /\ kept = Tail(blocksInTransit)
    BY <1>2 DEF FilterTransit, SliceTransit
  <2>2. Pending(conn[h]) = conn[h].pc /\ conn[h].pc \in {"filter", "slice"}
    BY <2>1 DEF Pending, Requesting
  <2>3. /\ Pending(Made("assign", conn[h], kept)) = "assign"
        /\ Made("assign", conn[h], kept).kept = kept
    BY PendingMade DEF Requesting
  <2>4. ASSUME Transit(conn[h], blocksInTransit, wanted)
        PROVE  Transit(Made("assign", conn[h], kept), blocksInTransit', wanted')
    <3>1. /\ Asked(blocksInTransit, wanted) /\ blocksInTransit \in Seq(Hashes)
          /\ conn[h].pc = "filter" => conn[h].msg.item = blocksInTransit
      BY <2>2, <2>4 DEF Transit, NodeInv, StateTyped
    <3>2. AllBut(blocksInTransit, blocksInTransit[1]) = Tail(blocksInTransit)
      BY <3>1, AllButHead DEF Asked
    <3>3. kept = Tail(blocksInTransit)
      BY <2>1, <3>1, <3>2
    <3>4. Steady(kept, wanted')
      BY <1>1, <3>1, <3>3, RestIsSteady
    <3> QED BY <2>3, <3>4 DEF Transit
  <2>5. conn[h].pc # "idle"
    BY <2>2
  <2> QED BY <1>1, <2>1, <2>4, <2>5, AloneGoesOn
<1>3. CASE AssignTransit(h)
  <2>1. /\ conn[h].pc = "assign" /\ blocksInTransit' = conn[h].kept
        /\ conn' = [conn EXCEPT ![h] = Sending(conn[h].msg, <<>>, "idle")]
    BY <1>3 DEF AssignTransit, Goto, Sends
  <2>2. Pending(conn[h]) = "assign" /\ Pending(Sending(conn[h].msg, <<>>, "idle")) = "idle"
    <3>1. "idle" \notin Requesting /\ "assign" \notin Requesting
      BY DEF Requesting
    <3> QED BY <2>1, <3>1, PendingOf DEF Pending
  <2>3. Transit(conn[h], blocksInTransit, wanted) =>
          Transit(Sending(conn[h].msg, <<>>, "idle"), blocksInTransit', wanted')
    BY <1>1, <2>1, <2>2 DEF Transit
  <2> QED BY <1>1, <2>1, <2>3, AloneGoesOn
<1> QED BY <1>2, <1>3

LEMMA OrderConnection ==
  ASSUME NodeInv, InOrder, status = "up", NEW m \in Own \cup Arriving, ~Panics(m), HandleConnection(m)
  PROVE  InOrder'
<1>1. PICK h \in Handlers :
        /\ conn' = [conn EXCEPT ![h] = Begin(m)]
        /\ UNCHANGED <<keys, status, cause, nodeAddress, shared, announced, starts, wanted, cutOff>>
        /\ overlapped' = (overlapped \/ Busy # {})
  BY ConnectionBegins
<1> SUFFICES ASSUME ~overlapped, Busy = {}
             PROVE  /\ \A f, g \in Busy' : f = g
                    /\ Busy' = {} => Steady(blocksInTransit', wanted')
                    /\ \A g \in Busy' : Transit(conn'[g], blocksInTransit', wanted')
  BY <1>1 DEF InOrder
<1>2. Steady(blocksInTransit', wanted')
  BY <1>1 DEF InOrder, shared
<1>3. conn'[h] = Begin(m) /\ \A g \in Busy' : g = h
  BY <1>1 DEF Busy, NodeInv, StateTyped
<1>4. Pending(Begin(m)) \notin {"filter", "slice", "first", "assign"}
  BY BeginIsOk DEF Pending, Requesting
<1> QED BY <1>2, <1>3, <1>4 DEF Transit

LEMMA OrderEnd ==
  ASSUME NEW why, End(why)
  PROVE  InOrder'
<1>1. \A h \in Handlers : conn'[h].pc = "idle"
  BY DEF End, Idle, At
<1>2. Steady(<<>>, {})
  BY EmptySeq DEF Steady, ToSet, IsInjective
<1> QED BY <1>1, <1>2 DEF End, InOrder, Busy

LEMMA OrderNext ==
  ASSUME NodeInv, InOrder, [Next]_vars
  PROVE  InOrder'
<1>1. CASE UNCHANGED vars
  BY <1>1 DEF vars, shared, notes, InOrder, Busy
<1>2. CASE AcceptOwn
  BY <1>2, OwnIsServed, OrderConnection
<1>3. CASE Accept
  <2>1. PICK m \in Arriving : IF Panics(m) THEN End("best height") ELSE HandleConnection(m)
    BY <1>3 DEF Accept
  <2>2. status = "up"
    BY <1>3 DEF Accept
  <2> QED BY <2>1, <2>2, OrderEnd, OrderConnection
<1>4. CASE CloseDB \/ ReadFails
  <2>1. \E why : End(why)
    BY <1>4 DEF CloseDB, ReadFails
  <2> QED BY <2>1, OrderEnd
<1>5. ASSUME NEW addr \in Addresses, StartServer(addr) PROVE InOrder'
  <2>1. End("best height") \/ UNCHANGED <<shared, conn, notes>>
    BY <1>5 DEF StartServer
  <2>2. CASE End("best height")
    BY <2>2, OrderEnd
  <2>3. CASE UNCHANGED <<shared, conn, notes>>
    BY <2>3 DEF shared, notes, InOrder, Busy
  <2> QED BY <2>1, <2>2, <2>3
<1>6. ASSUME NEW h \in Handlers, Failing(h) PROVE InOrder'
  <2>1. \E why : End(why)
    BY <1>6, FailingEnds
  <2> QED BY <2>1, OrderEnd
<1>7. ASSUME NEW h \in Handlers, Step(h) PROVE InOrder'
  BY <1>6, <1>7, OrderAside, OrderAsk, OrderTakeOut DEF Step, Failing
<1> QED BY <1>1, <1>2, <1>3, <1>4, <1>5, <1>7 DEF Next

LEMMA ListsInOrder == Spec => [](NodeInv /\ InOrder)
<1>1. Init => InOrder
  <2> SUFFICES ASSUME Init PROVE InOrder
    OBVIOUS
  <2>1. \A h \in Handlers : conn[h].pc = "idle"
    BY DEF Init, Memory, Idle, At
  <2>2. Steady(<<>>, {})
    BY EmptySeq DEF Steady, ToSet, IsInjective
  <2> QED BY <2>1, <2>2 DEF Init, Memory, InOrder, Busy
<1>2. NodeInv /\ InOrder /\ [Next]_vars => InOrder'
  BY OrderNext
<1> QED BY <1>1, <1>2, NodeIsInOrder, PTL DEF Spec

(* A list that holds nothing twice is as long as what it holds is large. *)
LEMMA LengthOfSet ==
  ASSUME NEW S, NEW s \in Seq(S), IsInjective(s)
  PROVE  Len(s) = Cardinality(ToSet(s))
<1>1. Len(s) \in Nat /\ DOMAIN s = 1..Len(s)
  OBVIOUS
<1>2. s \in Bijection(1..Len(s), ToSet(s))
  BY <1>1 DEF Bijection, Injection, Surjection, IsInjective, ToSet
<1>3. ExistsBijection(1..Len(s), ToSet(s))
  BY <1>2 DEF ExistsBijection
<1> QED BY <1>1, <1>3, FS_CountingElements

(* Between connections served one after the other, the blocks in transit   *)
(* are the ones announced last and not asked for yet, each once.           *)
THEOREM TransitIsWanted == Spec => []InTransitIsWanted
<1>1. NodeInv /\ InOrder => InTransitIsWanted
  <2> SUFFICES ASSUME NodeInv, InOrder, ~overlapped, Busy = {}
               PROVE  /\ ToSet(blocksInTransit) = wanted
                      /\ Len(blocksInTransit) = Cardinality(wanted)
    BY DEF InTransitIsWanted
  <2>1. Steady(blocksInTransit, wanted) /\ blocksInTransit \in Seq(Hashes)
    BY DEF InOrder, NodeInv, StateTyped
  <2> QED BY <2>1, LengthOfSet DEF Steady
<1> QED BY <1>1, ListsInOrder, PTL

(* Only handlers under way at once make the node index past a list or trip *)
(* over its own map, unless it dropped itself.                             *)
THEOREM OneByOneNoPanic == Spec => NoRaceNoPanic
<1>1. ASSUME NodeInv, InOrder, SelfFirst, [Next]_vars,
             status = "up", status' = "down", cause' \in {"index", "map"}
      PROVE  overlapped \/ cutOff
  <2>1. \E h \in Handlers : Failing(h) /\ ~SendFails(h)
    <3>1. \A m \in Own \cup Arriving : HandleConnection(m) => status' = status
      BY DEF HandleConnection
    <3>2. ~AcceptOwn
      BY <1>1, <3>1, OwnIsServed
    <3>3. ~Accept
      BY <1>1, <3>1 DEF Accept, End
    <3>4. ~CloseDB /\ ~ReadFails /\ \A addr \in Addresses : ~StartServer(addr)
      BY <1>1 DEF CloseDB, ReadFails, StartServer, End
    <3>5. ~ UNCHANGED vars
      BY <1>1 DEF vars
    <3>6. PICK h \in Handlers : Step(h)
      BY <1>1, <3>2, <3>3, <3>4, <3>5 DEF Next
    <3>7. ~SendFails(h)
      BY <1>1 DEF SendFails, End
    <3>8. UNCHANGED Process => status' = status
      BY DEF Process
    <3> QED BY <1>1, <3>6, <3>7, <3>8
           DEF Step, Failing, Send, NotAvailable, DropNode, HandleAddr, AppendNodes, RangeNodes,
               HandleGetDataTx, NextBlock, FirstBlock, Reindex, SliceTransit, AssignTransit,
               StoreBegins, StoreTx, IsFirst, Announce, HandleInvBlock, FilterTransit, HandleInvTx
  <2>2. PICK h \in Handlers : Failing(h) /\ ~SendFails(h)
    BY <2>1
  <2>3. CASE MapConflict(h)
    <3>1. h \in Busy /\ \E g \in Handlers \ {h} : g \in Busy
      BY <2>3 DEF MapConflict, UsesPool, Busy
    <3> QED BY <1>1, <3>1 DEF InOrder
  <2>4. CASE (SliceTransit(h) \/ FirstBlock(h)) /\ blocksInTransit = <<>>
    <3>1. h \in Busy /\ Pending(conn[h]) \in {"slice", "first"}
      BY <2>4 DEF SliceTransit, FirstBlock, Busy, Pending, Requesting
    <3> QED BY <1>1, <2>4, <3>1 DEF InOrder, Transit, Asked
  <2>5. CASE KnownNodes = <<>>
    BY <1>1, <2>5 DEF SelfFirst, Headed
  <2> QED BY <2>2, <2>3, <2>4, <2>5 DEF Failing
<1>2. NodeInv /\ InOrder /\ SelfFirst /\ [Next]_vars =>
        [(status = "up" /\ status' = "down" /\ cause' \in {"index", "map"}) => overlapped \/ cutOff]_vars
  BY <1>1
<1> QED BY <1>2, ListsInOrder, SelfIsFirst, PTL DEF Spec, NoRaceNoPanic
=============================================================================
