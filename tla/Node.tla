-------------------------------- MODULE Node --------------------------------
(***************************************************************************)
(* One process of startnode: domain/network and the part of domain/chain   *)
(* that only the network calls.                                            *)
(*                                                                         *)
(* Every connection is served by a goroutine of its own; they share        *)
(* KnownNodes, blocksInTransit and memoryPool without a lock.  A step is   *)
(* what a goroutine does between two accesses to what it shares or two     *)
(* sends.  A panic in any of them ends the process.  Who connects is the   *)
(* environment: peers that keep to the protocol, send without -mine, and   *)
(* the node itself, which is among the nodes it knows.                     *)
(***************************************************************************)
EXTENDS Naturals, Sequences, FiniteSets, Bags, SequencesExt

CONSTANTS
  Central,      \* "localhost:3000", what KnownNodes starts with
  Peers,        \* addresses of other nodes
  NoAddr,       \* nodeAddress of a process that is not a node: ""
  Chain,        \* hashes from the last block down to the genesis block
  Foreign,      \* hashes of blocks the node does not have
  Txs,          \* ids of transactions
  Empty,        \* the zero Transaction a map read without a hit returns
  Handlers,     \* goroutines; bounds how many connections are served at once
  Inventories,  \* the block inventories peers send
  Lists,        \* the lists of addresses peers send
  MaxKnown,     \* bound on KnownNodes when a list of addresses arrives
  MaxMessages,  \* bound on connections that are not the node's own
  MaxStarts     \* bound on startnode

Blocks == {Chain[i] : i \in DOMAIN Chain}

(* No hash is listed twice: what GetBlockHashes collects, here or on a     *)
(* peer, is a chain.  A hash is 32 bytes long, so it is none of the names  *)
(* the code uses.                                                          *)
ASSUME NodeAssumption ==
  /\ Central \notin Peers /\ NoAddr \notin Peers \cup {Central}
  /\ Chain \in Seq(Blocks) /\ Chain # <<>> /\ IsInjective(Chain)
  /\ Blocks \cap Foreign = {}
  /\ {"lh", "last-hash"} \cap (Blocks \cup Foreign) = {}
  /\ Empty \notin Txs
  /\ Inventories \subseteq Seq(Blocks \cup Foreign) \ {<<>>}
  /\ \A items \in Inventories : IsInjective(items)
  /\ Lists \subseteq Seq(Peers \cup {Central})
  /\ MaxKnown \in Nat /\ MaxMessages \in Nat /\ MaxStarts \in Nat

(* The last three are no part of the program: they say what happened.     *)
VARIABLES
  keys,        \* badger keys: block hashes and the name of the newest block
  status,      \* "up", or "down" before startnode and after the process ended
  cause,       \* why it ended last
  nodeAddress,
  KnownNodes,
  blocksInTransit,
  memoryPool,
  conn,        \* what each goroutine is doing
  inbox,       \* messages the node sent to itself: a bag
  announced,   \* pairs of a peer and a transaction it was sent an inventory of
  messages, starts,
  wanted,      \* blocks of the newest inventory not asked for yet
  overlapped,  \* two handlers were under way at once since the start
  cutOff       \* the node did not reach itself since the start

shared == <<KnownNodes, blocksInTransit, memoryPool>>
counts == <<messages, starts>>
notes  == <<wanted, overlapped, cutOff>>
vars   == <<keys, status, cause, nodeAddress, shared, conn, inbox, announced, counts, notes>>

Addresses == Peers \cup {Central}

Msg(cmd, from, type, item) == [cmd |-> cmd, from |-> from, type |-> type, item |-> item]
To(addr, m)                == [to |-> addr, msg |-> m]

NoMsg == Msg("none", NoAddr, "none", <<>>)

(* A goroutine at pc with message m, and with requests todo to send before *)
(* it goes on at `then'; kept is the list it has made of a shared one and  *)
(* will assign: what others assign in between is lost.                     *)
At(pc, m)              == [pc |-> pc, msg |-> m, todo |-> <<>>, then |-> "idle", kept |-> <<>>]
AtSend(todo, then, m)  == [pc |-> "send", msg |-> m, todo |-> todo, then |-> then, kept |-> <<>>]
Made(pc, c, kept)      == [pc |-> pc, msg |-> c.msg, todo |-> c.todo, then |-> c.then, kept |-> kept]

Idle  == At("idle", NoMsg)
Busy  == {h \in Handlers : conn[h].pc # "idle"}

(* The loops that copy a list and leave something out. *)
AllBut(s, e) ==
  LET copy[i \in 0..Len(s)] ==
        IF i = 0 THEN <<>>
        ELSE IF s[i] = e THEN copy[i - 1] ELSE Append(copy[i - 1], s[i])
  IN  copy[Len(s)]

(* The hashes of the chain, newest first. *)
GetBlockHashes == Chain

(* What the node sends. *)
Inv(type, items)    == Msg("inv", nodeAddress, type, items)
GetBlocks           == Msg("getblocks", nodeAddress, "none", <<>>)
GetData(type, item) == Msg("getdata", nodeAddress, type, item)
Block(hash)         == Msg("block", nodeAddress, "none", hash)
Tx(tx)              == Msg("tx", nodeAddress, "none", tx)

-----------------------------------------------------------------------------
(* The process. *)

Memory ==
  /\ KnownNodes = <<Central>>
  /\ blocksInTransit = <<>>
  /\ memoryPool = {}
  /\ conn = [h \in Handlers |-> Idle]

(* InitBlockChain and MineBlock write "last-hash" and never another name. *)
Init ==
  /\ keys = Blocks \cup {"last-hash"}
  /\ status = "down"
  /\ cause = "none"
  /\ nodeAddress = NoAddr
  /\ Memory
  /\ inbox = EmptyBag
  /\ announced = {}
  /\ messages = 0
  /\ starts = 0
  /\ wanted = {}
  /\ overlapped = FALSE
  /\ cutOff = FALSE

(* The process ends, and what it held in memory, and what is on the way to *)
(* it, is gone.                                                            *)
End(why) ==
  /\ status' = "down"
  /\ cause' = why
  /\ nodeAddress' = NoAddr
  /\ KnownNodes' = <<Central>>
  /\ blocksInTransit' = <<>>
  /\ memoryPool' = {}
  /\ conn' = [h \in Handlers |-> Idle]
  /\ inbox' = EmptyBag
  /\ wanted' = {}
  /\ overlapped' = FALSE
  /\ cutOff' = FALSE
  /\ UNCHANGED <<keys, announced>>

(* GetBestHeight and AddBlock ask for a key of this name, and panic when   *)
(* it is not there.                                                        *)
BestHeightKey == "lh"
HasBestHeight      == BestHeightKey \in keys

(* SendVersion begins with GetBestHeight. *)
SendVersionPanics == ~HasBestHeight

(* StartServer: a node other than the central one begins with SendVersion. *)
StartServer(addr) ==
  /\ status = "down"
  /\ starts < MaxStarts
  /\ starts' = starts + 1
  /\ IF addr = KnownNodes[1] \/ ~SendVersionPanics
     THEN /\ status' = "up"
          /\ nodeAddress' = addr
          /\ cause' = "none"
          /\ UNCHANGED <<keys, shared, conn, inbox, announced, notes>>
     ELSE End("best height")
  /\ UNCHANGED messages

(* CloseDB: SIGINT or SIGTERM closes the database and exits. *)
CloseDB ==
  /\ status = "up"
  /\ End("signal")
  /\ UNCHANGED counts

-----------------------------------------------------------------------------
(* A connection. *)

(* send without -mine, run for another node: the command's process has no  *)
(* address.                                                                *)
SendTx == {Msg("tx", NoAddr, "none", t) : t \in Txs}

(* A peer keeps to the protocol, and asks for a transaction that was       *)
(* announced to it.                                                        *)
FromPeer(p) ==
  {Msg("getblocks", p, "none", <<>>), Msg("version", p, "none", <<>>)}
  \cup {Msg("addr", p, "none", list) : list \in {l \in Lists : Len(KnownNodes) < MaxKnown}}
  \cup {Msg("inv", p, "block", items) : items \in Inventories}
  \cup {Msg("inv", p, "tx", <<t>>) : t \in Txs}
  \cup {Msg("tx", p, "none", t) : t \in Txs}
  \cup {Msg("block", p, "none", b) : b \in Blocks \cup Foreign}
  \cup {Msg("getdata", p, "tx", t) : t \in {t \in Txs : <<p, t>> \in announced}}
  \cup {Msg("getdata", p, "block", b) : b \in Blocks}

Arriving == SendTx \cup UNION {FromPeer(p) : p \in Peers}

(* What a handler has to send, to be followed by the step named then. *)
Sending(m, todo, then) ==
  LET held == IF then = "idle" THEN NoMsg ELSE m
  IN  IF todo = <<>> THEN At(then, held) ELSE AtSend(todo, then, held)

Sends(h, todo, then) == conn' = [conn EXCEPT ![h] = Sending(conn[h].msg, todo, then)]
Goto(h, pc)          == Sends(h, <<>>, pc)

Process == <<keys, status, cause, nodeAddress, counts>>
Wire    == <<inbox, announced>>

HandleGetBlocks(m) == <<To(m.from, Inv("block", GetBlockHashes))>>

GetBlock(hash) == {b \in keys : b = hash}

HandleGetDataBlock(m) == IF GetBlock(m.item) = {} THEN <<>> ELSE <<To(m.from, Block(m.item))>>

(* AddBlock does nothing for a block that is stored, and panics for any    *)
(* other, as there is no key "lh"; the panic undoes its transaction.       *)
AddBlock(m) == IF m.cmd = "block" THEN keys \cup {m.item} ELSE keys

Panics(m) ==
  /\ ~HasBestHeight
  /\ m.cmd = "version" \/ (m.cmd = "block" /\ m.item \notin keys)

(* The handler the command names, as far as it touches nothing shared: the *)
(* rest waits for its turn.                                                *)
Begin(m) ==
  CASE m.cmd = "getblocks"                   -> Sending(m, HandleGetBlocks(m), "idle")
    [] m.cmd = "getdata" /\ m.type = "block" -> Sending(m, HandleGetDataBlock(m), "idle")
    [] m.cmd = "block"                       -> At("next", Msg("block", m.from, "none", <<>>))
    [] OTHER                                 -> At(m.cmd, m)

(* StartServer's loop starts a goroutine that reads the whole request.     *)
(* Goroutines are alike: any free one stands for a new one.                *)
HandleConnection(m) ==
  /\ Busy # Handlers
  /\ LET h == CHOOSE h \in Handlers \ Busy : TRUE
     IN  conn' = [conn EXCEPT ![h] = Begin(m)]
  /\ keys' = AddBlock(m)
  /\ overlapped' = (overlapped \/ Busy # {})
  /\ UNCHANGED <<status, cause, nodeAddress, shared, announced, starts, wanted, cutOff>>

AcceptOwn ==
  /\ status = "up"
  /\ \E m \in BagToSet(inbox) :
       /\ HandleConnection(m)
       /\ inbox' = inbox (-) SetToBag({m})
  /\ UNCHANGED messages

Accept ==
  /\ status = "up"
  /\ messages < MaxMessages
  /\ messages' = messages + 1
  /\ \E m \in Arriving :
       IF Panics(m)
       THEN End("best height") /\ UNCHANGED starts
       ELSE HandleConnection(m) /\ UNCHANGED inbox

(* The request could not be read to its end. *)
ReadFails ==
  /\ status = "up"
  /\ messages < MaxMessages
  /\ messages' = messages + 1
  /\ End("read")
  /\ UNCHANGED starts

-----------------------------------------------------------------------------
(* SendData. *)

(* SendData: the request arrives. *)
Send(h) ==
  /\ conn[h].pc = "send"
  /\ LET s == Head(conn[h].todo)
     IN  IF s.to = nodeAddress
         THEN inbox' = inbox (+) SetToBag({s.msg}) /\ UNCHANGED announced
         ELSE /\ announced' = announced \cup
                   IF s.msg.cmd = "inv" /\ s.msg.type = "tx" THEN {<<s.to, s.msg.item[1]>>} ELSE {}
              /\ UNCHANGED inbox
  /\ Sends(h, Tail(conn[h].todo), conn[h].then)
  /\ UNCHANGED <<Process, notes, shared>>

(* SendData: nobody answers at the address, be it the node's own, and the  *)
(* list without it is made.                                                *)
OthersInverted(addr) == AllBut(KnownNodes, nodeAddress)   \* fault: the loop drops the wrong one
Others(addr)         == AllBut(KnownNodes, addr)

NotAvailable(h) ==
  /\ conn[h].pc = "send"
  /\ LET to == Head(conn[h].todo).to
     IN  /\ conn' = [conn EXCEPT ![h] = Made("drop", conn[h], Others(to))]
         /\ cutOff' = (cutOff \/ to = nodeAddress)
  /\ UNCHANGED <<Process, wanted, overlapped, shared, Wire>>

DropNode(h) ==
  /\ conn[h].pc = "drop"
  /\ KnownNodes' = conn[h].kept
  /\ Sends(h, Tail(conn[h].todo), conn[h].then)
  /\ UNCHANGED <<Process, notes, blocksInTransit, memoryPool, Wire>>

(* SendData: the connection breaks while the request is copied to it. *)
SendFails(h) ==
  /\ conn[h].pc = "send"
  /\ End("send")
  /\ UNCHANGED counts

-----------------------------------------------------------------------------
(* The handlers. *)

RequestBlocks(nodes) == [i \in DOMAIN nodes |-> To(nodes[i], GetBlocks)]

(* HandleAddr appends to what KnownNodes was, assigns it, and asks all     *)
(* that are in it by then.                                                 *)
HandleAddr(h) ==
  /\ conn[h].pc = "addr"
  /\ conn' = [conn EXCEPT ![h] = Made("append", conn[h], KnownNodes \o conn[h].msg.item)]
  /\ UNCHANGED <<Process, notes, shared, Wire>>

AppendNodes(h) ==
  /\ conn[h].pc = "append"
  /\ KnownNodes' = conn[h].kept
  /\ Goto(h, "range")
  /\ UNCHANGED <<Process, notes, blocksInTransit, memoryPool, Wire>>

RangeNodes(h) ==
  /\ conn[h].pc = "range"
  /\ Sends(h, RequestBlocks(KnownNodes), "idle")
  /\ UNCHANGED <<Process, notes, shared, Wire>>

(* Is there a block in transit?  When there is none, Reindex. *)
NextBlock(h) ==
  /\ conn[h].pc = "next"
  /\ blocksInTransit # <<>>
  /\ Goto(h, "first")
  /\ UNCHANGED <<Process, notes, shared, Wire>>

(* The first one is asked for, if it is still there. *)
FirstBlock(h) ==
  /\ conn[h].pc = "first"
  /\ IF blocksInTransit = <<>>
     THEN End("index") /\ UNCHANGED counts
     ELSE /\ Sends(h, <<To(conn[h].msg.from, GetData("block", blocksInTransit[1]))>>, "slice")
          /\ wanted' = wanted \ {blocksInTransit[1]}
          /\ UNCHANGED <<Process, shared, Wire, overlapped, cutOff>>

ReindexAndSlice(h) ==   \* fault: the slice follows the if, whatever was found
  /\ conn[h].pc = "next"
  /\ blocksInTransit = <<>>
  /\ Goto(h, "slice")
  /\ UNCHANGED <<Process, notes, shared, Wire>>

Reindex(h) ==
  /\ conn[h].pc = "next"
  /\ blocksInTransit = <<>>
  /\ Goto(h, "idle")
  /\ UNCHANGED <<Process, notes, shared, Wire>>

SliceNothing(h) ==   \* fault: the head that was asked for stays
  /\ conn[h].pc = "slice"
  /\ Goto(h, "idle")
  /\ UNCHANGED <<Process, notes, shared, Wire>>

(* blocksInTransit[1:], of whatever the list is by now. *)
SliceTransit(h) ==
  /\ conn[h].pc = "slice"
  /\ IF blocksInTransit = <<>>
     THEN End("index") /\ UNCHANGED counts
     ELSE /\ conn' = [conn EXCEPT ![h] = Made("assign", conn[h], Tail(blocksInTransit))]
          /\ UNCHANGED <<Process, notes, shared, Wire>>

AssignTransit(h) ==
  /\ conn[h].pc = "assign"
  /\ blocksInTransit' = conn[h].kept
  /\ Goto(h, "idle")
  /\ UNCHANGED <<Process, notes, KnownNodes, memoryPool, Wire>>

HandleGetDataTx(h) ==
  /\ conn[h].pc = "getdata"
  /\ LET m == conn[h].msg
     IN  Sends(h, <<To(m.from, Tx(IF m.item \in memoryPool THEN m.item ELSE Empty))>>, "idle")
  /\ UNCHANGED <<Process, notes, shared, Wire>>

(* What the transaction is announced with to the others. *)
Announcement(m) ==
  LET others == AllBut(AllBut(KnownNodes, nodeAddress), m.from)
  IN  [i \in DOMAIN others |-> To(others[i], Inv("tx", <<m.item>>))]

(* HandleTx writes the map: what other goroutines do meanwhile falls       *)
(* between StoreBegins and StoreTx.                                        *)
StoreAnnounced(h) ==   \* fault: announced before it is stored
  /\ conn[h].pc = "tx"
  /\ Sends(h, Announcement(conn[h].msg), "store")
  /\ UNCHANGED <<Process, notes, shared, Wire>>

StoreBegins(h) ==
  /\ conn[h].pc = "tx"
  /\ Goto(h, "store")
  /\ UNCHANGED <<Process, notes, shared, Wire>>

StoreTx(h) ==
  /\ conn[h].pc = "store"
  /\ memoryPool' = memoryPool \cup {conn[h].msg.item}
  /\ Goto(h, "head")
  /\ UNCHANGED <<Process, notes, KnownNodes, blocksInTransit, Wire>>

(* KnownNodes[0]: the node it is announces the transaction to the others.  *)
(* Any other would mine when mineAddress is set; StartServer does not set  *)
(* it.                                                                     *)
IsFirst(h) ==
  /\ conn[h].pc = "head"
  /\ IF KnownNodes = <<>>
     THEN End("index") /\ UNCHANGED counts
     ELSE /\ Goto(h, IF nodeAddress = KnownNodes[1] THEN "announce" ELSE "idle")
          /\ UNCHANGED <<Process, notes, shared, Wire>>

Announce(h) ==
  /\ conn[h].pc = "announce"
  /\ Sends(h, Announcement(conn[h].msg), "idle")
  /\ UNCHANGED <<Process, notes, shared, Wire>>

(* The runtime may notice that the map is used while it is written. *)
UsesPool(h) ==
  \/ conn[h].pc = "tx"
  \/ conn[h].pc \in {"inv", "getdata"} /\ conn[h].msg.type = "tx"

MapConflict(h) ==
  /\ UsesPool(h)
  /\ \E g \in Handlers \ {h} : conn[g].pc = "store"
  /\ End("map")
  /\ UNCHANGED counts

HandleInvBlock(h) ==
  /\ conn[h].pc = "inv"
  /\ conn[h].msg.type = "block"
  /\ blocksInTransit' = conn[h].msg.item
  /\ Sends(h, <<To(conn[h].msg.from, GetData("block", conn[h].msg.item[1]))>>, "filter")
  /\ wanted' = ToSet(Tail(conn[h].msg.item))
  /\ UNCHANGED <<Process, KnownNodes, memoryPool, Wire, overlapped, cutOff>>

FilterNothing(h) ==   \* fault: the copy is made, and not assigned
  /\ conn[h].pc = "filter"
  /\ Goto(h, "idle")
  /\ UNCHANGED <<Process, notes, shared, Wire>>

(* The block just asked for is not in transit any more. *)
FilterTransit(h) ==
  /\ conn[h].pc = "filter"
  /\ conn' = [conn EXCEPT ![h] =
       Made("assign", conn[h], AllBut(blocksInTransit, conn[h].msg.item[1]))]
  /\ UNCHANGED <<Process, notes, shared, Wire>>

HandleInvTx(h) ==
  /\ conn[h].pc = "inv"
  /\ conn[h].msg.type = "tx"
  /\ LET t == conn[h].msg.item[1]
     IN  Sends(h, IF t \in memoryPool THEN <<>> ELSE <<To(conn[h].msg.from, GetData("tx", t))>>, "idle")
  /\ UNCHANGED <<Process, notes, shared, Wire>>

-----------------------------------------------------------------------------
(* A goroutine goes on. *)
Step(h) ==
  \/ Send(h) \/ NotAvailable(h) \/ DropNode(h) \/ SendFails(h)
  \/ HandleAddr(h) \/ AppendNodes(h) \/ RangeNodes(h) \/ HandleGetDataTx(h)
  \/ NextBlock(h) \/ FirstBlock(h) \/ Reindex(h) \/ SliceTransit(h) \/ AssignTransit(h)
  \/ StoreBegins(h) \/ StoreTx(h) \/ IsFirst(h) \/ Announce(h) \/ MapConflict(h)
  \/ HandleInvBlock(h) \/ FilterTransit(h) \/ HandleInvTx(h)

Next ==
  \/ \E addr \in Addresses : StartServer(addr)
  \/ CloseDB
  \/ Accept \/ AcceptOwn \/ ReadFails
  \/ \E h \in Handlers : Step(h)

Spec == Init /\ [][Next]_vars

(* The runtime runs every goroutine that can go on, and the listener       *)
(* accepts what waits; peers, the user and failures owe nothing.           *)
FairSpec ==
  /\ Spec
  /\ WF_vars(AcceptOwn)
  /\ \A h \in Handlers : WF_vars(Step(h))

-----------------------------------------------------------------------------
(* What should be true. *)

Commands == {"none", "addr", "block", "inv", "getdata", "tx"}

(* The types of the variables. *)
TypeOK ==
  /\ keys \subseteq Blocks \cup Foreign \cup {"last-hash"}
  /\ status \in {"up", "down"}
  /\ cause \in {"none", "best height", "signal", "read", "send", "index", "map"}
  /\ nodeAddress \in Addresses \cup {NoAddr}
  /\ KnownNodes \in Seq(Addresses)
  /\ blocksInTransit \in Seq(Blocks \cup Foreign)
  /\ memoryPool \subseteq Txs
  /\ \A h \in Handlers :
       /\ conn[h].msg.cmd \in Commands /\ conn[h].msg.from \in Addresses \cup {NoAddr}
       /\ \A i \in DOMAIN conn[h].todo : conn[h].todo[i].to \in Addresses
       /\ conn[h].kept \in IF conn[h].pc = "assign" THEN Seq(Blocks \cup Foreign) ELSE Seq(Addresses)
  /\ announced \subseteq Peers \X Txs
  /\ wanted \subseteq Blocks \cup Foreign
  /\ overlapped \in BOOLEAN /\ cutOff \in BOOLEAN
  /\ messages \in 0..MaxMessages /\ starts \in 0..MaxStarts

(* A process that serves has itself at the head of KnownNodes, whichever   *)
(* nodes it dropped and whatever lists it was sent, in any interleaving of *)
(* the handlers that write it: KnownNodes[0] in HandleTx is there, and the *)
(* branch of HandleTx that mines is not taken.  Only a node that does not  *)
(* reach itself drops itself.                                              *)
FirstIsSelf ==
  status = "up" /\ ~cutOff => KnownNodes # <<>> /\ KnownNodes[1] = nodeAddress

(* "startnode -miner ADDRESS - Start a node with ID specified in NODE_ID   *)
(* env. var." (main.go): whichever NODE_ID it is.                          *)
StartnodeStarts == [][starts' # starts => status' = "up"]_vars

(* Connections that are served one after the other never make the node     *)
(* index past a list or trip over its own map, unless it dropped itself.   *)
NoRaceNoPanic ==
  [][(status = "up" /\ status' = "down" /\ cause' \in {"index", "map"}) => overlapped \/ cutOff]_vars

(* While they are, blocksInTransit is what was announced last and not      *)
(* asked for yet: no block is skipped, none asked for twice, and Reindex   *)
(* waits for the last.                                                     *)
InTransitIsWanted ==
  (~overlapped /\ Busy = {}) =>
    /\ ToSet(blocksInTransit) = wanted
    /\ Len(blocksInTransit) = Cardinality(wanted)

(* A transaction announced to a peer is still there when the peer asks for *)
(* it, however its handlers interleave with others, unless the process was *)
(* restarted in between; then the peer is sent a transaction without id.   *)
EmptyOnlyAfterRestart ==
  \A h \in Handlers : \A i \in DOMAIN conn[h].todo :
    conn[h].todo[i].msg = Tx(Empty) => starts > 1

(* What the node starts by itself ends: the download of its own chain,     *)
(* which every list of addresses with its own sets off, runs dry.          *)
GoesQuiet == <>[](inbox = EmptyBag /\ Busy = {})
=============================================================================
