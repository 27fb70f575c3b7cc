# Formal models of go-simple-ddd

The repository holds two programs that share a module path:

* a small **proof-of-work blockchain** (`internal/domain/*`, `cmd/blockchain`),
  a command line tool that keeps one chain per node in a badger database, and
  the beginning of a peer-to-peer node;
* a **service template** (`internal/application`, `internal/run_*.go`, `pkg/*`,
  `cmd/{server,consumers,crons,migrator}`): gRPC/HTTP servers, queue consumers
  and crons over postgres, redis, YDB topics and SQS.  Its business layers
  (`internal/service/*`, `internal/infrastructure/*`, the order, user, product
  and delivery domains) are not in the repository: what they do can only be
  modelled from how the code that is there calls them.

The blockchain is the program's own logic and is modelled in most detail; of the
service template what is in the repository is modelled with the missing layers as
an environment that may return anything.  All paths below are relative to the
repository.

## 1. Inventory

### The blockchain

| Component | State | Operations | What makes it correct |
|---|---|---|---|
| **Chain** `internal/domain/chain/chain.go`, `chain_iterator.go` | badger keys: `<hash>` -> block, `last-hash` -> newest hash; `BlockChain.LastHash` in memory | `InitBlockChain`, `ContinueBlockChain`, `MineBlock`, `AddBlock`, `GetBlock`, `GetBestHeight`, `FindTransaction`, `FindUTXO` | one block per height, linked down to a genesis block; the iterator reaches every stored block; a walk ends |
| **Outputs index** `chain/utxo.go` | badger keys `utxo-<txid>` -> list of outputs left | `Reindex` (`DeleteByPrefix`, `FindUTXO`, write), `Update`, `FindSpendableOutputs`, `FindUnspentTransactions`, `CountTransactions` | it holds the unspent outputs of the chain: balances add up, an output is spent once, a rebuild finds what it replaces |
| **Transactions** `domain/transaction` | values only | `CoinbaseTx`, `Hash`, `Sign`, `Verify`, (de)serialization | inputs name unspent outputs the sender can unlock; payment and change add up to the inputs |
| **Blocks** `domain/block` | values only | `NewMerkleTree`, `HashTransactions`, `ProofOfWork.Run`, `Validate` | the hash depends on every transaction; the nonce kept is one that hits the target |
| **Wallets** `domain/wallet` | `./tmp/wallets_<node>.json` | `CreateWallets`/`LoadFile`, `AddWallet`, `SaveFile`, address checksum | a reported address keeps its private key |
| **Command line** `cmd/blockchain/main.go` | none between commands | `createblockchain`, `createwallet`, `getbalance`, `send`, `print`, `listaddresses`, `reindexutxo`, `startnode` | every command ends; commands compose to accounts that pay each other |
| **Network node** `domain/network` | `KnownNodes`, `blocksInTransit`, `memoryPool` (unguarded globals), the chain | one goroutine per connection: `HandleAddr/Block/Inv/GetBlocks/GetData/Tx/Version`, `MineTx`, `CloseDB` | nodes exchange blocks and transactions, a pool is mined |

A command is one process: it opens the database (badger locks the directory, so
one process at a time), does a few badger transactions, and exits.  The hard
behaviours are what lies **between** those transactions (the process may be
killed there), the **long sequences** of ordinary commands that drive chain and
index apart, the **unlocked wallet file**, and, in the node, **goroutines on
shared globals**.

### The service template

| Component | State | What is hard |
|---|---|---|
| **YDB topic consumer** `pkg/consumerutils/run_ydb_consumer.go` | reader position, offset committed | handled but not committed, retry for ever, cancellation between retry and commit |
| **SQS consumer** `pkg/consumerutils/run_sqs_consumer.go`, `pkg/sqs` | messages in flight, visibility timeout | timeout racing a late handler, stale receipt handles, redelivery |
| **Server lifecycle** `internal/run_servers.go`, `run_consumers.go`, `run_crons.go` | goroutines of an errgroup, signal context | shutdown order, one step of shutdown failing, a listener that fails at start |
| **Queue readers and writers** `internal/topics.go` | connections and their closers | a step of the initialisation fails after another opened a connection |
| **Order pipeline** `orders/crons`, `deliveries/consumers`, `products/consumers` | order rows, topic, delivery rows (behind absent repositories) | ticks overlapping slow handlers, duplicate events |
| **Retry, transactions, migrations** `pkg/backoff`, `pkg/db` | attempt counter; database version | what is retried, rollback after a failed commit, direction of a migration |
| **Authentication, gRPC handlers, error mapping** `pkg/auth`, `internal/application/*/server`, `pkg/grpcutils` | none | which calls need a user, which error becomes which status |

Configuration, logging, tracing, Sentry, parse utilities, clients of S3 and
redis, generated code and protobuf definitions carry no state machine of their
own; where they decide what another part does (a constructor that fails, the
routes of the generated gateway) they appear in its model.

## 2. Modules

| Module | What it is |
|---|---|
| `Transactions` | pure operators of `domain/transaction` and the read side of `utxo.go` |
| `Ledger` | the database of one node and the commands that change it, with every commit point and a kill between any two |
| `LedgerProperties` | what is claimed of `Ledger`, the reference definitions and the three inductive invariants (structure, signing, money) |
| `Bank` | the abstract specification: accounts, opened once, that pay each other |
| `MCLedger` | instances for TLC |
| `Induction`, `LedgerProofs` | proofs about `Ledger` |
| `WalletFile`, `MCWalletFile`, `WalletFileProofs` | the wallet file and any number of `createwallet` processes |
| `Block`, `MCBlock`, `BlockProofs` | Merkle tree and proof of work |
| `Node`, `MCNode`, `NodeProofs` | a process of `startnode`: the goroutines that serve its connections and what they share |
| `TopicConsumer`, `MCTopicConsumer`, `TopicProofs` | consumer processes of a YDB topic: read, handle, retry, commit, stop |
| `Delivery` | the abstract specification: at-least-once delivery in order |
| `ProductQueue`, `MCProductQueue`, `QueueProofs` | the SQS queue of products, its consumers, and the transactions that send to it |
| `WorkQueue` | the abstract specification: a message goes only after it was worked on |
| `Requests` | what becomes of one request: routes, interceptors, handlers, error codes (operators only) |
| `Lifecycle` | how server, consumers and crons start, run and stop |
| `Services`, `MCServices`, `ServicesProofs` | `Lifecycle` composed with the clients and the requests of `Requests` |

Every module that has a state is composed with its surroundings: `Ledger` uses
`Transactions`, `Services` extends `Lifecycle` and `Requests`; `Ledger`,
`TopicConsumer` and `ProductQueue` are shown to implement `Bank`, `Delivery` and
`WorkQueue`.  Some definitions, most of them marked `\* fault:`, are a step of the code
with a plausible mistake in it; no specification uses them, they stand beside the
right ones to see that a property notices the difference.

### Ledger: state and actions

`blocks`, `lastHash`, `utxo` and `dbExists` are on disk (`disk`); `pc`,
`cursor`, `pos`, `txn`, `todo` and `spent` are the running process
(`command`), and a kill loses exactly them.  Badger is modelled by what its
interface promises: a transaction is atomic and durable, its `LOCK` keeps a
second process out, keys come in byte order, which for hashes is *some* order.

| Action | Code |
|---|---|
| `CreateBlockChain`, `CommitGenesis` | `createBlockChain` up to the commit of `InitBlockChain`: opening creates `MANIFEST`, then the genesis transaction; then `Reindex` |
| `ReindexUTXO` | `reindexUTXO` enters `Reindex` |
| `DeleteByPrefix` | one `deleteKeys` transaction of at most `CollectSize` keys.  The iterator is over a `View` of the index as it was at the start; `txn` is what it has before it |
| `StartWalk`, `WalkTx` | `FindUTXO`, one transaction of the chain per step |
| `WriteIndex` | the transaction at the end of `Reindex` |
| `Send` | `send -mine`: `FindSpendableOutputs`, `NewTransaction`, `SignTransaction`, `MineBlock` and its commit.  Only that commit is visible to anyone else, so the reads before it are in the same step |
| `UpdateInput`, `UpdateOutputs`, `UpdateCommit` | `Update`, one input or one list of outputs per step, then its commit |
| `Crash` | the process dies while a command is under way |
| `ReadOnly` | `getbalance`, `print`, `listaddresses`: no change |

A transaction is `[id, ins, key, outs]`, where `key` is the public key all its
inputs carry (random bytes in a coinbase).  The index maps an id to the *compacted*
list of outputs, as `TxOutputs` does: positions are not stored, which is what
several findings below rest on.  Positions count from 1.  Ids and hashes are
numbers drawn fresh; a payment that repeats the content of an earlier
transaction, inputs, key and outputs, may get its id again (`HashIds`).  Signatures appear as the two
lookups that can panic.  Panics before anything is written leave no trace and
are therefore disabled actions.

What `WriteIndex` stores is the whole index only because the deletion before it left
nothing: the keys still indexed are the ones `DeleteByPrefix` has before it
(`MemoryAgrees`).

### WalletFile: state and actions

`data`, `tail` and `exists` are the file: the wallets written at its start, the
bytes an earlier, longer write left behind them, and whether it is there.
`CreateWallet` loads and adds a key in memory, `SaveOpen` is the `O_TRUNC` of
`os.WriteFile`, `SaveWrite` the write behind it and the printed address,
`SaveFails` the ignored error, `Kill` the death of the process.  A read sees
the file at one moment; a read torn by a concurrent write ends like a read of a
truncated file, in a JSON error.

### Block: state and actions

`CreateBlock` picks transactions and a block to build on, `Try` is one turn of
`Run`'s loop, `Finish` its return.  A hash is the term it was computed from (no
collisions); whether it is below the target is an oracle, asked once per term.

### TopicConsumer: state and actions

`written`, `committed`, `holder` and `next` are one partition of the topic,
which is external: it gives the partition to one process at a time and starts
the session behind the committed offset.  `pc`, `msg`, `fresh`, `pending` and
`cancelled` are the processes: where each stands in the loop of
`RunYDBConsumer`, the message in its hand, whether it read that message in the
session it still has, the offset in the reader's commit buffer, and its context.
`times` counts how often the handler accepted a message; nothing reads it but
the properties.

| Action | Code |
|---|---|
| `Read`, `ReadCanceled`, `ReadFails` | `ReadMessage` and `io.ReadAll`, and their two ways to return |
| `HandlerSucceeds`, `HandlerFails`, `Retry`, `HandlerCanceled` | `RetryNotify` with the three middlewares; the handler is `HandleOrderProcessing`.  It runs in a background context, so a call is one step; a call that does part of its work and then fails counts as failed |
| `Commit`, `CommitExpired` | `reader.Commit`: into the buffer, or of a session that is gone |
| `Cancel`, `Close` | `RunConsumers`: the signal context shared through the errgroup, and the closing of the reader, which flushes the buffer, after the consumers have returned.  That the other goroutines of the errgroup return too is assumed here |
| `Assign`, `LoseSession`, `SendCommit`, `Write` | the topic |
| `Start`, `Kill` | the process.  `signal.NotifyContext` listens to `os.Interrupt` only, so a SIGTERM is a kill |

### Node: state and actions

`KnownNodes`, `blocksInTransit` and `memoryPool` are the unguarded globals,
`keys` the badger keys the node asks for, `status`, `cause` and `nodeAddress` the
process.  `conn[h]` is goroutine `h`: the message it handles, its next access to
a global or its next send.  `inbox` holds what the node has sent to itself, as it
is one of the nodes it knows.  `wanted`, `announced`, `overlapped` and `cutOff` are
notes for the properties only; `cutOff` is set when the node failed to dial itself.

| Action | Code |
|---|---|
| `StartServer` | `StartServer`; a node that is not first in `KnownNodes` begins with `SendVersion`, whose `GetBestHeight` panics, since no key `lh` is ever written |
| `Accept`, `AcceptOwn`, `ReadFails` | the accept loop and `HandleConnection`, with a peer's message, an own one, or a read that panics |
| `Send`, `NotAvailable`, `DropNode`, `SendFails` | `SendData`, to any node and to itself: it arrives, or the list without the address is computed and then assigned, or `io.Copy` fails and panics |
| `HandleAddr`, `AppendNodes`, `RangeNodes` | `HandleAddr` and `RequestBlocks`: `KnownNodes` is read, assigned, and ranged over |
| `NextBlock`, `FirstBlock`, `SliceTransit`, `AssignTransit`, `Reindex` | `HandleBlock`: the length of `blocksInTransit` is asked, its head read, its tail computed and assigned |
| `HandleInvBlock`, `FilterTransit`, `AssignTransit`, `HandleInvTx` | `HandleInv` |
| `StoreBegins`, `StoreTx`, `IsFirst`, `Announce` | `HandleTx` |
| `HandleGetDataTx` | `HandleGetData` of a transaction |
| `MapConflict` | the runtime notices a map that is used while it is written |
| `CloseDB` | SIGINT or SIGTERM |

What a handler does without a global (`HandleGetBlocks`, `HandleGetData` of a
block, `AddBlock`) is part of accepting the message.  Between two accesses of one handler
any other may go on, so a list that two of them write loses what one wrote; a
`range` over a list works on the list it began with, as in Go.  A panic in any
goroutine ends the process.

### ProductQueue: state and actions

`row[m]` is where the transaction of a product stands, `place[m]` and
`receiver[m]` where its message is and who has its newest receipt handle; `pc`,
`batch` and `cancelled` are the processes; `times` counts accepted calls of the
handler.

| Action | Code |
|---|---|
| `SendMessage`, `Commit`, `Rollback` | `RunInTx` around a function that sends; the rollback includes a commit whose answer is lost |
| `Appear`, `Expire`, `ExpireEarly` | the queue: a delay is over, a visibility timeout, a visibility timeout that hits a consumer at work |
| `ReadMessages`, `Skip`, `Handle`, `HandleFails`, `MakeMessageVisible`, `DeleteMessage`, `CallFails`, `Stop` | the loop of `RunSQSConsumer`, one call of the queue per step |
| `ReadOne`, `GiveUp` | `ReadAndProcessMessageFromSQS` |
| `Cancel`, `Kill` | the context of the errgroup, the death of the process |

What a call with an old receipt handle does is the queue's choice: it may take
effect or not.

### Requests, Lifecycle, Services: state and actions

`Requests` has no state.  `Chain(req, result)` is the answer of the whole chain
of interceptors around a handler, for a service result; the result `"pending"`
asks whether the handler reaches its service.  `Routes` is what the generated
gateway routes, `Methods` what the gRPC server dispatches, `Streams` its streaming
calls: the interceptors are unary, so no stream passes them.

In `Lifecycle`, `stage` and `next` are the main goroutine (the constructor it
calls next), `open` what has to be closed, `missing` what failed and was only
logged, `tasks` the goroutines of the errgroup, `interrupted` the signal,
`status` the outcome.  In `Services`, `calls[c]` is a call on its way through
HTTP server, gateway, gRPC server and service.

| Action | Code |
|---|---|
| `Construct`, `ConstructFails`, `ConstructMissing` | the next step of `RunServers`/`startServers`, `RunConsumers`/`initResources`, `RunCrons`/`initCronResources` |
| `Listen`, `ListenFails`, `ServeReturns` | the goroutines that listen |
| `StopperWakes`, `ShutdownReturns`, `ShutdownTimesOut`, `ConnClose`, `GracefulStop`, `PprofStopperWakes`, `PprofShutdown` | the goroutines that wait for the context and shut down, in the order of their calls |
| `TopicFails`, `ConsumerStops`, `QueuePanics`, `Tick`, `TickEnds`, `CronStops`, `TickerPanics` | consumers and the ticker of the crons |
| `Interrupt`, `InterruptKills` | os.Interrupt while `NotifyContext` is in force, and when it is not |
| `WaitReturns`, `CloseNext`, `Exit` | `g.Wait`, the deferred calls, the end of the process |
| `OpenStream`, `CloseStream` | a client of Health/Watch or of the reflection; only it ends the stream, or the process |
| `Connect`, `Disconnect`, `Ping`, `SendRequest`, `DecodeFails`, `Invoke`, `CallDirectly`, `Abandon`, `Finish` | HTTP and gRPC clients, and the gateway |
| `Handle`, `Return` | interceptors and handler up to the service, and back |

## 3. Runs

| Run | Shows |
|---|---|
| `ledger_transfers` | two addresses pay each other, up to two kills, no rebuild: the commands seen through `getbalance` implement `Bank`, and as long as nothing was killed the index balances every block (`SupplyConserved`) |
| `ledger_reindex` | payments with and without change, also to oneself, up to three deaths at any commit point and two rebuilds anywhere: the structure of chain and index, `FindUTXO` against its declarative definition, no money out of nothing (`SupplyNotInflated`, of indexes never rebuilt), whatever is selected can be signed, and a command that is not killed ends (`CommandEnds`).  While nothing is killed and as long as whatever was spent was the only output of its transaction (`SpentWhole`), the index lists what the chain has unspent (`IndexIsUnspent`) and `getbalance` shows its sum (`BalanceIsUnspent`) |
| `ledger_rebuild_differs` | violation: the positions of the compacted index shift, so a rebuild disagrees with the index it replaces |
| `wallet_processes` | four `createwallet` processes, up to three at a time, one killed, one that cannot save: without overlap or a failed save, a file that parses has every reported wallet; a broken file is never replaced by a fresh one |
| `block_commands` | blocks of one and two transactions, the ones the commands build: a hash names one content, `Validate` accepts what `Run` found |
| `block_uncovered` | violation: with three transactions the root does not depend on the third |
| `node_central` | a node, a peer and `send`: which promises survive the unguarded globals (`FirstIsSelf`, unless the node failed to dial itself, and `EmptyOnlyAfterRestart`), which need connections one at a time (`InTransitIsWanted`, `NoRaceNoPanic`), and that the node's talk to itself ends (`GoesQuiet`) |
| `node_other` | violation: `startnode` with any other `NODE_ID` panics before it serves |
| `topic_delivery` | two consumer processes, three messages of which the handler never accepts the third, three starts, a kill and a lost session: the refinement of `Delivery`, no loss, order, nothing repeated without a fault, a signal stops a consumer, and what can be handled is (`Drains`) |
| `queue_deliveries` | two products, two consumers and a single reader, two faults of any kind: the refinement of `WorkQueue`, nothing repeated and nothing held back by a shutdown without faults, a cancelled consumer stops, every committed product is handled and its message goes |
| `services_programs` | each of the three programs, with a call of any method or a stream, and another call in its way: what is closed when, who gets an answer, what brings a process down, which errors go out, and that an interrupted or failing program stops unless `Shutdown` times out or a client keeps a stream open |
| `services_interrupted` | violation: an HTTP request that outlasts `InterruptTimeout` keeps an interrupted server from ever stopping |

**Bounds.**  *Ledger:* two addresses are enough for a payer and a payee and, with
`AllTransfers`, for a payer that is its own payee; amounts 4, 10, 14
and 20 against coinbases of 10 give change, exact matches and several inputs.  Four or five
blocks (a genesis block and three or four payments) are what the longest
counterexample needs; ids are bounded so that the blocks run out first.
`CollectSize` is 2 (100000 in the code), so an index is deleted in more than
one batch.  Three deaths let a `send`, a rebuild and the next command die in one
history.  *Topic:* two processes are enough for one to hold the partition while
the other still has a message of a session it lost; three starts let one of them
come back; the third message is behind two that can be handled, so that the
retries of a message that cannot be accepted hold up neither.  *Node:* two
goroutines are enough for every race between two accesses; three connections
besides the node's own let an inventory, a block and a list of addresses meet;
two starts are one restart; a peer's list of addresses names the peer alone
(`Lists`; that the node asks itself comes from `KnownNodes`, which begins with it);
a chain of one block keeps the node's download of its own chain short, and the
peer's inventory of two leaves one block in transit.  *node_other* needs one
goroutine and one connection: the start alone decides.
*Queue:* two messages make a batch with a rest; two consumers and a single reader
race for it; two faults let a message be received by a third while two old
handles are out.  *Services:* one call may be of any method with any header, the
second is there for a shutdown to wait for.

**Left out of the properties.**  Some consequences of the code are visible in the
models without a run of their own:

* A process killed between `MineBlock` and `Update` (main.go:247-248) leaves the
  outputs it spent on offer, and the payment's outputs missing, until a
  `reindexutxo`.  `SupplyConserved`, `IndexIsUnspent` and `BalanceIsUnspent` therefore
  speak of histories without a kill.  When the same payment is sent again it may get the
  same id, a later rebuild appends the outputs of both to one entry, and
  `SignTransaction` indexes past the outputs of the one it finds:
  `SelectedIsSignable` speaks of chains that were never rebuilt or have no id
  twice (`NoRepeat`), `SupplyNotInflated` of those never rebuilt.
* A kill in `createblockchain` before the genesis block is committed leaves a
  database that no command can use and `createblockchain` refuses to replace
  (chain.go:169).
* `SupplyConserved` fails with payments to oneself: when one transaction spends
  outputs 0 and 1 of the same transaction, `Update` removes position 0 and then
  looks for position 1 in the shortened list (utxo.go:94-97), so one of the spent
  outputs stays.
* Of two overlapping `createwallet` processes the later write drops the wallet
  the other has reported (wallets.go:24), and `main.go` drops the error of
  `SaveFile`, so an address may be printed whose key was not saved.
  `WholeOrBroken` excludes both.
* A tree of four transactions has no root: `CreateBlock` panics.  No command
  builds such a block; the node's `MineTx`, which cannot be reached, would.
* A consumer of the topic that lost the partition while it retried a message no
  handler accepts, and has it again, goes on retrying: handled messages before it
  stay uncommitted until it is restarted, which is why `Drained` asks for
  `committed = written` only when there is no such message.
* In the node, two blocks handled at once may slice an empty list and two
  transactions at once may trip the map; either ends the process, which is why
  `NoRaceNoPanic` and `InTransitIsWanted` speak of connections one at a time.  Two
  handlers that write `KnownNodes` at once lose what one of them wrote
  (network.go:164, 186): nodes that were told of are not asked, which no
  property excludes.
* `SendData` drops whatever address it cannot dial (network.go:157-164), the
  node's own too.  Such a node is no longer the first it knows: `HandleTx` announces
  nothing any more, and panics once the list is empty (network.go:302).
  `FirstIsSelf` and `NoRaceNoPanic` speak of nodes that never failed to reach
  themselves (`cutOff`).
* When `startServers` fails after the gRPC server was started, `RunServers` closes
  writers, driver, redis and cluster under it (run_servers.go:90-92).
  `ResourcesOutliveUsers` leaves out exactly this closing (`NotWaited`).
* A constructor that fails in `initCronResources` leaves what was opened before it
  open (run_crons.go:80); the process ends with an error right after.
  `SuccessIsClean` is about programs that report success.
* A stream of Health/Watch or of the reflection lasts as long as its client likes, and
  `GracefulStop` waits for it without a timeout (run_servers.go:165).  It is a second
  way, besides a timeout of `Shutdown`, in which an interrupted server does not
  stop; `Stops` excludes both (`Held`, a failed stopper) and says there is no third.

**Fairness.** These runs use a fair specification.

* `ledger_reindex`, for `CommandEnds`: `WF_vars(Step)`, the process of the command
  under way goes on running.  There is no lock to wait for and no other process,
  so weak fairness is what the operating system gives.  Kills and the start of
  commands are not fair.
* `topic_delivery`: `WF_vars(Consumer(p))`, a running process runs;
  `WF_vars(Assign(p))` and `WF_vars(SendCommit(p))`, the topic hands out a free
  partition and takes commits; `SF_vars(HandlerSucceeds(p))`, a handler which is
  called again and again with a message it can accept accepts it: strong, because
  every failed call takes the process to the wait between two tries.  It is an
  assumption about the service behind the handler, and says nothing of a message
  in `Poison`.  Starts, signals, kills, lost sessions and read errors are not
  fair: `Drains` holds of the behaviours in which some process stays up.
* `node_central`, for `GoesQuiet` (and `node_other`, whose property is about single
  steps and needs none): weak fairness of every goroutine and of the
  accept loop for the node's own connections.  Peers, the user and failures owe
  nothing.
* `queue_deliveries`: weak fairness of the processes and of time (`Appear`,
  `Expire`); strong fairness of some consumer receiving a message that is offered
  again and again, as several messages compete for a batch.  Nobody has to begin
  or end a transaction, and no failure has to happen.
* `services_programs`, `services_interrupted`: weak fairness of the main
  goroutine, the listeners, consumers and stoppers (`Forward`), of a job that is
  running (`TickEnds`), and of the server and the services (`Progress`); strong
  fairness of `CronStops`, as a `select` with two ready cases takes each at times.
  `GracefulStop` has no timeout in the code, so that services answer is needed for
  `Stops`.  Clients, signals and failures owe nothing; that no client keeps a stream
  open for ever is a hypothesis of `Stops` itself (`[]<>~Held`), not a fairness.

`CHECK_DEADLOCK FALSE` is set where the system really stops: every process of
`WalletFile` has ended, every block of `Block` is mined, every consumer of
`TopicConsumer` is down and the starts are used up, the same for the node, every
consumer of the queue is told to stop and no message moves, the program of
`Services` has exited.

## 4. Proofs

`LedgerProofs` proves, for any addresses, payments, ids, hashes, batch size and
bounds:

* `LedgerInvariant`: `Spec => []IInv`.
* `ChainIsLinked`: `lastHash` is the newest of one block per height, linked down
  to a genesis block.
* `NoBlockIsOrphan`: the iterator reaches every block ever stored.
* `IndexIsOnChain`: every key of the index is the id of a transaction on the
  chain, also while it is half deleted or half rebuilt, after any kill.
* `UpdateAlwaysFindsInputs`: `Update` cannot panic on a missing key.
* `SelectionIsSignable`: what a payment may select, `SignTransaction` can look up,
  in an index that was never rebuilt or of a chain that has no id twice.  A rebuild
  of a chain with a payment that was killed and sent again is not covered.
* `FindUTXOFindsUnspent`: the walk of `FindUTXO` ends with exactly the outputs no
  later block spends, after any kill, also with an id that is twice on the chain.

and, for payments of positive amounts (`Positive`),

* `BooksAlwaysBalance`: `Spec => []MoneyInv`.
* `SupplyIsNotInflated`, `SupplyIsConserved`: as long as the index was never rebuilt
  and nobody has paid themselves, no coin appears, whatever is killed and sent
  again, and none is lost while nothing is killed.  In the two cases left out
  the code creates coins.
* `IndexIsAlwaysUnspent`, `BalanceIsAlwaysUnspent`: with no kill, and until an
  output beside another one is spent, the index between commands is what the chain
  has unspent, whether `Update` or `FindUTXO` made it, and `getbalance` its sum.
* `LedgerImplementsBank`: every step is a step of `Bank` or a stutter, if also
  nobody sends to themselves (`ToOthers`) and the index is never rebuilt
  (`MaxReindexes = 0`).

`IInv` is needed because none of these is inductive alone.  It says, besides
the chain being linked, where the ids of each map come from (`utxo` and the
in-memory `txn` only hold ids of stored transactions), that an `update` works on
the newest block with `txn` started from `utxo`, and that the inputs not yet
removed have their key in `txn`.  `NoBlockIsOrphan` needs induction along the
chain; the induction theorems of the library take operators as parameters, so
`Induction` derives a least-number principle once and the proof uses a minimal
counterexample: the highest block the iterator misses.

`SelectionIsSignable` needs `SignInv`: an entry of the index is no longer than
the outputs of its transaction (`IndexFits`).  After a kill a later `Update` may
put an entry there again, which is why this is about lengths and not about what
is spent; in a rebuild it holds because the walk has not met the transactions
that are still before it (`WalkFresh`), as long as no id is there twice, and in
the rebuild that ends `createblockchain` because there is only the genesis block
(`FirstWalk`).

`FindUTXOFindsUnspent` compares the loop with a definition by the chain alone:
an output at a place (`Occurrences`) is unspent if no transaction in a higher block
refers to it, and a sequence lists a set of places if each is at its rank
(`Lists`).  `MetIsListed` is the invariant: of the transactions the iterator has met
(`Met`), `spentTXOs` has all inputs and the map the unspent outputs.  The next one is
older than all that were met, so its outputs come to the end of their list
(`ListsExtend`), and whoever spends them was met before (`SpentIsKnown`).

`IndexIsAlwaysUnspent` needs, besides, that a payment spends outputs of lower
blocks (`SpendsBack`) and `IndexAgrees`: as long as spent outputs were the only ones
of their transactions, an index agrees with the chain if it has, of each
transaction, either all outputs or none (`Leaves`, `LeavesAreListed`); a payment
selected from it gets a new id, since its inputs were not spent before
(`SendAgrees`); and `UpdateLeaves` says what is there at each step of Update, where
an input makes its whole entry go.  `BalanceIsAlwaysUnspent` moves the sum from the
index to the chain (`WorthMoved`).  Without `SpentWhole` both are false, which is the
finding of `ledger_rebuild_differs`.

Money.  `Worth` is a fold, whose value the prover cannot compute by induction; the
section on sums shows from its definition, with a smallest counterexample among
finite sets, that it splits off one reference (`WorthSplit`), adds up over disjoint
sets (`WorthUnion`) and follows a bijection (`WorthMoved`).  From these come the
effects on the money of *any* set of owners of the three things Update does to an
index: `HeldPutOne`, `HeldPutTwo` and `HeldRemoved`, the last of which follows the
positions that shift.  `MoneyInv` then says, until the first rebuild or payment to
oneself: only equal transactions have equal ids (`IdsName`); an entry holds at most
one coin per owner (`Coins`), so the position that Update shifts is never one it
still has to find; a payment whose outputs are or were in the index has taken its
inputs out of it (`SpentOnce`), so a payment that is sent again after a kill and
gets its id again does not overwrite an entry in use; how much of a payment has
moved, at every step of Update (`Updating`); and what all hold together (`Totals`).

The hypotheses are what the theorems need, and what the code leaves open.
`main.go:131` refuses only the amount 0: a negative one selects no input, so two
equal ones have equal ids, and the second replaces an entry that was partly spent.
Payments to oneself and rebuilds break the properties as described in section 3.
TLC has checked `IInv`, `SignInv`, `MoneyInv` and `AgreeInv` too, in the instances of
`ledger_reindex` and `ledger_transfers`.

`WalletFileProofs` proves, for any processes, keys, file lengths and bounds:

* `WalletTypes`: `Spec => []TypeOK`.
* `WalletsWholeOrBroken`: as long as no two processes overlapped and no save
  failed (neither is excluded by the code), a file that parses has every reported wallet, wherever processes were
  killed.
* `BrokenForGood`: a file that cannot be parsed while nobody works on it stays so.

The second needs `Isolated`: at most one process is under way; one that has
loaded holds everything the file has, one that has truncated the file holds
everything that was reported, and a finished or killed one leaves the file whole
or empty.  It holds only until the first overlap or failed save, which is why
`WInv` states it under those conditions and the counters are shown to grow.

`BrokenForGood` is about behaviours, but follows from one fact about steps: while
nobody is at work on a broken file, every `CreateWallet` panics on it and nothing
changes.

`BlockProofs` proves, for any transactions, any bounds and any outcome of the hash
function:

* `BlocksAreSound`: every stored block has the first nonce that hit, and the hash
  of that hit, or every nonce missed.
* `MinedBlocksValidate`: what `Run` found, `Validate` accepts.
* `HashesNameContent`: blocks of one or two transactions, the ones the commands
  build, have the same hash only if they have the same transactions and parent.

`NodeProofs` proves, for any peers, chain, inventories and number of goroutines:

* `NodeIsInOrder`, `NodeTypes`: the inductive invariant and the types.
* `NodeIsFirst`: a node that serves and never failed to dial itself is first in
  `KnownNodes`.
* `AnnouncedIsThere`: a peer that asks for an announced transaction gets it, in
  any interleaving, unless the node was restarted.
* `TransitIsWanted`, `OneByOneNoPanic`: between connections one at a time, the blocks
  in transit are those announced and not asked for; no such connection panics,
  unless the node failed to dial itself before.

`NodeInv` spells out what a goroutine may hold between two accesses to a global
(`ConnOk`) and that a process that is down left nothing behind (`DownIsEmpty`);
`PoolInv` what was announced and is therefore in the pool, or was announced by an
earlier process; `SelfFirst` that the list a goroutine is about to assign to
`KnownNodes` begins with the node too; `InOrder` what holds until two handlers are
under way at once.
The lists are copied by `AllBut`, a recursive function that the lemma `CopySteps`
unrolls.

`TopicProofs` proves, for any processes, messages (accepted by the handler or
not) and bounds:

* `TopicInvariant`: `Spec => []IInv`.
* `NothingIsLost`: what is committed was handled before.
* `FirstTimeInOrder`: no message is handled before every earlier one was.
* `DeliveryIsImplemented`: every step is a step of `Delivery` or a stutter.
* `HandledOnceIfNothingFails`: without a kill or a lost session nothing is accepted
  twice, whatever is interrupted and started again.

`CommittedIsHandled` is not inductive: it depends on what is buffered, on what
was read behind the committed offset, and on messages from sessions long gone.
`IInv` says so: everything the current session went past was handled, but for
the message in the holder's hand (`SessionContiguous`); only the holder has a
message of the current session, the last one (`FreshIsLast`); a buffered commit
is the holder's, ahead of the committed offset, and of handled messages
(`PendingHandled`); and whatever message a process has in its hand, however old,
everything before it was handled (`HandIsNext`).  `Kept` is what holds until the
first kill or loss: who has a message has read it in the session it still has
(`InHandIsFresh`), and what was accepted is committed, buffered or about to be, by
the one who has the partition (`AcceptedIsKept`); so a message that is given to
the handler is new to it (`HandIsNew`).

`QueueProofs` proves, for any messages, consumers, single readers, batch size and
bounds:

* `QueueTypes`: `Spec => []TypeOK`.
* `QueueIsImplemented`: every step is a step of `WorkQueue` or a stutter, that is,
  a message goes only after `CheckProduct` accepted it, whichever receipt handle
  is used and whatever times out.
* `HandledOnceWithoutFaults`, `ShutdownLeavesNothing`: without a failed call, a
  death or a timeout that hits a consumer at work, a message is handled once, and
  a consumer that stopped holds none back.

`PromiseInv` is what makes it inductive: a transaction that did nothing has sent
nothing (`Unsent`), what is in a batch was sent (`BatchesSent`), what is about to
be deleted was handled (`DeletesHandled`), and a message was handled at most
after it was sent and at least before it is gone (`HandledBetween`).  `Held` is
what holds until the first fault: whoever has a message in its batch has the
newest handle of it (`InHand`), batches repeat nothing (`Apart`), a handled message
is gone or about to be deleted (`HandledOnce`), and a consumer has no handle but
of its batch (`Kept`).

`ServicesProofs` proves, for any programs, calls and the methods they use:

* `ServicesTypes`: `Spec => []TypeOK`.
* `NoServiceWithoutRole`: a handler reaches its service only for a user with the
  role, for every method, header and path.
* `OnlyUnsetCrashes`: the only panics that end a process are the two of
  `CrashesOnlyUnset`.
* `SuccessMeansClean`: a program that reports success has closed everything.
* `ResourcesAreThere`: handlers, consumers and jobs have what they work with, in
  setup, shutdown and the closing after `g.Wait`; the closing of a server whose setup
  failed with the gRPC server running is not covered.

`LifecycleInv` says, per stage, what is open: during the setup exactly what the
constructors called so far opened (`OpenedSoFar`) and only early tasks are running
(`SetupIsQuiet`); closing begins after the goroutines ended, unless startServers
failed (`CloseIsWaited`); the driver goes after what hangs on it (`DriverLast`); a
stopper that is past its wait was woken by the context (`StopperIsWoken`); and a
program that reports success had every task done (`OkIsDone`).  `CallsInv` adds
that calls are with the server only while it runs, and that a stopped server has
none (`CallsAreServed`).

and of the answers of these calls:

* `AcceptedRequestsAreServed`: no request that the HTTP server accepted is cut off
  by the shutdown, and it finds no gRPC server only before that listens, or when
  it could not.
* `UnknownErrorsStayInside`: the words of an unknown error of a service leave only
  through `ListDeliveries`.

Both are action properties.  `GatewayInv` is what they need: the gateway's
connection is there once it was constructed, until the stopper closes it
(`ConnIsThere`); the gRPC server is started before the HTTP server (`StartOrder`)
and serves until the stopper is done (`GRPCServes`); who is connected has met the
HTTP server (`Connected`); only an answer has a code (`Unanswered`).  With
`CallsAreServed`, a stopper that closes the connection has seen every accepted
request answered, so `CutOff` cuts nobody (`CutOffCutsNobody`).

The assumptions are `NoTxAssumption`, `LedgerAssumption`, `WalletAssumption`,
`TopicAssumption`, `QueueAssumption`, `ProgramsAssumption`, `UsesAssumption`,
`BlockAssumption` and `NodeAssumption`; TLC evaluates them in the runs.  The
hypotheses `Positive`, `ToOthers` and `MaxReindexes = 0` are stated in the theorems
that need them.  The
types of these modules are proved and are therefore no property of a run.

Only model-checked: all liveness (`CommandEnds`, `StopsOnSignal`, `Drains`,
`GoesQuiet`, `CancelStops`, `Stops`), which is out of the prover's reach.  Every
other property of the runs that pass is stated by a theorem.

## 5. What is not modelled

* Signature arithmetic, base58 and checksums, gob and JSON encodings: pure
  functions over data no property distinguishes.  Of signatures the two lookups
  that can panic are modelled.
* The retry of `openDB`, which removes a stale `LOCK` file and opens again: the
  lock the badger version in `go.mod` takes is on the directory, and its error
  does not name the file, so the condition of the retry does not hold.  A second
  process panics in `openDB` before it reads anything.
* A torn or lost badger commit, disk full, and badger's own recovery after a
  kill (value log truncation).
* Negative amounts in the instances for TLC: `main.go:131` refuses only zero.
  `Ledger` takes them, the theorems about money exclude them.
* `MineTx`, and the rest of `HandleVersion` behind `GetBestHeight`: they cannot be
  reached.  `StartServer` never stores the miner's address, and the key `lh` does
  not exist.
* `ReadAndProcessMessageFromYDB`: only tests of the readers call it.  It commits
  in a defer, also when the body could not be read or parsed.
* `RunWithRetry`: a loop of a library around one call.  The backoff is built
  without the caller's context, so a caller that gave up is still retried.
* `cmd/migrator`: one call of goose, which keeps the version in the database.
* The calls to the image store, whose client creates its bucket if it was not
  there a moment ago (two servers that start at once may both try), the traces
  exporter, logging, Sentry, and the parsing of configuration values.
* The choice of a postgres node, the redis and YDB clients beyond opening and
  closing them: libraries.
* The order, user, product and delivery services and repositories: not in the
  repository.  They appear as an environment.
* Of the topic consumer: several partitions (each has its own offset and session,
  and the loop handles one message at a time), and the effect of a handler call
  that fails half way.
* Lost replies of the SQS calls: a failed `ReceiveMessage` or `DeleteMessage` has no
  effect in `ProductQueue`.  A receive or a delete that took effect unnoticed
  leaves the queue where a kill right after it does, or a visibility timeout, which are modelled.
* The reconnect of the gateway's client connection: `Invoke` finds the gRPC server
  as soon as it listens; the connection may report the earlier failure for a
  moment longer.  The answer `Unavailable` is possible before that anyway.
* Requests to pprof, a profile that is under way excepted; trailing slashes,
  swagger, the contents of requests and answers.

## 6. Plan

1. Proofs: how far index and chain can be apart after a kill (the blocks whose
   `Update` is missing), which the next rebuild settles.
2. A second node in `Node`, once a node that is not the central one gets past
   `SendVersion`; as the code stands it does not.
3. The order pipeline (cron, topic, delivery consumer) composed from `Lifecycle`
   and `TopicConsumer`, when its services are in the repository.
4. `RunWithRetry` against the context of its caller.
