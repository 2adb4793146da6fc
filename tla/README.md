# Formal models of teleport-data-analytics

The service reads the cross-chain packets of a set of chains (EVM chains, the
Teleport chain, Tendermint chains), keeps them in a MySQL database, derives
metrics from them and reconciles the bridges' balances. This directory holds
TLA+ models of it, TLC runs over small instances and TLAPS proofs.

    tlc -config MCSyncHeight.cfg MCSyncHeight
    tlc -config MCPacketTable.cfg MCPacketTable
    tlc -config MCBridgeMetrics.cfg MCBridgeMetrics
    tlc -config MCBlockFetch.cfg MCBlockFetch
    tlc -config MCGlobalUsers.cfg MCGlobalUsers
    tlc -config MCReconcile.cfg MCReconcile
    tlc -config MCService.cfg MCService
    (and with the other MC<module>_*.cfg: section 3)
    tlapm SyncHeightProofs.tla      (and PacketTableProofs, BridgeMetricsProofs,
                                     BlockFetchProofs, GlobalUsersProofs,
                                     ReconcileProofs, ServiceProofs,
                                     InductionLemmas)

## 1. The system

### Components

| Component | Code | State | Operations |
|---|---|---|---|
| Packet pool | `jobs/packet/packet.go` | `sync_states` (one cursor per chain), `cross_chain_transactions` (one row per packet), `single_direction_bridge_metrics`, `tokens`, `global_metrics` | `SyncToDB` (boot), `syncToDB` (one tick of a chain's job), `saveCrossChainPacketsByHeight`, `saveToDB`, `InitSingleDirectionBridgeMetrics`, `UpdateMetrics`, `insertGlobalMetrics`, `reconcile` |
| EVM client | `chains/evm.go` | gas price cache | `GetLatestHeight`, `GetPackets` (three log queries over the range), `GetPacketFee` |
| Teleport client | `chains/teleport.go`, `chains/tendermint.go` | none | `GetPackets` (one goroutine per block), `GetBlockPackets` |
| Bridges | `jobs/bridges/*.go` | maps built once by `NewBridge` | `GetTokenNameByAddress`, `GetBridgeTokenDecimals`, `Reconcile`, `getSumAmount` |
| Reference data | `jobs/datas/*.go`, `types/*.go`, `tools/http.go` | package variables `ChainList`, `CounterpartyChains`, `Bridges`, `BridgeNameAdjList` | `LoadState`, `ReloadState`, `syncDatas`, the documents' `UnmarshalJSON` |
| Start | `jobs/jobs.go`, `cmd/cmd.go` | none | `NewPacketService`, `Run` |
| Monitoring | `jobs/monitoring/*.go`, `metrics/metrics.go` | gauges | three jobs, every 30 seconds |
| Token queries | `chains/token.go` | cached decimals | contract calls |
| Rest | `cmd`, `config`, `repo`, `tools`, `version`, `types`, `chains/contracts` | none | start-up, conversions, generated code |

### How they interact

`cmd.Run` builds everything, places each chain's cursor (`SyncToDB`) and starts
the scheduler. From then on every chain has a job, at most one at a time
(`SingletonMode`), and the jobs of different chains run concurrently in one
process. They share nothing in memory but the bridges' maps; they meet in the
database. A packet has ONE row, and its source chain's job (the send, later the
refund) and its destination chain's job (the acknowledgement) both write it, in
whatever order they reach the blocks. A job's tick is:

1. read the cursor and the chain's height, choose a range (`syncToDB`);
2. fetch the range's packets (`GetPackets`);
3. look each packet up in the table, outside any transaction, to find out
   whether its token is known, and skip it if not;
4. store the rest and the new cursor in one transaction (`saveToDB`);
5. outside of that transaction: metrics, then reconciliation.

Any error returns; the recover in the job's closure catches a panic; the next
tick starts over from the stored cursor. Reference data is replaced by a
scheduler of its own while the jobs run.

### What is hard about it, and what makes it correct

| Component | Hard | Correct when |
|---|---|---|
| Cursor | crash or failure between reading and committing; a chain shorter than a batch and unsigned arithmetic; a configured cursor at every boot | each block is stored exactly once, one block behind the head, and the cursor catches up |
| Packet table | two jobs on one row: insert against insert, update from a stale snapshot, a look-up that precedes the other job's commit; a refund before its acknowledgement; old blocks read again | nothing below a cursor is missing, nothing is invented, later writes keep earlier columns, the status fits the heights |
| Bridge metrics | check-then-fill by two jobs; commit first, count later; an update through a second connection under the first one's lock | filled once; an amount is counted at most once; failed packets are counted |
| Global metrics | written outside the transaction; read-then-insert by several jobs; a look-up that sees the transaction's own writes | the number of users never exceeds the senders; in the end it should be their number |
| Clients | goroutines sharing an error variable; a deadline; errors that drop transactions or events; a panic | all blocks of a range, or an error; the call ends |
| Reconciliation | sums read from a table that changes, for a cut through two chains; decimals; failures after the commit | the sums are the packets in flight at the cut, and the result says whether something is missing |
| Reference data | four requests and four variables, one by one; documents that are cut; a copy that is never refreshed | readers can use what they combine, and a failing reload takes nothing away |

PROJECT.json lists the hazards line by line, with the properties that cover
them.

## 2. The modules

### SyncHeight: one chain's cursor

The abstract view of a job: packets do not appear, a block is its number.
`height` is the row of `sync_states` (0: no row yet), `head` the chain's latest
height, `stage/from/to/next/got` the locals of a running `syncToDB`, and
`synced`, `base` are history: which blocks have been stored since the cursor was
last placed by configuration, and where. Actions:

| Action | Code |
|---|---|
| `Boot` | `SyncToDB`: RevisedHeight at every boot, StartHeight when there is no cursor (a 0 is stored as the column's default, 1) |
| `ChooseRange`, `TickTooEarly` | `syncToDB` up to `saveCrossChainPacketsByHeight`, and its early return |
| `GetPackets` | the client; `RejectsFuture` tells Teleport (a block query beyond the head fails) from EVM (a log query answers with what there is) |
| `SaveToDB` | the commit of packets and cursor |
| `JobFails` | any error return, or the recover |
| `Crash` | the process dies; the database rolls back |
| `Grow` | the chain |

Subtraction is `Minus`, unsigned arithmetic modulo `Word` (2^64 in the code, a
small number for TLC), because packet.go:144 depends on it.

### PacketTable: the rows, written by the jobs of all chains

Chains are sequences of events (send, ack, received ack), one event at most per
block. A row keeps what tells the events apart: whether it has a token name and an
amount, its status, and the heights of send, ack and refund (0: not set, as in
the code). `job[c]` holds the locals of chain c's job: its range, the fetched
events still to be looked up (`todo`, a set; `Before` is the order in which the
groups hold them, and `First` the next one), the records to store (`batch`) and
the snapshot of its transaction.

| Action | Code |
|---|---|
| `Boot`, `ChooseRange`, `TickTooEarly` | as above, for every chain at once resp. for one |
| `Fetch` | `GetPackets`: EVM returns one group for the range, Teleport one per block; a group is sends, acks, received acks. The Teleport client may leave out the events of some blocks without an error (`MayGoUnread`); `unread`, a history variable, keeps those blocks |
| `ReadRow` | one round of the loops of `saveCrossChainPacketsByHeight`: the look-up outside the transaction, the skip, the record |
| `Panic` | the nil dereference of packet.go:211/214, caught by the recover |
| `BeginTx` | the transaction's first read, which fixes its snapshot |
| `Commit` | the transaction's writes, computed from the snapshot, applied to the table, with the cursor |
| `DuplicateKey` | the unique index refuses an INSERT; rollback |
| `JobFails`, `Crash` | as above |

MySQL runs at its default level, REPEATABLE READ: a plain SELECT reads the
snapshot, an UPDATE or INSERT works on the committed row and holds its lock to
the end. Hence the writes of two transactions on the same row are ordered by
their commits, and `Commit` may apply all writes of a transaction at once. A
deadlock between two transactions is one of the failures of `JobFails`.

PacketTable implements SyncHeight for every chain (`ImplementsSyncHeight`):
`Cursor(c)` is SyncHeight with the variables of chain c's job substituted, and
`synced` as the interval from `base` to the cursor.

### BridgeMetrics: counting what has been stored

EXTENDS PacketTable: a job's tick goes on, after its commit, with counting its
records. `metrics` is the table `single_direction_bridge_metrics` in the order
of its ids, a row holding its two counters and the value of its tokens (table
`tokens`), split into what went to the token's name and what to the empty name;
`counting[c]` is the rest of the tick of chain c's job.

| Action | Code |
|---|---|
| `StoreThenCount` | `saveToDB` returned, `InitSingleDirectionBridgeMetrics` is entered |
| `AskMetrics` | `Last`: is the table empty? (packet.go:684) |
| `BeginFill`, `Fill` | the transaction that fills it: first read, commit |
| `BeginUpdate`, `Update` | `UpdateMetrics`: first read, commit |
| `UpdateWaits` | a failed packet: `failed_amt` is updated through `p.DB` while the transaction holds the row (packet.go:918, 926) |
| `LockWaitTimeout` | InnoDB ends the wait after 50 seconds; the transaction is rolled back |
| `MetricsFail` | a query of the metrics fails |
| `MCrash` | the process dies |

A job that waits for its own lock also holds up the updates of other jobs on the
same row (`Unlocked`).

### BlockFetch: what one call of GetPackets returns

PacketTable's `Fetch` takes `GetPackets` as one step. BlockFetch opens it for the
Teleport client: `worker[h]` is the goroutine of block h, which queries the block
and then its transactions, first for XIBC events under one deadline of 60
seconds (`Expire`), then for IBC events without a deadline; `packets`, `anyErr`
and `pending` are the variables the goroutines share (`anyErr` is an interface,
hence two words and two steps, `SetAnyErr`); `caller` is the job. What the
blocks hold is chosen at the start; an event's `data` says what becomes of it
(a record, left out, unparsable, malformed, not JSON).

| Action | Code |
|---|---|
| `Call`, `Return` | `GetPackets` up to the `go` statements; after `wg.Wait` |
| `GetBlock`, `GetBlockFails` | `GetBlockByHeight`, of either client |
| `GetTx` | a transaction is read and its events become records, an error, or a panic, which nothing in the goroutine recovers |
| `GetTxFails` | the query fails: `continue` (teleport.go:196) |
| `Expire` | the deadline passes |
| `EndHalf`, `Store`, `SetAnyErr`, `Leave` | the rest of the goroutine |
| `TornErrorKills` | the error was put together from two goroutines' words; printing it kills the process |
| `Restart` | the supervisor |

### GlobalUsers: the number of users

The rest of `saveToDB`'s transaction: the senders of the batch are looked up,
and those not found are added to the last row of `global_metrics`. Of a packet's
row only the `sender` is kept (`NoSender` for a row that an acknowledgement or a
refund created), of `global_metrics` its last row, `users`. A job's stages are
those of one call of `saveToDB`; what its transaction sees is its snapshot and
its own writes (`View`), and rows it has written are locked for others until its
end (`Locked`). `global_metrics` is read and inserted through `p.DB`, another
connection: `ReadLast`, `ReadAgain`, `CountSenders` see what is committed, and
`Insert` stays although the transaction is rolled back, so that the retry adds
again what the failed attempt has added. `NeverOvercounts` says how far that can
go: one for each acknowledgement or refund that its job has committed
(`SenderlessPassed`) or is about to commit (`SenderlessLeft`), and one for each
outside fault (`failures`).

| Action | Code |
|---|---|
| `Take` | the blocks are fetched and the records made, with the skip of EVM acknowledgements |
| `Begin`, `Write`, `DuplicateKey` | the transaction's first read; its writes; the unique index refuses one |
| `ReadLast` | the look-up of the senders, then `insertGlobalMetrics` finds a last row |
| `ReadNone`, `ReadAgain`, `CountSenders` | it finds none; `initGlobalMetrics` asks again, then counts the distinct senders |
| `Insert` | the new row, of either function |
| `Commit`, `Fail` | rows and cursor; a failing call or the death of the process |

### Reconcile: two sums and two balances

For an acknowledgement that Teleport wrote, `reconcile` compares the amounts of
the token on both chains at the packet's two heights, its cut, corrected by what
is in flight there according to the packet table. One bridge and one token are
modelled; `A` is Teleport, `B` the EVM chain; a chain is the block number of
each event, and the table a reduced PacketTable: the three heights and the status,
written from snapshots by a job for each chain. `queue` holds the acknowledgements of
Teleport's last batch, `cur` the one at work, with its cut and the sums read so
far; `result` the sums that were written to its row.

| Action | Code |
|---|---|
| `Mine`, `Send`, `Ack`, `GiveBack` | the chains |
| `BeginTx`, `Commit`, `DuplicateKey`, `TxFails` | `saveToDB`; `Commit` hands Teleport's acknowledgements on |
| `ReadRow` | the row is read again; nothing to do when its send is not there |
| `SumA`, `SumB` | `getSumAmount`, two queries at two moments |
| `WriteResult` | the two balances, the difference, and `Updates` of the row |
| `Finish`, `ReconcileFails` | the end of the loop; an error or the death of the process |

`ReconcileFails` stands for one cause that is no outside fault, too: a batch with a
failed or refunded record makes `UpdateMetrics` fail every time (packet.go:382,
926; `metrics_failed`), and its reconciliation is skipped with it. Reconcile does
not count metrics, so that this is one of its MaxFailures.

The balances are functions of the chains at the cut's heights (the calls name
the block), so `TeleportAmount`, `OtherAmount` and `Difference` are operators,
evaluated for a token of either kind and for a unit lost at any block. The
difference is kept an integer by scaling it with the decimals; `Word` is 256 in the
code (uint8 at reconciliation.go:111).

### Service: the start and its reference data

`NewPacketService` and `LoadState`. `load[l]` is a load under way: its answers
(`docs`), in the order of the requests, each of the version the repository
published at that moment and with its body whole, with an entry that lacks a
required field, or without its list; then the assignments, one action each. `phase`
is how far the start has come; `manager` what `NewBridge` has copied; `fill`
is `InitSingleDirectionBridgeMetrics`, which reads `BridgeNameAdjList` at its
beginning and `Bridges` once per direction. `bare`, a history variable, tells
whether a load has published a bridge document without bridges.

| Action | Code |
|---|---|
| `BeginLoad`, `GetWhole`, `GetPartial`, `GetNone`, `RequestFails` | `LoadState`, `syncDatas`, `HttpGet` |
| `Refuse`, `LoadFails` | a document is refused or panics: the first load ends the start, a later one is logged or recovered |
| `SetChainList`, `SetCounterparties`, `SetBridges`, `SetAdjList` | datas.go:229-232 |
| `Connect`, `ClientFails` | the clients and the database |
| `Assemble`, `ManagerFails` | `NewBridge`; a token that cannot be queried panics |
| `TakeAdjList`, `FillDirection`, `CommitFill`, `FillFails` | the job that fills the bridge metrics |
| `Publish`, `Restart` | the repository of the lists; the supervisor |

The documents fail in different ways, which `Refused`, `Panics` and `Held` keep
apart: EVM chains and tokens are refused without their list, a cosmos document
without chains and a bridge document without bridges are taken as empty, and a
bridge that lacks a field panics (types/bridges.go:158). A name stands for one
chain id (`ChainMap`); Teleport has two, one per client, and only its EVM id is
found under its name. Hence the metrics of an IBC bridge are always filled
without tokens, and `FilledWithTokens` is about bridges between EVM chains.

### The proof modules

SyncHeightProofs, PacketTableProofs, BridgeMetricsProofs, BlockFetchProofs,
GlobalUsersProofs, ReconcileProofs and ServiceProofs hold the proofs about the
module they are named after; InductionLemmas holds what several of them use; see
section 4.

### How the modules fit together

`PacketTable` implements `SyncHeight`; `BridgeMetrics` extends `PacketTable`;
`BlockFetch` justifies the `Fetch` step of `PacketTable`: all blocks or an error,
but a block may come without the events that a failing `GetTx`, a second log or
an unparsable event hides, which is `MayGoUnread`. `GlobalUsers` and `Reconcile`
assume that a range is returned whole or fails.
`GlobalUsers` and `Reconcile` look at the same transaction of `saveToDB` as
PacketTable, each with the columns it is about, and with what comes after it:
`Reconcile`'s `AckSkipped` and `RefundHidden` are the two states of a row that
PacketTable's `ReceivedNotPending` and `StatusFitsHeights` describe. `Service`
gives the other modules their constants: `Listed` and `Unbridged` of
PacketTable are what its manager names, `BridgeNameAdjList` of BridgeMetrics is
its variable.

### The plan from here

`Monitoring`: the pending gauge over PacketTable, if it is worth a module: nothing
reads it back.

## 3. The runs

| Run | Question | Result |
|---|---|---|
| `cursor` | An EVM chain, batch 3, first seen at height 4, growing to 11, two crashes, any number of failures, configured cursors 2 and 6 at any boot | each block stored exactly once, one block behind the head, and the cursor catches up |
| `table` | a packet each way between bsc and teleport, the latter of a token without a bridge, so that teleport's job panics on every run; teleport's client passes over any events; one crash, one failure; fair scheduling | `NothingMissed`, `NothingInvented`, `StatusFitsHeights`; each job implements SyncHeight; the refunds of bsc still arrive |
| `table_evm_ack` | an ack on an EVM chain | VIOLATION of `ReceivedNotPending` |
| `metrics` | metrics filled in advance, one failure, one crash, the cursor taken back to 2 at any boot | an amount is counted at most once; no column is wiped |
| `metrics_live` | the jobs fill the metrics themselves, fair scheduling | a direction has at most a row per job; acknowledgements settle and refunds arrive, although their jobs wait for their own locks |
| `metrics_failed` | nothing fails, nothing dies | VIOLATION of `FailedIsCounted` |
| `users` | a packet each way, one of them refunded, two failures | the number of users exceeds the senders in the table by at most one per acknowledgement and refund and one per fault |
| `users_count` | the same, all events stored | VIOLATION of `UserAmtIsSenders` |
| `reconcile` | a packet from Teleport, which may fail and be given back, two to it, three blocks on each chain, one failure | the sums are what is in flight, the result tells a loss from none on clean cuts, and no acknowledgement is forgotten |
| `reconcile_decimals` | the same, with different decimals | VIOLATION of `DecimalsConverted` |
| `service` | two versions of the lists, with EVM and IBC bridges; two failures of any kind, at any point; any document may come cut or without its list; fair loads | `TokensHaveAddresses`, `FilledWithTokens`, `ManagedIsOffered`, `BridgesStay`, `CatchesUp` |
| `fetch` | two blocks, each with one of six contents, all 36 combinations | a result is complete, an error is reported exactly if a block failed, and the call ends |

Bounds. Word = 64 is larger than any height, which is what matters of 2^64. In
`cursor`, MaxHead - FirstHead = 7 leaves room for two whole batches and for the
head's short ranges, and FirstHead = 4 is the shortest chain on which the
subtraction does not wrap around (item 5 below says what happens on a shorter
one). In the table runs the events of one packet
need three blocks on two chains and the batch of one block makes a job need
several ticks, so that every order of the two jobs occurs, as well as ranges
that hold a send and its refund. Crashes and outside failures are bounded
(MaxCrashes, MaxFailures); a rollback by the unique index or a panic is not an
outside failure and is not bounded, nor is what the Teleport client passes
over. `table` starts reading at block 3, the first that can hold an event. The
last block of a bounded chain is left empty, since the jobs stay one block behind the head. `fetch` needs two
goroutines for the races and for a block stored in the wrong place; its contents
hold every kind of event and of data, a block of two transactions, and a
transaction of two logs. `users` needs two failures to roll a transaction back
after each of two inserts, and a packet that is acknowledged before it is sent.
`reconcile` needs a third packet besides the acknowledged one for each direction
to be in flight, given back, or received at a cut; three blocks separate send,
acknowledgement and refund, and the last one is still open. Its amounts have
base 2 instead of 10, which only makes the numbers smaller. `service` needs two
versions for a load that spans a publication, and a token and a bridge that the
first version lacks; a third version or chain would repeat the second. A load is
alone there (`Loaders`): a period shorter than the four timeouts of 45 seconds
lets two loads overlap, and then, as TLC shows with two loaders, the one that began
first may end last and put older lists back, against `BridgesStay`.

`StatusFitsHeights` is claimed for blocks that are read once: after a
RevisedHeight a send that is stored again by a transaction that overlaps the
acknowledgement's writes status Pending over it, until the acknowledgement's
block is read again too. `ValueAtMostOnce` is claimed for metrics filled before
the start: a job that fills them from a table that already holds another job's
batch counts it, and the other job counts it again. `NeverOvercounts` is about
what one row says; which of two overlapping additions is lost is left open, and
`UserAmtIsSenders` shows that something is. `NothingMissed`, `AckedSettles` and
`RefundArrives` speak of what the clients return (`Taken`, `PassedOver`): an
event that the Teleport client passes over is never read again (item 6 below).
`ResultTellsLoss` is claimed for clean cuts: a cut through two chains' blocks can have a packet received before it
is sent, and nothing in the code keeps Teleport from comparing there; a skipped
acknowledgement or a hidden refund likewise makes the sums wrong. `BridgesStay` holds for whatever a
load is answered and names its two exceptions (`LacksListOf`): a bridge document
without bridges, which is accepted as empty and takes all of them away, and a
cosmos document without chains, which takes those between cosmos chains away.
`FilledWithTokens` and `ManagedIsOffered` are claimed as long as no load has had a
bridge document without bridges (`bare`; item 7 below); `CatchesUp` holds
anyway, since a later load brings the bridges back.

Fairness. Chains keep producing blocks; a dead process is restarted by its
supervisor; gocron runs every job again and again (`ChooseRange`, and in
PacketTable every step of a job, weakly fair). In SyncHeight a call may fail
any number of times but not for ever, hence strong fairness of `GetPackets` and
`SaveToDB`, the two steps that a failure competes with. In BridgeMetrics
counting is part of the job, and a lock wait ends by InnoDB's timeout. In
BlockFetch the goroutines run (`Runs`); the node need not answer XIBC queries,
since their deadline passes, but it has to answer IBC queries (`NodeAnswers`),
which have none. In Service the scheduler keeps starting loads, and a load's
steps end, since a request has a timeout (tools/http.go:24); nothing is assumed of
the start or the jobs. GlobalUsers and Reconcile state no liveness.

### Disagreements between the code and what it says

1. `table_evm_ack`: acknowledgements of EVM chains carry no token address
   (evm.go:533-539). If the job of the destination chain comes first, the
   packet is skipped and stays pending.
2. `metrics_failed`: counting a failed packet updates `failed_amt` through a
   second connection while the transaction of the first holds the lock on the
   row (packet.go:918, 926). The job waits for itself until the lock wait times
   out; the error rolls the transaction back, the cursor has long been
   committed, and the batch is never counted. The comment says "if tx is failed
   then failed_amt +1" (packet.go:923).
3. `users_count`: the senders are looked up after the same transaction has
   written their rows (packet.go:553-597), so that none but the empty sender is
   ever not found: new users are missed once `global_metrics` has a row, and the
   empty sender of an acknowledgement can be counted. The first row is the count of
   "distinct sender ... where length(sender)>0" (packet.go:805).
4. `reconcile_decimals`: the table's amounts are in Teleport's decimals already
   (packet.go:244-252); Reconcile scales both sums by the difference of the
   decimals (reconciliation.go:94-96, "decimals convert").

Five more are seen with these models, and have no run of their own:

5. While a chain has no more than `batchNumber` blocks the unsigned difference at
   packet.go:144 wraps around, the range of a whole batch is chosen, an EVM node
   answers with the logs it has, and the cursor lands beyond the head, though the
   comment above says "delay 1 block". With FirstHead = 2 in MCSyncHeight.cfg TLC
   finds `DelaysOneBlock` violated.
6. A failing `GetTx`, also by the deadline, is logged and skipped
   (teleport.go:196-198, tendermint.go:142) while the cursor moves on. An
   acknowledgement in the transaction is never stored and its packet stays
   pending, among the "unReceived" ones (bridges.go:147-150): with Packets = Listed = {in}
   in MCPacketTable_EvmAck.cfg TLC finds `ReceivedNotPending` violated.
7. A bridge document without bridges is accepted as empty
   (types/bridges.go:135), although its schema requires them
   (bridgelist.schema.json:13-15), and a load then replaces `Bridges` by nothing.
   `BridgesStay` excepts it; without its first disjunct in `LacksListOf` TLC
   finds it violated.
8. In `table` a refunded row can have status Fail (`StatusFitsHeights` allows
   it): packet.go:572 compares with the row the transaction has READ, not with
   the one that a refund committed since has made. The sum of unreceived packets
   (bridges.go:147-154) then contains the refunded packet for ever;
   `RefundHidden` of Reconcile is this state.
9. In `metrics_live` a direction can have two rows, one per job
   (`FilledOncePerJob` allows it): the check for an empty table (packet.go:684) is
   not part of the transaction that fills it, and no index makes a direction
   unique. Later updates find the first of them only.

## 4. The proofs

SyncHeightProofs proves, for every batch size, start height, set of configured
heights, word size, growth and number of crashes:

| Theorem | Statement |
|---|---|
| `TypeCorrect` | `Safe => (Spec => []TypeOK)` |
| `StoredExactlyOnce` | `Safe => (Spec => []ExactlyOnce)` |
| `ReadsBehindHead` | `LongerThanBatch => (Spec => []DelaysOneBlock)` |

`Safe` is the condition the code itself needs and does not check: either the
chain was longer than a batch when it was first read (`LongerThanBatch`), or
`GetPackets` refuses blocks that do not exist (`RejectsFuture`). Item
5 of section 3 shows what happens without it. The other assumption is
`ConstantsOK`; batch sizes of 0 are refused by packet.go:99.

`ExactlyOnce` is not inductive, since `SaveToDB` adds whatever has been fetched
and moves the cursor wherever `next` says. `IndInv` adds `RangeFromCursor` (the
range in progress starts at the cursor, is not empty, and `next` follows it)
and `FetchedRange` (what has been fetched is the whole range). The latter is
where `Safe` is used: the range lies below the head, either because the
arithmetic does not wrap around or because `GetPackets` has checked.

PacketTableProofs is about any number of chains and packets, any events in any
order, any batch size, start heights, configured cursors, crashes and failures:

| Theorem | Statement |
|---|---|
| `TypeCorrect` | `LongerThanBatch`: `Spec => []TypeOK` |
| `NothingIsMissed` | `LongerThanBatch`: `Spec => []NothingMissed` |
| `NothingIsInvented` | `LongerThanBatch`: `Spec => []NothingInvented` |
| `ColumnsAreKept` | `LongerThanBatch`: `Spec => ColumnsStay` |
| `StatusAgrees` | `LongerThanBatch`, `RevisedHeights = {0}`: `Spec => []StatusFitsHeights` |
| `RefinesSyncHeight` | `LongerThanBatch`: `Spec => ImplementsSyncHeight` |

`LongerThanBatch` is SyncHeight's, for the first boot of every chain; without it
the range of an EVM chain's job may end beyond the head (item 5 of section 3) and
what its blocks hold later is missed. The properties speak of rows, but what a
commit writes was read from the chain and from the table several steps earlier. So
`Inv` follows an event from its block to its row: a packet's event is on one
chain, in one block, and chains only grow (`ChainsInv`); while a job works on
the event's block, the event is, if it is due and the client has not passed it
over (`unread`), still in `todo` or has a record in `batch` (`ReadInv`); a batch has no other records than those of events in the
range (`BatchInv`); once the cursor has passed the block, its columns are in the row
(`Passed`), and a row has no other columns (`RowsInv`; `BehindCursors` when no
cursor is moved). The batch is a sequence applied to the table record by record, so
`Stored` is a recursive function over it, and what it returns is proved by
induction over the records stored so far. `StatusInv` adds, for `StatusAgrees`, that a snapshot is an
EARLIER state of the row (`Earlier`: no column it has is different by now) with a
status that fitted then; `RevisedHeights = {0}` is needed because a send that is
read again writes status Pending over a later one, as section 3 says.
`RefinesSyncHeight` maps every action of every chain's job to a step of
`Cursor(c)` or to a stutter.

BridgeMetricsProofs proves, again with `LongerThanBatch`, for any finite sets of
chains and packets (`FiniteOK`: the rows of a table are counted) and any bridges:

| Theorem | Statement |
|---|---|
| `NothingIsMissedCounting` | `MSpec => []NothingMissed` |
| `ColumnsAreKeptCounting` | `MSpec => ColumnsStay` |
| `FilledOnce` | `MSpec => []FilledOncePerJob` |
| `CountedOnce` | `MSpec => []ValueAtMostOnce` |

The first two hold since every step of `MNext` is a step of the packet table or
leaves its variables, but for failures, alone (`MNextSteps`), which keeps `Inv`.
`FilledOncePerJob` does not say how many jobs are about to append their rows:
`FillInv` counts the rows of a direction together with the jobs that have found the
table empty and not filled it yet; the two together are no more than the chains.
`ValueAtMostOnce` does not say what an update is about to add: `ValueInv`
bounds the value of a direction plus what the direction's job has stored and not
counted, and that an amount is in at most one record of a batch, only if the row
had none when it was read (`BringsInv`). The row could get its amount from another
job in between only if that job read the same chain; that each chain has one job is
what makes a stale look-up harmless here.

BlockFetchProofs proves `ErrorReported`, `Spec => []ErrorIffFailed`: for every
finite range of blocks and whatever they hold, `GetPackets` returns an error
exactly when a block failed. The only assumption is `BlocksOK` (a finite,
non-empty range). The property speaks of the moment after `wg.Wait`; `IndInv`
follows a failure there: a goroutine that has failed carries an error until both
words of `anyErr` are written (`FailedCarryError`), the type word tells of a
failure or some goroutine is about to write it, and it is never set back to nil
(`FailureUnderway`), and the WaitGroup counts the goroutines that have not left
(`WaitGroup`), so that nothing is underway when `Return` looks at the type word.

It also proves `AllBlocksReturned`, `Spec => []AllBlocksOrError`, from
`ContentsOK`: every event of a block happens once. `GroupsInv` says what a
goroutine's group holds on the way: the records of the transactions whose queries
are over in either half (`Over`), each once, without those that were dropped
(`Got`). A query of a transaction comes once per half, so the records it adds are
none of those the group has (`ReadGroups`). When both halves are over this is
what `Wanted` says, and `Delivers` keeps it in `packets` until `Return`. The events
of a kind are kept by `Kept`, a recursive function over their sequence instead of
`SelectSeq`, which the provers cannot unfold; `KeptHolds` says by induction what it
returns.

GlobalUsersProofs proves `TypeCorrect` and `UsersNeverOvercounted`,
`Spec => []NeverOvercounts`, for any number of jobs, packets, senders and
failures, from `UsersOK` (finitely many jobs and senders). The number a job is about
to insert has been computed from what it read earlier, so the invariant has to say
that it was not too large then and is not now. `Account` is the bound without the
senders, and it only grows (`AccountGrows`), as do the senders in the table
(`Users`). The look-up of a job that sees its own writes can find nothing missing but
the empty sender (`NotFound`); a job that adds one has a record without a sender in
its batch (`BatchOfLog`), and pays for it once: with a `SenderlessLeft` from its
insert on, which its commit turns into a `SenderlessPassed` (`CommitPasses`) and a
failure into one of `failures`.

ReconcileProofs is about any finite sets of packets, any amounts, decimals and bounds
(`BridgeOK`, which also tells the provers that a number to the power of zero is
one):

| Theorem | Statement |
|---|---|
| `TypeCorrect` | `Spec => []TypeOK` |
| `SumsAreExact` | `Spec => []SumsExact` |
| `NoAckForgotten` | `Spec => []NoneForgotten` |
| `ResultIsRight` | `DecA = DecB`: `Spec => []ResultTellsLoss` |

`SumsExact` compares a row with the chains at every cut
below the cursors. The inductive invariant `Inv` keeps, for every row, which of its
three heights are set (those of events below the cursor of the chain they are on, unless the
acknowledgement was skipped), that a set height is its event's block, and which
statuses go with them; and the same of a running transaction's snapshot against
the row, which is what the comparison at packet.go:572 needs: a status read
earlier is never above what the row may hold. The chains only add events at their
head, above every cursor, so that nothing at a cut changes later.

`ResultIsRight` is about the numbers. The two sums of a result were read at two
moments while the other chain's job was writing, so `ResultInv` says what a sum
that has been read still holds: exactly the packets in flight at its cut, but for
skipped acknowledgements and hidden refunds, in every later state too, since no
step takes back what is below the cursors (`PastStays`), and the cut of a queued
acknowledgement is (`CutStored`). From there the proof is arithmetic over sets
of packets (`InvTells`): the two balances at the cut and the two sums
are each a `Total` over a set of packets, the sets of one side are disjoint and
make up those of the other, and `Total` does not depend on the order in which a
set is added up (`SumsAgree`, `TotalDisjoint`). `DecA = DecB` is needed: with
different decimals the statement is false (`reconcile_decimals`). As in the run,
the claim is about clean cuts.

ServiceProofs is about any growing lists (`UpstreamOK`) and any faults:

| Theorem | Statement |
|---|---|
| `TypeCorrect` | `Spec => []TypeOK` |
| `TokensAreKnown` | `Spec => []TokensHaveAddresses` |
| `BridgesRemain` | `LoadsApart`: `Spec => BridgesStay` |
| `ManagedRemains` | `LoadsApart`, `BridgesOfAKind`: `Spec => []ManagedIsOffered` |
| `FillsWithTokens` | `LoadsApart`, `NamesLeadBack`: `Spec => []FilledWithTokens` |

`TokensAreKnown` holds however loads overlap. The bridges of a load were asked for
before its tokens (`InOrder`: the versions of its answers do not decrease), so the
token list it holds is at least as new as the bridges that refer to it
(`LoadFits`); with the order of the requests reversed TLC finds a token without
an address.

The other three are about what a load may take away, and each of their hypotheses
names something the code relies on without checking it. `LoadsApart`: with two loads at a
time, one may put older lists back (section 3). `BridgesOfAKind`: a bridge connects two EVM chains or two cosmos chains, otherwise
the manager names a token of a bridge that a cosmos document without chains
removes. `NamesLeadBack`: the names in `BridgeNameAdjList` lead to the chains of
the bridge they come from, if they lead to EVM chains, otherwise the tokens are
looked up under another bridge's key. The invariant `Offering` places the tokens on
offer between two versions: they are of bridges that have been published, also in
the version a load was answered with (`LoadOffers`), so that what it is about to
publish has all of them but those that an answer without its list leaves out. `Managing` says the same of what the manager has copied, and
that the lists hold both directions of a bridge; `Naming` of the names a job has
taken from `BridgeNameAdjList`, of which each has its tokens in `Bridges`
already, because `Bridges` is assigned first (datas.go:231-232). A load that has a
bridge document without bridges takes everything, which `BridgesStay` itself
excepts; the other two properties, and `Managing` and `Naming`, are claimed only
until such a load is published (`bare`, which `BareStays` never sees reset).

InductionLemmas makes induction usable by provers without higher-order facts: what
is proved by induction is membership in a SET of naturals (`Induct`, `InductTo`)
or of subsets (`InductParts`), never an operator. Recursive functions
(`Stored`, the updates of the metrics) and folds (`Total`) are reasoned about with
it.

All of these are proofs about the models: the abstractions of section 2, and what
section 5 leaves out, are assumptions of every theorem.

Model-checked only: liveness (`CatchesUp` of two modules, `AckedSettles`,
`RefundArrives`, `CallEnds`), which is out of the prover's reach, and the four runs
that expect a violation. Every other property of a run is a theorem.

## 5. What is not modelled

- Reorganisations of a chain and nodes that lag behind each other: the service
  does not handle them, it relies on the delay of one block.
- Fees; `PacketFee` queries appear only as calls that may fail. Amounts appear in
  Reconcile, as integers: that float64 drops the low digits of large amounts is
  left out. In BridgeMetrics every packet carries one unit of one token, and
  the tokens' fee rows are left out.
- `HandlePacket`, `syncPacketByHash`, `GetPacketsByHash` and what only they call,
  `bridgeMetrics`, `BatchBridgeReconcile`, `GetSrcChainTokenAmount`, the
  `GetDest...SumAmount` functions, `GetTokenLimit`: nothing calls them.
- Monitoring: gauges computed anew from one query at a time, which nothing reads
  back. Configuration, logging and the contract bindings (generated code).
- In PacketTable a tick ends with the commit of `saveToDB`; what follows it
  writes neither the rows' columns kept there nor the cursor. Reconcile has one
  bridge and one token: packets of another token do not enter its sums
  (bridges.go:153).
- The period of the reload scheduler: datas.go:67 multiplies a duration by
  `time.Minute`, and with the value of config/test.toml the product overflows.
- `cmd.Run` starts the scheduler whatever `SyncEnable` says (cmd.go:50), so that
  the models have no disabled state.
- IBC packets beyond BlockFetch: their records carry no sequence and are not
  among the packets of PacketTable.
