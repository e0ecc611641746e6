# TLA+ specifications of blockChain_consensus

The repository holds three independent consensus demonstrators in Go:
`pbft_blockChain`, `raft_blockChain` and `tangle_blockChain`. This directory
specifies their own logic. The PBFT-like protocol, written from scratch, is the
core of the repository: its cluster, the primary's intake of requests and the
exchange of keys at the start are modelled, each in a module of its own. So are
the front end and state machine of the raft program and the ledger of a tangle
node.

## Inventory

### pbft_blockChain

| Component | State | Operations |
|---|---|---|
| consensus state machine (`pbft/consensus/pbft_impl.go`) | `CurrentStage`, `LastSequenceID`, `MsgLogs`, `WorldState` | `StartConsensus`, `PrePrepare`, `Prepare`, `Commit`, `Reply`; the tests `verifyMsg`, `prepared`, `committed` |
| node (`pbft/network/node.go`) | five message pools, `WaitingTransactions`, the channels `MsgEntrance`, `MsgDelivery`, `Alarm` (all unbuffered) | goroutines `dispatchMsg`, `resolveMsg`, `alarmToDispatcher`, `transactionConsensus`; handlers `GetReq`, `GetPrePrepare`, `GetPrepare`, `GetCommit`, `resolveReplyMsg` |
| pools (`pool/*.go`) | a map with a mutex each | `Add`, `Del`, `DelAll`, `GetAll`, `MsgNum` |
| HTTP interface (`pbft/network/consensusInterface.go`) | `NodeInfoTable` | one handler for each kind of message; the NodeInfo broadcast |
| client requests (`GetReq`, `transactionConsensus`, `pool/requestPool.go`) | `ReqMsgs`, `WaitingTransactions`, `LastConsensusFinTime` | the intake: a request becomes a transaction, transactions become a block |
| start (`NewNode`, `HttpInitialize`, `GetNodeInfo`) | the node's key, `NodeInfoTable` | one broadcast of NodeInfo a second after the start |
| block, transaction, contracts, world state, client | data | hashing, signing, key-value reads and writes |

How they interact. A message travels as a synchronous `http.Post`; the handler
of the destination pushes it into `MsgEntrance` and answers when the destination's
dispatcher has taken it. The dispatcher puts it into a pool. Once a second an
alarm makes the dispatcher look at the pool that goes with `CurrentStage`, copy
it, drain it and push the copy into `MsgDelivery`, where it waits for the
resolver. The resolver runs the handlers, which log messages, test the quorums
and broadcast, synchronously again. Every two seconds `transactionConsensus`
starts a round if `CurrentStage` is `Idle`. `CurrentStage` is shared by the
three goroutines without a lock.

What is hard: the goroutines interleave and block each other; rounds overlap
because replicas lag; pools are keyed by sender, so rounds replace each other's
messages; the drain loop leaves half of a pool behind, so batches are delivered
twice; nothing is ever sent again; nodes crash; a node that starts late never
hears of those before it; the waiting transactions are tested without their lock
and reset after a broadcast.

What makes it correct: blocks are executed once and in order; only after a
quorum of prepares; the client is told of a success only when f + 1 nodes agree
on it; every round completes; each request is in one block; nodes that start
together know each other.

### raft_blockChain

`raft.go` and `myraft` assemble a node of hashicorp/raft (third-party). The
repository's own logic is the state machine (`fsm/fsm.go`: `Apply`, `Snapshot`,
`Restore`) on a map with a mutex (`database/database.go`) and the HTTP front end
(`api/httpApi/httpApi.go`), whose handlers share a pool of transactions: each
adds one, and the one that finds twenty drains the pool and applies them all.
A handler that finds fewer answers with an empty 200, so only the client of the
handler that drains ever sees results. Hard: the size is tested outside the lock;
the mutex is held while the whole batch goes through consensus; a transaction
leaves the pool before its fate is known; leaders change; reads are local;
`Snapshot` returns the live database and `Restore` restores nothing. Correct: no
transaction is executed twice or left in a full pool; what a client is told is
true; state machines agree as long as no snapshot has been restored.

### tangle_blockChain

| Component | State | Operations |
|---|---|---|
| ledger (`tangle/tangle.go`) | `TipSet`, `CandidateTips`, `Database` (confirmed transactions), `WorldState`, three mutexes | `PublishTransaction` (`main` calls it in a loop; a test also from a goroutine of its own), the goroutines `UpdateTipSet` (two tickers: confirmation, expiry of tips) and `ReadMsgFromP2PPool` |
| transactions (`tangle/transaction.go`) | `PreviousTxs`, `ApproveTx`, `Depth`, `Weight`, `Height`, `Score` | `SelectApproveTx`, `UpdatePreviousTx`, `Pow` |
| peer (`p2p/peer.go`) | `MessagePool`, `OthersUrl`, `peersTable` | NodeInfo and transaction handlers, the cleaning of the pool |

How they interact. A call of `PublishTransaction` copies the tips, chooses which
of them to approve, works on its nonce, broadcasts and adds the transaction to
`CandidateTips`. Every h/2 `UpdateTipSet` makes the candidates older than h tips,
stores them and updates what they build on; every `tipExpireTime` it drops old
tips. The mutexes are held for parts of this only.

What is hard: what a call has read is stale when it ends; the limit of tips is
tested before, not while, they are added; confirmation pauses while the tip set
is full and only the other ticker frees it. What makes it correct: a transaction
builds on confirmed ones; each is confirmed, executed and counted once, and none
is forgotten. `Depth` should be a length and is a count: that is a finding.

Nodes do not in fact exchange transactions: NodeInfo is sent to `OthersUrl`, which
only received NodeInfo fills (`peersTable` from the configuration is not used),
and `GetNewTx` looks a sender up by the remote address of its connection, which
is never a key of the table. `MessagePool` stays empty, so that one node is the
whole system.

The remaining directories (cryptography, RLP, logging, metrics) are vendored or
support code and are left aside.

## Modules

| Module | Contents |
|---|---|
| `PbftCluster` | the whole cluster: dispatchers, resolvers, proposer, posts, crashes, client |
| `ReplicatedLog` | what the cluster promises its client, without messages |
| `MCPbftCluster` | instance for TLC: primary `p`, replicas `r1`, `r2`, `r3`, symmetric |
| `PbftClusterProofs` | theorems about `PbftCluster` and their proofs |
| `PbftQuorumProofs` | more of them, built on the first: quorums of prepares, rounds that do not meet |
| `PbftRequests` | the primary's intake: request pool, resolver, waiting transactions, rounds seen from outside |
| `MCPbftRequests` | instance for TLC |
| `PbftRequestsProofs` | theorems about `PbftRequests` and their proofs |
| `PbftBootstrap` | start, stop and the NodeInfo exchange |
| `MCPbftBootstrap` | instance for TLC |
| `PbftBootstrapProofs` | theorems about `PbftBootstrap` and their proofs |
| `RaftFrontEnd` | handlers, transaction pool, state machine and snapshots over an external raft |
| `TxLedger` | what the raft program promises its clients |
| `MCRaftFrontEnd` | instance for TLC |
| `RaftFrontEndProofs` | theorems about `RaftFrontEnd` and their proofs |
| `Tangle` | one tangle node: publishing calls, `UpdateTipSet`, its tickers, its end |
| `DagLedger` | what the node's confirmed transactions promise: an acyclic graph that only grows |
| `MCTangle` | instance for TLC |
| `TangleProofs` | theorems about `Tangle` and their proofs |

### PbftCluster and the code

| Variables | Code |
|---|---|
| `stage`, `last`, `log` | `CurrentState.CurrentStage`, `.LastSequenceID` (0 for -1), `.MsgLogs` |
| `pool`, `disp` | `MsgBuffer`; the batch the dispatcher is blocked on at `MsgDelivery` |
| `work`, `out`, `answering` | where the resolver is: the rest of its batch, the broadcast it is in, the posts to the client |
| `prop`, `proposals` | the broadcast `transactionConsensus` is in; the rounds started |
| `executed` | the blocks whose contracts have run on a node's `WorldState` |
| `answers`, `refused` | what the client has been told |
| `prepares` | history variable: prepares a node has broadcast |

| Actions | Code |
|---|---|
| `Propose`, `FinishProposal` | `transactionConsensus` up to, and after, its broadcast |
| `Alarm`, `Handoff` | `routeMsgWhenAlarmed`; the resolver receives from `MsgDelivery` |
| `HandlePrePrepare`, `FinishPrepare` | `GetPrePrepare` before and after its broadcast |
| `HandlePrepareQuorum`, `HandlePrepareWait`, `FinishCommit` | `resolvePrepareMsg` / `GetPrepare` with and without the quorum; after the broadcast |
| `HandleCommitQuorum`, `HandleCommitWait`, `FinishReply` | `resolveCommitMsg` / `GetCommit` likewise |
| `HandleReplies`, `FinishAnswers` | `resolveReplyMsg` before and after the posts to the client |
| `Deliver`, `DeliverProposal` | the destination's handler and `routeMsg`: a post succeeds |
| `LosePost`, `LoseProposal`, `Crash` | a post fails, a node stops (environment) |

Decisions a reader should know of:

- A handler is split at each broadcast, since other goroutines run while it is
  in `http.Post`; between broadcasts a batch is one step, since it touches only
  the resolver's own log. A post to a node whose dispatcher is blocked waits.
  The server's timeouts do not end it: they bound the reading of the request
  and the writing of the response, not the handler that waits in between.
- `prepared()` takes the first message of a random map iteration as the
  reference block. `MayBePrepared` and `MayBeUnprepared` say which answers some
  iteration yields; both may hold.
- `Drained` is the drain loop as written: of n messages it deletes the first
  (n + 1) div 2, in the order of the copied batch, itself random.
- Blocks are numbered by proposal; `BlockID`, `SequenceID` and number coincide.
  The clock that yields `SequenceID` is taken to be increasing.
- The result of a block is the history of executed blocks. Two nodes agree on a
  result only if they executed the same blocks before. A contract that depends
  less on the state would agree more often: this is the worst case.
- Who signed a block follows from the messages it has been in. All nodes know
  each other, so no signature is dropped and only the number matters.
- A block is always available; where it comes from is `PbftRequests`. All nodes
  know each other; how far that is so is `PbftBootstrap`.
- Crashed nodes stay down. The view never changes, as in the code.
- `Propose` is one step from the test of the stage (node.go:207) to its assignment
  (pbft_impl.go:94): of the primary's goroutines only the resolver writes the stage,
  and with quiet timers it is at rest then. `Alarm` is one step from the test of a
  pool's size to its drain: a `DelAllRyMsg` in between, which could hand over an
  empty batch of replies, is left out.
- `Broadcast` posts to one destination after the other, in the random order of a
  map. `Deliver` may go on with any destination that answers, which makes a
  difference only while a dispatcher is blocked: a broadcast of the code may stop
  there earlier. Without early timers none is blocked (`NoBlockedDispatcher`), and
  `pbft_deadlock` has a single destination.
- Results are compared block by block and counted by node. The code counts
  results of transactions: a block with one request twice would let a node count
  twice. `MadeOnce` of `PbftRequests` says when requests become one transaction each.

### PbftRequests and the code

| Variables | Code |
|---|---|
| `pool`, `disp`, `batch`, `ahead` | `ReqMsgs`; where the dispatcher is; its copy `msgs`; the part of it from `msgs[i]` on |
| `work`, `current`, `made` | the rest of the resolver's batch; the request between `append` and `DelReqMsg`; how many transactions each request has become |
| `tc`, `waiting`, `blocks` | where `transactionConsensus` is; `WaitingTransactions`; the blocks it proposed |
| `stage`, `overdue` | `CurrentStage`; `now - LastConsensusFinTime > MaxWaitingTx` |
| `slips` | how often the timing has slipped |

| Actions | Code |
|---|---|
| `Accept` | `GetReq` of the HTTP interface and `routeMsg` |
| `Alarm`, `Drain`, `HandOver` | `routeMsgWhenAlarmed` at stage `Idle`: the copy, an iteration of the drain loop, `MsgDelivery` |
| `AppendTx`, `DelReq` | `Node.GetReq` up to `Unlock`, and its last statement |
| `Test`, `Start`, `FinishBroadcast` | `transactionConsensus`: the tests, `Lock` and `StartConsensus`, the reset and `Unlock` |
| `EndRound`, `Elapse` | the resolver sets the stage to `Idle`; time (environment) |

Decisions a reader should know of:

- `waiting` stays locked from `Start` to `FinishBroadcast`: `AppendTx` waits. The
  tests (`Test`) take no lock, so that requests may be appended between `Test`
  and `Start`; they are in the block then.
- Alarms are a second apart, the resolver's own steps take microseconds. `Slip`
  counts the steps for which this is not so: an alarm while the resolver is at
  work on requests, or a round that is ended, by replies left over from the round
  before, while its block is still being posted. Both can make the dispatcher
  hand over requests that the resolver is about to delete. `MadeOnce` is about
  what happens without slips; the other properties hold with any.
- The rest of a round is `EndRound`, taken by a resolver that has dealt with its
  requests and needs a dispatcher that is not blocked.
- `LastConsensusFinTime` is assigned in `NewNode` only: once `overdue`, always
  so. "The time the last consensus ended" (node.go:60) it is not. A node that
  has run for ten seconds starts a round for each single request.
- A client stamps a request and sends it once, so that its hash is its name.

### PbftBootstrap and the code

| Variables | Code |
|---|---|
| `up`, `key`, `table` | the running processes, `NodeID`, the keys of `NodeInfoTable` |
| `greeting`, `left` | where the goroutine of `HttpInitialize` is: asleep, in `Broadcast`, done; the nodes `Broadcast` has yet to post to |
| `starts`, `apart` | history variables |

| Actions | Code |
|---|---|
| `Start` | `NewNode` and `HttpInitialize` |
| `Greet`, `Post`, `FinishGreeting` | the second's sleep is over; a post and its `GetNodeInfo`; `Broadcast` returns |
| `Stop` | the process ends (environment) |

A key is the number of the start that made it, counted over the cluster, so that
of two keys the larger was made later. A post to a node that is down is lost, as
`send` ignores errors. The table is in memory: a stop empties it. Old keys of a
node stay in the tables of the others; that a restarted node may be counted under
both keys is outside this module, which has no votes.

### RaftFrontEnd and the code

| Variables | Code |
|---|---|
| `at`, `step`, `todo`, `awaited` | the node a request is sent to; where its handler is; the rest of `txSet`; the transaction whose future it waits for |
| `future` | what `Error` of that future returns |
| `pool`, `locked` | `txPool` and the holder of `txPoolMutex` of each node |
| `leader`, `leading`, `queue`, `doubt`, `rlog` | hashicorp/raft: who leads and who thinks so, entries not committed, the committed log |
| `applied`, `db` | the state machine of each node |
| `snapping`, `snap` | snapshots being taken and stored |
| `boot`, `load` | history: how a node last started; the bound |

| Actions | Code |
|---|---|
| `Arrive`, `Add`, `Test`, `Collect`, `Submit`, `Finish`, `Answer` | `CreateTransactionSet` step by step; `CommonSet` and `CreateNewTransaction` go from `Arrive` to `Submit` directly |
| `ApplyNext`, `Snapshot`, `Persist` | `Fsm.Apply`, `Fsm.Snapshot`, `Database.Persist` |
| `InstallSnapshot`, `Restart` | raft and `NewMyRaft` call `Fsm.Restore` |
| `Elect`, `StepDown`, `Commit` | hashicorp/raft (external) |

Decisions a reader should know of:

- hashicorp/raft is modelled by what the code relies on. A node that still takes
  itself for the leader accepts entries that may or may not survive; a later
  leader may keep any of them in any order, which is more than raft allows.
- An entry whose enqueue times out never reaches a log, so the comment at
  `raft.Apply` (a timeout means that this consensus failed) is true. What leaves a
  client in doubt is a loss of leadership after the entry was taken:
  `Refinement` says that such a transaction is neither confirmed nor refused.
- The server's write timeout of five seconds may cut an answer off; the handler
  goes on, so it does not show in the state.
- `db` is the sequence of entries the contracts have run for. One that ends in an
  error has run as well: `Fsm.Apply` returns the error as the response of a future
  that reports none. The contract `BGP` (contract.go:13), which is a panic on every
  node, is left out.
- `boot` divides the life of a node: "first" until it restarts, "replayed" after a
  restart without a snapshot, "restored" once a snapshot has been restored, which
  in this code loses the data before it. The properties say which of these they
  need.

### Tangle and the code

| Variables | Code |
|---|---|
| `tips`, `candidates`, `stored` | `TipSet`, `CandidateTips`, the transactions in `Database` |
| `previous`, `approved`, `depth` | `PreviousTxs`, `ApproveTx`, `Depth` |
| `age` | `now - TimeStamp` of a transaction or `now - ` the tip time of a tip, in units of h/2 |
| `created`, `selecting`, `broadcasting` | the calls of `PublishTransaction`: begun, between reading the tips and the time stamp, at `Pow` or `Broadcast` |
| `txCount` | `txCount`, which `BackTxCount` returns |
| `cycleDue`, `expireDue`, `phase` | the channels of the two tickers |
| `cancelled`, `updating` | the context's state; `UpdateTipSet` has not returned |

| Actions | Code |
|---|---|
| `ReadTips` | `PublishTransaction` up to the release of `curTipMutex` |
| `Approve` | `NewTransaction` (time stamp) and `SelectApproveTx` |
| `AddCandidate` | the end of `Pow` and `Broadcast`, and `CandidateTips` under its mutex |
| `Confirm`, `SkipCycle` | the case of the h/2 ticker with and without room for tips |
| `Expire` | the case of the `tipExpireTime` ticker |
| `Tick` | half of h passes (environment) |
| `Cancel`, `Quit` | `main` ends; `UpdateTipSet` sees the cancelled context |

Decisions a reader should know of:

- Ages are fuzzy: steps happen anywhere within a unit, so a transaction of
  age a is really between a - 1 and a + 1 units old. `Confirmable` and `Expiring`
  say which sets of transactions a comparison with a limit may select. Ages are
  capped one above their limit, where no comparison tells them apart.
- `UpdateTipSet` reads the clock before it takes the locks and subtracts unsigned:
  a candidate stamped in between has a huge age and is confirmed at once.
  `Confirmable` allows it for candidates of age 0.
- Go's tickers drop ticks their reader is late for: a ticker is a Boolean.
- A confirmation is one step: it holds both mutexes from its first to its last
  access, and what a call does meanwhile (`SelectApproveTx`) reads the parts of
  records that a confirmation does not write.
- A transaction is numbered by its call. `Weight`, `Height` and `Score` are left
  out: `Hash`, called by `Pow`, sets `Weight` to 0 in the transaction itself, and
  the other two change only in branches for a genesis transaction, which
  compare with a field that is never set.

### Timing and fairness of PbftCluster

Alarms have periods of seconds, handlers and posts take milliseconds. `Timer`
says that a timer normally fires when nothing moves in the cluster, and that one
of a node in `Hasty` may fire earlier. `MayDisturb` bounds such timers and the
stops of nodes in `Mortal`: `MaxDisturbances` together, in the first `LastDisturbed`
rounds. Which node's timer fires next is open: a node may lag behind the others by any number of alarms,
as one that is paused or starved does.

`Fairness` is weak fairness of each goroutine of each node: alarms tick for
ever, a blocked channel operation that stays possible happens, and a post to a
node that is down fails. Nothing is assumed of `Propose` (it needs a client), of
losses or of crashes.

### Fairness of PbftRequests, PbftBootstrap and RaftFrontEnd

`PbftRequests` and `RaftFrontEnd` assume weak fairness of one action, `Progress`:
the system does not stand still while some goroutine can move. With finitely many
requests this is enough, and it is less than fairness to each. In `PbftRequests`
it includes `FinishBroadcast` and `EndRound`: that a broadcast and a round end is
a property of the cluster (`pbft_loss` and `pbft_deadlock` say when), assumed here.
In `RaftFrontEnd` it includes replication by a leader and the news of a later
leader, not elections. `PbftBootstrap` assumes weak fairness of the broadcasting
goroutine of each node. Nowhere is anything assumed of clients, starts or stops.

### Fairness of Tangle

Time passes, a call's steps happen, and the cases of the `select` in
`UpdateTipSet` are taken: both tickers may be ready at once, but Go then chooses
at random, so a case that stays ready is taken. Nothing is assumed of
`ReadTips` (it needs a caller), `Cancel` or `Quit`.

## Runs

The runs of `PbftCluster` have n = 4 and f = 1, the values in the code: smaller clusters have no
quorum, and with four nodes quorums already differ by which replica lags. Two
rounds are what it takes for messages of one round to meet the next.
`CHECK_DEADLOCK FALSE` is set because the bounded system does stop: after its
last round, and, in the runs that show it, in a deadlock.

| Run | Bounds | What it shows |
|---|---|---|
| `pbft_rounds` | 2 blocks and quiet timers, or 1 block and 1 early timer of any node or 1 crash of a replica at any moment | types, execution order, a quorum of prepares behind every execution, truthful replies, rounds not parallel, answers backed by f + 1 nodes, no false refusal in the first round, refinement of `ReplicatedLog` |
| `pbft_loss` | 1 block, 1 lost post, fairness | a round completes if nothing is lost; after the prepares one post may be lost |
| `pbft_faults` | 1 block, 1 crash, fairness | **violated** `FaultsTolerated`: no crash of a replica is tolerated |
| `pbft_committed` | 2 blocks, quiet | **violated** `CommittedLocal`: a block is executed on mixed commits |
| `pbft_refused` | 2 blocks, quiet | **violated** `RefusedNotExecuted`: a stale reply makes the primary report a failure |
| `pbft_parallel` | 2 blocks, 2 early timers of the primary | **violated** `NoParallelRounds` |
| `pbft_deadlock` | 1 block, 1 early timer of the primary, fairness | **violated** `RoundCompletes`: the primary waits for itself |
| `tangle` | 3 transactions, 2 calls at a time, L0 = 2, expiry after 2 units, fairness | types, parents stored, no loss or repetition, no cycles, refinement of `DagLedger`, every transaction is confirmed |
| `tangle_depth` | the same, without fairness | **violated** `DepthIsLength`: `Depth` is not the maximal length to a tip |
| `requests` | 4 requests, blocks of 2, 2 slips, fairness | none lost, none twice without a slip, blocks not empty and not too small too early, the goroutines never all wait, every request is proposed |
| `bootstrap` | 3 nodes, 4 starts in all, any stops, fairness | who knows whom after one broadcast each |
| `raft` | 2 nodes, 3 transactions (one direct), pool size 2, all requests to one node, 4 disturbances or requests in all, fairness | no transaction twice or forgotten, full pools are served, state machines and snapshots agree, answers stay true, handlers never all wait, refinement of `TxLedger`, every handler ends |

The six violations are disagreements between the code and its comments; each
finding in `PROJECT.json` quotes the comment. The runs with fairness use no
symmetry. The constraint of `pbft_rounds` (`OneDisturbance`) ends a behaviour at the
second round if the first was disturbed. The primary does not stop there: it would
tell the client nothing more (`pbft_faults` lets it).

`AnswersBacked` is checked where it is in danger: in the second round, whose batches
of replies mix those of the round with stale ones that a half-drained pool has kept.
Its mutant counts such replies without comparing their results, and a block is then
confirmed that too few nodes have executed.

Why `pbft_faults` fails: a node needs 2f prepares of OTHER nodes. The primary
sends none and a node does not count its own, so a replica has exactly 2f
possible senders and needs them all. `LossTolerated` is what remains true: once
all prepares are sent there is a node to spare.

In `tangle`, L0 = 2 lets two transactions fill the tip set, so that the third must
wait for the expiry of a tip: confirmation passes are skipped and `TxConfirmed`
rests on both tickers. Three transactions are also what it takes for a call to read
its tips before one confirmation and have its transaction confirmed after another. An
expiry as short as the delay (2 units) lets every call find its tips gone; the run
passes with 3 units, too, but takes two to three times as long. The defaults of the code (L0 = 80, an expiry of 10
units) differ in size only. `main` makes one call at a time; the operation is
guarded for concurrent callers, and two at a time are checked. Time never stops, so the runs check for deadlock.

Why `tangle_depth` fails: `UpdatePreviousTx` adds 1 to the `Depth` of each direct
predecessor of a confirmed transaction, and no more. Two transactions on genesis
give it 2 at length 1; in a chain 1, 2, 3 where 1 had expired before 3 read the tips,
1 stays at 1 at length 2. It is no count of approvals either, as the comments at the
update suggest: all tips a call has read count, approved or not. What it is,
`DepthCounts` says, and `DepthIsCount` proves. No code reads `Depth`.

`NoParallelRounds` holds in `pbft_rounds`, where no timer fires early, and fails in
`pbft_parallel`: two early timers of the primary are enough.
`RefusedNotExecuted` holds in the first round of `pbft_rounds` (`FirstNotRefused`) and
fails in `pbft_refused`: within one round the half-drained pool repeats replies but always
f + 1 of them; across rounds a single stale reply is enough.

With quiet timers and two blocks, `RoundCompletes` fails too: pools are keyed by
sender and emptied whole (`DelAllPreMsg`), so a replica that is slow in the first
round loses prepares of the second. `pbft_deadlock` shows the same property
violated within one round; `pbft_loss` shows where it holds.

In `raft`, `MaxLoad` bounds arrivals together with changes of leader, restarts and
snapshots: three requests and one disturbance, or fewer requests and more
disturbances, in any order. Two handlers that both find the pool full need two
pooled transactions, the third request goes to `Apply` directly and meets them in
the log; a lagging state machine and a deposed leader need a second node. In
`requests`, half of four requests stay behind in a drain, a round can start while
the other half is handed over, and one request is left over to wait for
`MaxWaitingTx`. In `bootstrap`, four starts of three nodes make one restart, at any
moment of the others' broadcasts.

## Proofs

### PbftCluster

`PbftClusterProofs` proves, for every set of nodes, every f > 0 and every bound:

| Theorem | Statement |
|---|---|
| `TypeCorrect` | `Spec => []TypeOK` |
| `OrderedExecution` | `Spec => []ExecOrdered` |
| `TruthfulReplies` | `Spec => []RepliesTruthful` |
| `BackedAnswers` | `Spec => []AnswersBacked` |
| `ImplementsLog` | `Spec => Refinement` |

The assumptions are those of `PbftCluster`: `Nodes` is finite and contains
`Primary`, f is a positive number, the bounds are natural numbers, `NoMsg` is
not a message. Nothing relates n and f: these facts do not depend on n > 3f.

The argument. `TypeOK` is inductive as it stands; finiteness of pools and logs
is part of it, since cardinalities are compared. With it, `ExecOrdered` is
inductive: the one step that executes a block (`ExecuteStep`) does so on a
message that passed `verifyMsg`. `RepliesTruthful` is about every message on its
way, because a step moves messages from posts to pools to batches: `PoolStep`,
`BatchStep`, `OutStep` and `PropStep` say that what is on its way after a step
was on its way before or was built in it, and `SoundKept` that a sound message
stays sound because histories only grow. `AnswersBacked` needs it: the batch that
confirms a result may hold replies of any age. `ImplementsLog` puts them together:
`Propose`, `HandleCommitQuorum` and `HandleReplies` map to `Propose`, `Execute` and
`Confirm` of `ReplicatedLog`, everything else to a stutter. The mapping reads
`history` from `executed` and `confirmed` from the blocks with an answer.

`PbftQuorumProofs` goes on from there, with the same assumptions:

| Theorem | Statement |
|---|---|
| `KeyedMessages` | `Spec => []MessagesKeyed` |
| `ProperMessages` | `Spec => []MessagesProper` |
| `FreshLog` | `Spec => []LoggedFresh` |
| `QuorumBeforeExecution` | `Spec => ExecAfterQuorum` |
| `NoBlockedDispatcher` | no dispatcher waits at `MsgDelivery`, and every post can go on, while `overlaps = 0` |
| `RoundsNotParallel` | `Spec => [](overlaps = 0 => NoParallelRounds)` |
| `PreparedExecution` | n <= 2f + 2 implies `Spec => [](Calm => ExecPrepared)` |
| `FirstRefusals` | `Spec => []FirstNotRefused` |

The first four hold of every behaviour, with any early timers, losses and crashes.
The log of prepares is a map by sender (`MessagesKeyed`), its messages come from
replicas that broadcast them, never from the node itself or the primary
(`MessagesProper`), and none is about an executed block (`LoggedFresh`: `verifyMsg`
before a prepare is logged, new `MsgLogs` after an execution). So the 2f prepares
for one block that `committed()` finds in the log are from 2f replicas and for a
block not yet passed, which is `ExecAfterQuorum`. It need not be the block that is executed: that one is
taken from the last commit.

The others say when it is, and when rounds do not meet. `overlaps = 0` means that no
timer has fired while a node was at work, as is normal (see "Timing"). Then an
alarm never finds the resolver busy (`QuietDispatchers`), the primary's resolver is
at work for the stage its dispatcher saw (`PrimaryInStage`) and the primary is never
two blocks ahead of its own execution (`InOrder`). From this, or because there is
one round only (`Calm`), all messages that a commit can be built from are for the
next block, unless they are for an executed one. In a replica's log there is room
for 2f senders if n <= 2f + 2, so that a quorum fills it and the commit is for its
block (`CommitsPrepared`). The code has n = 4 and f = 1. With more nodes a log may hold a
quorum for one block and a prepare for another, and the commit may be for the
latter: the bound on n is needed by the argument. `FirstRefusals` needs that a batch
holds f + 1 replies (`RepliesEnough`) and that in the first round all of them carry
the same history; its invariant is that nothing has been refused at all.

Each of these invariants was model-checked with the bounds of `pbft_rounds` before it
was proved. Only model-checked: the liveness properties
`RoundCompletes` and `LossTolerated` (liveness under fairness is out of the
prover's reach), and what runs show to be violated. `RefusedNotExecuted` and
`NoParallelRounds` are not theorems without their hypotheses: `pbft_refused` and
`pbft_parallel` show them violated. Whether `ExecPrepared` holds in later rounds
with early timers is open (see the end of this file).

### Tangle

`TangleProofs` proves, for every value of the five constants:

| Theorem | Statement |
|---|---|
| `TypeCorrect` | `Spec => []TypeOK` |
| `ConfirmedOnce` | `Spec => []CountedOnce` |
| `BuildsOnStored` | `Spec => []ParentsStored` |
| `DepthIsCount` | `Spec => []DepthCounts` |
| `GraphAcyclic` | `Spec => []Acyclic` |
| `ImplementsLedger` | `Spec => Refinement` |

The assumptions are those of `Tangle`: the limits are natural numbers and
`TipExpire` is positive (a ticker needs a positive period).

The argument. `TypeOK` is inductive; that tips are stored is part of it, since
tips are hashes looked up in `Database`. `CountedOnce` is inductive with it: a
confirmed batch comes from the candidates, which are disjoint from the stored
ones, so `txCount` grows by as many as are new. `ParentsStored` needs
`Unborn`: a transaction not yet begun has no parents, so that `ReadTips`
overwrites nothing; `ReadTips` takes parents from the tips, and nothing leaves
`stored`. `DepthCounts` follows from both: no supporter is confirmed before its
parent, so a new record's count starts from its own batch, and the supporters
counted before are disjoint from those of the batch. `ImplementsLedger` maps
`Confirm` to `Extend` of `DagLedger`, or to a stutter if no candidate is old enough;
every other step leaves `stored` and the parents of stored transactions alone.
`GraphAcyclic` is a fact of `DagLedger` (`AcyclicExtend`) carried over by that step:
`Acyclic` says that every set of confirmed transactions has one with no parent in
it, which a batch linked to confirmed transactions alone preserves.

Only model-checked: `TxConfirmed`, a liveness property.

### PbftRequests

`PbftRequestsProofs` proves, for every finite set of requests, every
`MinAccumulatedTx` > 0 and any number of slips:

| Theorem | Statement |
|---|---|
| `TypeCorrect` | `Spec => []TypeOK` |
| `NothingLost` | `Spec => []NoneLost` |
| `NotTwice` | `Spec => []InOneBlock` |
| `OneTransaction` | `Spec => []MadeOnce` |
| `DueBlocks` | `Spec => []BlocksDue` |
| `NoDeadlock` | `Spec => []NotStuck` |

`NoneLost` needs that what is reset has been proposed (`ResetsProposed`, the work
of the mutex) and that a request is deleted when its transaction has a place
(`CurrentPlaced`). `InOneBlock` needs `Numbered`: a new transaction of a request
is not one of its old ones. `MadeOnce` needs `HandedOnce`, which relates all three
goroutines: without a slip, the stage is not `Idle` during a broadcast, so an alarm
that copies the pool finds the resolver done, with every request it has made a
transaction of deleted. `BlocksDue` needs `DueStays`: what was found to be enough
outside the lock can only have grown. `NotStuck` is the safety half of `Proposed`:
dispatcher, resolver and `transactionConsensus` wait for each other at
`MsgDelivery` and at a mutex, and never all do. It needs `DrainsCopy`: nothing joins
the pool while the copy is drained, so that the drain loop never runs out of
requests.

### PbftBootstrap

`PbftBootstrapProofs` proves, for every set of nodes and any number of starts:

| Theorem | Statement |
|---|---|
| `TypeCorrect` | `Spec => []TypeOK` |
| `EarlierKnowsLater` | `Spec => []LaterKnown` |
| `StartTogether` | `Spec => []TogetherComplete` |
| `TablesGrow` | `Spec => NothingForgotten` |

The invariant is `Reached`, with `Coming`: a broadcast has been received by those
it has come to, except the ones started after its sender. A new node is that
exception for all before it, unless none of them has begun its broadcast.
`TablesGrow`, a consequence of one action, is proved only; no run checks it.

### RaftFrontEnd

`RaftFrontEndProofs` proves, for every set of nodes, every finite set of
transactions and every bound:

| Theorem | Statement |
|---|---|
| `TypeCorrect` | `Spec => []TypeOK` |
| `PoolForgetsNone` | `Spec => []NoneForgotten` |
| `PoolServed` | `Spec => []FullPoolServed` |
| `NothingTwice` | `Spec => []AppliedOnce` |
| `StateMachinesAgree` | `Spec => []StateMachineSafety` |
| `SnapshotsCover` | `Spec => []SnapshotCovers` |
| `SuccessReadable` | `Spec => []AnsweredReadable` |
| `AnswersStayTrue` | `Spec => []AnswersTrue` |
| `NoDeadlock` | `Spec => []NotStuck` |
| `ImplementsLedger` | `Spec => Refinement` |

The argument. `WorkOwned` says that a transaction is submitted by the one handler
that has it left to do: the pool holds only what has not been submitted
(`PoolFresh`), a draining handler holds the mutex and has left exactly what is in
the pool (`DrainsPool`), a direct one has its own (`DirectAlone`). `NotLogged`
then keeps what has not been submitted, or was refused, out of the logs, and
`AppliedOnce` follows. `IndicesKept` keeps indices within the log, from which the
state machines' data are prefixes of it. `ImplementsLedger` maps `Commit` to
`Execute`, the completion of a future to `Confirm` or `Refuse`, and everything else
to a stutter. `AnswersStayTrue` is what `TxLedger` says of its answers, carried over
by that step. `NoDeadlock` is the safety half of `HandlersEnd`: the holder of a mutex
is draining (`MutexHeld`), waits for a transaction it has submitted itself
(`AwaitsOwn`), and an open future is that of an entry the leader still has, one the
state machine has not reached, or one that fails when its node steps down
(`FuturesServed`); so a handler or raft can always go on.

Only model-checked, in all modules: liveness (`Proposed`, `LaterLearned`,
`HandlersEnd`), which is out of the prover's reach.

## Not modelled

- Vendored and generic code: most of the C code of the repository is
  libsecp256k1 with its bindings, third-party elliptic-curve arithmetic, vendored
  twice; RLP, hashing, LevelDB wrappers, logging and metrics are support code.
  The protocols use signatures only as "signed by", which is how they appear.
- hashicorp/raft: third-party, an external assumption of `RaftFrontEnd`;
  `raft.go` and `myraft` only configure it.
- Contracts, key-value databases and encodings: sequential data code. Histories
  stand for results. The raft program splits entries at every `-`, so a
  value with one is cut short, on all nodes alike.
- Clients: load generation.
- View change, checkpoints and recovery of a pbft node: the code has none.
- `PbftCluster` with `PbftRequests` in one state space: the cluster alone is at
  the limit of what TLC explores. A deadlock through `WaitingTransactionsMutex`,
  held during a broadcast, would need both; `PROJECT.json` lists it as a hazard
  without a property.
- The receiving side of a tangle node: no message reaches it (see above). Weights,
  heights and scores of transactions stay 0.
- `ExecPrepared` in later rounds with early timers, or with more than 2f + 2 nodes.
  `prepared()` and the commit take their block from different messages, so a node
  that logs 2f prepares of one round and one of another may commit the latter. A
  random simulation of three rounds with early timers found no execution that this leads
  to, and no argument rules it out.
