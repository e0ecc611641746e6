----------------------------- MODULE RaftFrontEnd -----------------------------
(***************************************************************************)
(* The raft program of the repository: the HTTP handlers that turn clients'*)
(* requests into transactions (api/httpApi/httpApi.go), the transaction    *)
(* pool the handlers of a node share, and the state machine with its       *)
(* snapshots (fsm/fsm.go, database/database.go).                           *)
(*                                                                         *)
(* hashicorp/raft is third-party. It is here as what the code relies on: a *)
(* leader appends the entries given to Apply, commits them in order, and   *)
(* every node feeds the committed entries to its state machine; a future   *)
(* tells the caller of Apply what became of its entry.                     *)
(*                                                                         *)
(* Abstractions:                                                           *)
(*   - a request is the transaction its handler makes of it: the time      *)
(*     stamp in nanoseconds makes the transaction unique;                  *)
(*   - the order of a map's iteration is random: the rest of txSet is a    *)
(*     set, of which any member comes next;                                *)
(*   - the data of a state machine is the sequence of the entries it has   *)
(*     executed since the data was last empty;                             *)
(*   - requests with missing parameters and reads return without touching  *)
(*     anything and are left out;                                          *)
(*   - a node that is down is one that takes no step; Restart is its fall  *)
(*     and its return;                                                     *)
(*   - an entry of a former leader that is not committed may be taken over *)
(*     by any later leader, or by none, and in any order: raft allows less.*)
(***************************************************************************)
EXTENDS Integers, FiniteSets, Sequences, SequencesExt

CONSTANTS
    Node,           \* the nodes of raft_cluster
    Tx,             \* the transactions clients send
    Direct,         \* those sent to /newTx or /set; the others go to /newTx_highTPS
    MinBatch,       \* minWaitingTxCount
    Served,         \* bound: the nodes requests are sent to
    MaxLoad,        \* bound: requests, changes of leader, restarts and
                    \* snapshots, all together
    None            \* no transaction, no node

ASSUME SetsAssumption == IsFiniteSet(Tx) /\ Direct \subseteq Tx /\ Served \subseteq Node
                         /\ None \notin Tx /\ None \notin Node
ASSUME NumbersAssumption == MinBatch \in Nat \ {0} /\ MaxLoad \in Nat

\* Where a handler is. It dies with its process.
Step == {"new", "adding", "testing", "locking", "draining", "done", "dead"}

\* What the future of a transaction says: nothing, as Apply has not been
\* called; no answer, before and after the entry is committed; executed; never
\* in any log (ErrNotLeader, ErrEnqueueTimeout); nobody knows
\* (ErrLeadershipLost, or the handler has died).
Fate == {"none", "pending", "committed", "ok", "rejected", "lost"}

VARIABLES
    \* handlers: the request they serve, by its transaction
    at,             \* the node the request is sent to
    step,           \* where the handler is
    todo,           \* the rest of txSet, its own transaction if it is direct
    awaited,        \* the transaction whose future it waits for
    future,         \* what the future of a transaction says
    \* RecordInfo of each node
    pool,           \* txPool
    locked,         \* the handler that holds txPoolMutex
    \* hashicorp/raft
    leader,         \* the leader that commits
    leading,        \* the nodes that take themselves for the leader
    queue,          \* entries of the leader that are not committed
    doubt,          \* entries of former leaders that are not committed
    rlog,           \* the committed entries
    applied,        \* how many of them a node's state machine is past
    snapping,       \* index of the snapshot a node is taking, NoIndex if none
    snap,           \* the last snapshot of a node
    \* Fsm of each node
    db,             \* DataBase.Data
    \* history
    boot,           \* how the node has last started
    load            \* what MaxLoad bounds

handlerVars == <<at, step, todo, awaited, future>>
poolVars == <<pool, locked>>
logVars == <<leader, leading, queue, doubt, rlog>>
fsmVars == <<applied, db, boot>>
snapVars == <<snapping, snap>>
vars == <<handlerVars, poolVars, logVars, fsmVars, snapVars, load>>

NoIndex == -1
Boot == {"first", "replayed", "restored"}

\* One more of what MaxLoad bounds.
Load == load < MaxLoad /\ load' = load + 1

\* A first leader has been elected: clients ask for it (/leader).
Init ==
    /\ at \in [Tx -> Served]
    /\ step = [t \in Tx |-> "new"]
    /\ todo = [t \in Tx |-> {}]
    /\ awaited = [t \in Tx |-> None]
    /\ future = [t \in Tx |-> "none"]
    /\ pool = [n \in Node |-> {}]
    /\ locked = [n \in Node |-> None]
    /\ leader \in Node /\ leading = {leader} /\ queue = <<>> /\ doubt = {} /\ rlog = <<>>
    /\ applied = [n \in Node |-> 0]
    /\ db = [n \in Node |-> <<>>]
    /\ boot = [n \in Node |-> "first"]
    /\ snapping = [n \in Node |-> NoIndex]
    /\ snap = [n \in Node |-> [index |-> 0, data |-> <<>>]]
    /\ load = 0

-----------------------------------------------------------------------------
(* The handlers.                                                           *)

\* A request arrives. A direct one goes straight to Apply.
Arrive(t) ==
    /\ step[t] = "new"
    /\ Load
    /\ IF t \in Direct
         THEN /\ step' = [step EXCEPT ![t] = "draining"]
              /\ todo' = [todo EXCEPT ![t] = {t}]
         ELSE /\ step' = [step EXCEPT ![t] = "adding"]
              /\ UNCHANGED todo
    /\ UNCHANGED <<at, awaited, future, poolVars, logVars, fsmVars, snapVars>>

\* Mutant: the pool is used without its mutex.
MutexIgnored(n) == TRUE

MutexFree(n) == locked[n] = None

\* Lock, txPool[tx] = struct{}{}, Unlock.
Add(t) ==
    /\ step[t] = "adding" /\ MutexFree(at[t])
    /\ pool' = [pool EXCEPT ![at[t]] = @ \cup {t}]
    /\ step' = [step EXCEPT ![t] = "testing"]
    /\ UNCHANGED <<at, todo, awaited, future, locked, logVars, fsmVars, snapVars, load>>

\* Mutant: more than minWaitingTxCount are needed.
MoreThanEnough(n) == Cardinality(pool[n]) > MinBatch

Enough(n) == Cardinality(pool[n]) >= MinBatch

\* The test of the pool's size takes no lock. A handler that finds too few
\* answers with an empty body.
Test(t) ==
    /\ step[t] = "testing"
    /\ step' = [step EXCEPT ![t] = IF Enough(at[t]) THEN "locking" ELSE "done"]
    /\ UNCHANGED <<at, todo, awaited, future, poolVars, logVars, fsmVars, snapVars, load>>

\* The transactions copied into txSet.
Collected(n) == pool[n]

\* The mutex is taken, and kept while the copy is worked through. What is in
\* the pool now need not be what was counted.
Collect(t) ==
    /\ step[t] = "locking" /\ MutexFree(at[t])
    /\ locked' = [locked EXCEPT ![at[t]] = t]
    /\ todo' = [todo EXCEPT ![t] = Collected(at[t])]
    /\ step' = [step EXCEPT ![t] = "draining"]
    /\ UNCHANGED <<at, awaited, future, pool, logVars, fsmVars, snapVars, load>>

\* Mutant: a drained transaction stays in the pool.
WithoutNone(n, x) == pool[n]

\* The pool once x is about to be executed; a direct transaction is not in it.
Without(n, x) == pool[n] \ {x}

\* The next transaction leaves the pool and is given to Apply by t. The leader,
\* or one that still takes itself for it, makes an entry of it. A node that is
\* none refuses; so does any, once the timeout given to Apply is over before
\* raft has taken the entry from its caller.
Submit(t, x) ==
    /\ step[t] = "draining" /\ awaited[t] = None /\ x \in todo[t]
    /\ pool' = [pool EXCEPT ![at[t]] = Without(at[t], x)]
    /\ \/ /\ at[t] \in leading
          /\ awaited' = [awaited EXCEPT ![t] = x]
          /\ future' = [future EXCEPT ![x] = "pending"]
          /\ IF at[t] = leader THEN queue' = Append(queue, x) /\ UNCHANGED doubt
                               ELSE doubt' = doubt \cup {x} /\ UNCHANGED queue
          /\ UNCHANGED todo
       \/ /\ future' = [future EXCEPT ![x] = "rejected"]
          /\ todo' = [todo EXCEPT ![t] = @ \ {x}]
          /\ UNCHANGED <<awaited, queue, doubt>>
    /\ UNCHANGED <<at, step, locked, leader, leading, rlog, fsmVars, snapVars, load>>

\* future.Error() returns: the result goes to the answer.
Finish(t) ==
    /\ step[t] = "draining" /\ awaited[t] # None
    /\ future[awaited[t]] \in {"ok", "lost"}
    /\ todo' = [todo EXCEPT ![t] = @ \ {awaited[t]}]
    /\ awaited' = [awaited EXCEPT ![t] = None]
    /\ UNCHANGED <<at, step, future, poolVars, logVars, fsmVars, snapVars, load>>

\* Mutant: a return without Unlock.
StillLocked(t) == locked

\* The holders of the mutexes once t has unlocked the one it holds, if any.
Unlocked(t) == [n \in Node |-> IF locked[n] = t THEN None ELSE locked[n]]

\* Unlock, Response.
Answer(t) ==
    /\ step[t] = "draining" /\ awaited[t] = None /\ todo[t] = {}
    /\ locked' = Unlocked(t)
    /\ step' = [step EXCEPT ![t] = "done"]
    /\ UNCHANGED <<at, todo, awaited, future, pool, logVars, fsmVars, snapVars, load>>

-----------------------------------------------------------------------------
(* hashicorp/raft, and what it asks of the state machine.                  *)

\* Entries whose callers n still owes an answer.
Owed(n, fate) == {t \in Tx : at[t] = n /\ future[t] = fate}

\* Mutant: a loss of leadership is reported as a refusal.
LostRefused(T) == [t \in Tx |-> IF t \in T THEN "rejected" ELSE future[t]]

\* The futures once those of T have failed for loss of leadership.
Lost(T) == [t \in Tx |-> IF t \in T THEN "lost" ELSE future[t]]

\* A new leader has all committed entries and any of the others.
Elect(n) ==
    /\ Load
    /\ n \notin leading
    /\ leader' = n /\ leading' = leading \cup {n}
    /\ LET open == doubt \cup ToSet(queue) IN
         \E kept \in SUBSET open : \E q \in SetToSeqs(kept) :
             /\ queue' = q
             /\ doubt' = open \ ToSet(q)
    /\ UNCHANGED <<handlerVars, poolVars, rlog, fsmVars, snapVars>>

\* The log when the leader of it stops leading.
Abandon(n) ==
    /\ leading' = leading \ {n}
    /\ IF n = leader
         THEN leader' = None /\ queue' = <<>> /\ doubt' = doubt \cup ToSet(queue)
         ELSE UNCHANGED <<leader, queue, doubt>>

\* A leader that hears of another, or no longer of a majority, steps down. It
\* fails the futures it has not handed to the state machine; whether that
\* includes entries just committed depends on how far it has come.
StepDown(n) ==
    /\ n \in leading
    /\ Abandon(n)
    /\ \E T \in SUBSET Owed(n, "committed") :
           future' = Lost(T \cup Owed(n, "pending"))
    /\ UNCHANGED <<at, step, todo, awaited, poolVars, rlog, fsmVars, snapVars, load>>

\* A majority has the first entry of the leader's queue.
Commit ==
    /\ queue # <<>>
    /\ rlog' = Append(rlog, Head(queue))
    /\ queue' = Tail(queue)
    /\ future' = [t \in Tx |-> IF t = Head(queue) /\ t \in Owed(leader, "pending")
                                 THEN "committed" ELSE future[t]]
    /\ UNCHANGED <<at, step, todo, awaited, poolVars, leader, leading, doubt, fsmVars,
                   snapVars, load>>

\* Mutant: Apply has no case for contracts.
FsmApplySet(data, t) == IF t \in Direct THEN Append(data, t) ELSE data

\* Fsm.Apply: a set or a contract runs on the data, which is the sequence of
\* entries that have run. One whose contract returns an error has run, too: the
\* error is the response of a future without error, and counts as a success.
\* The contract "BGP", which panics in every node, is not used.
FsmApply(data, t) == Append(data, t)

\* A node feeds the next committed entry to its state machine and completes
\* its future. One that wrongly takes itself for the leader has heard of none.
ApplyNext(n) ==
    /\ applied[n] < Len(rlog)
    /\ n \in leading => n = leader
    /\ LET t == rlog[applied[n] + 1] IN
         /\ db' = [db EXCEPT ![n] = FsmApply(@, t)]
         /\ future' = [x \in Tx |-> IF x = t /\ x \in Owed(n, "committed")
                                      THEN "ok" ELSE future[x]]
    /\ applied' = [applied EXCEPT ![n] = @ + 1]
    /\ UNCHANGED <<at, step, todo, awaited, poolVars, logVars, boot, snapVars, load>>

\* Fsm.Snapshot returns the live database ...
Snapshot(n) ==
    /\ Load
    /\ snapping[n] = NoIndex /\ applied[n] > snap[n].index
    /\ snapping' = [snapping EXCEPT ![n] = applied[n]]
    /\ UNCHANGED <<handlerVars, poolVars, logVars, fsmVars, snap>>

\* Mutant: only what has come since the last snapshot is written.
PersistedNew(n) == SubSeq(db[n], snap[n].index + 1, Len(db[n]))

\* What Persist writes.
Persisted(n) == db[n]

\* ... which Persist writes later, from another goroutine.
Persist(n) ==
    /\ snapping[n] # NoIndex
    /\ snap' = [snap EXCEPT ![n] = [index |-> snapping[n], data |-> Persisted(n)]]
    /\ snapping' = [snapping EXCEPT ![n] = NoIndex]
    /\ UNCHANGED <<handlerVars, poolVars, logVars, fsmVars, load>>

\* Fsm.Restore: the data after a snapshot has been read into data: nothing.
Restore(data) == data

\* The leader sends its snapshot to a node that lags behind it.
InstallSnapshot(n) ==
    /\ leader # None /\ n \notin leading
    /\ snap[leader].index > applied[n]
    /\ Owed(n, "committed") = {}
    /\ snap' = [snap EXCEPT ![n] = snap[leader]]
    /\ applied' = [applied EXCEPT ![n] = snap[leader].index]
    /\ db' = [db EXCEPT ![n] = Restore(@)]
    /\ boot' = [boot EXCEPT ![n] = "restored"]
    /\ UNCHANGED <<handlerVars, poolVars, logVars, snapping, load>>

\* Mutant: the database survives its process.
OldDatabase(n) == db[n]

\* The database NewFsm starts with.
NewDatabase(n) == <<>>

\* The process of n ends and starts again. Pool, handlers and data are gone;
\* the log and the snapshot are on disk. The snapshot is restored, the
\* entries after it will be applied again.
Restart(n) ==
    /\ Load
    /\ Abandon(n)
    /\ step' = [t \in Tx |-> IF at[t] = n /\ step[t] \notin {"new", "done"}
                               THEN "dead" ELSE step[t]]
    /\ future' = Lost(Owed(n, "pending") \cup Owed(n, "committed"))
    /\ pool' = [pool EXCEPT ![n] = {}]
    /\ locked' = [locked EXCEPT ![n] = None]
    /\ applied' = [applied EXCEPT ![n] = snap[n].index]
    /\ db' = [db EXCEPT ![n] = Restore(NewDatabase(n))]
    /\ boot' = [boot EXCEPT ![n] = IF snap[n].index = 0 THEN "replayed" ELSE "restored"]
    /\ snapping' = [snapping EXCEPT ![n] = NoIndex]
    /\ UNCHANGED <<at, todo, awaited, rlog, snap>>

-----------------------------------------------------------------------------
Handler(t) ==
    \/ Arrive(t) \/ Add(t) \/ Test(t) \/ Collect(t)
    \/ \E x \in todo[t] : Submit(t, x)
    \/ Finish(t) \/ Answer(t)

Raft(n) ==
    \/ Elect(n) \/ StepDown(n) \/ ApplyNext(n)
    \/ Snapshot(n) \/ Persist(n) \/ InstallSnapshot(n) \/ Restart(n)

Next == (\E t \in Tx : Handler(t)) \/ (\E n \in Node : Raft(n)) \/ Commit

Spec == Init /\ [][Next]_vars

\* What the program and raft do by themselves: handlers run, a leader's entries
\* are replicated and applied, a leader that has been replaced hears of it.
Progress ==
    \/ \E t \in Tx : step[t] # "new" /\ Handler(t)
    \/ Commit
    \/ \E n \in Node : ApplyNext(n) \/ (n # leader /\ StepDown(n))

\* The system does not stand still while some part of it can move. This is
\* less than fairness to each part, but with finitely many requests the parts
\* cannot keep each other from moving for ever. Nothing is assumed of
\* arrivals, elections, snapshots and restarts.
Fairness == WF_vars(Progress)

FairSpec == Spec /\ Fairness

-----------------------------------------------------------------------------
(* Properties.                                                             *)

HandlersTyped ==
    /\ at \in [Tx -> Node] /\ step \in [Tx -> Step] /\ todo \in [Tx -> SUBSET Tx]
    /\ awaited \in [Tx -> Tx \cup {None}] /\ future \in [Tx -> Fate]
    /\ pool \in [Node -> SUBSET Tx] /\ locked \in [Node -> Tx \cup {None}]
    /\ load \in Nat

LogTyped ==
    /\ leader \in Node \cup {None} /\ leading \subseteq Node
    /\ queue \in Seq(Tx) /\ doubt \subseteq Tx /\ rlog \in Seq(Tx)
    /\ leader # None => leader \in leading
    /\ leader = None => queue = <<>>

DataTyped ==
    /\ applied \in [Node -> Nat] /\ db \in [Node -> Seq(Tx)] /\ boot \in [Node -> Boot]
    /\ snapping \in [Node -> Nat \cup {NoIndex}]
    /\ snap \in [Node -> [index : Nat, data : Seq(Tx)]]

\* The mutex of a node is held by a handler of that node that is draining the
\* pool, and a handler awaits what it still has to do.
MutexHeld ==
    /\ \A n \in Node : locked[n] # None => at[locked[n]] = n /\ step[locked[n]] = "draining"
    /\ \A t \in Tx : awaited[t] # None =>
           awaited[t] \in todo[t] /\ step[t] \in {"draining", "dead"}

\* The type invariant, with who may hold a mutex.
TypeOK == HandlersTyped /\ LogTyped /\ DataTyped /\ MutexHeld

\* No entry is twice among the committed ones, those of the leader and those
\* in doubt: two handlers that both find the pool full never submit the same
\* transaction, and a failed one is not submitted again.
AppliedOnce ==
    /\ IsInjective(rlog) /\ IsInjective(queue)
    /\ ToSet(rlog) \cap ToSet(queue) = {}
    /\ doubt \cap (ToSet(rlog) \cup ToSet(queue)) = {}

\* While its node runs, a transaction that has been added is in the pool until
\* it is submitted, and not a moment longer: none falls between two drains.
NoneForgotten ==
    \A t \in Tx \ Direct :
        step[t] \in {"testing", "locking", "draining", "done"} /\ boot[at[t]] = "first"
          => (t \in pool[at[t]] <=> future[t] = "none")

\* A pool that has reached minWaitingTxCount has a handler that will drain it:
\* the last handler to add tests after adding, and one that drains keeps others
\* from adding until it has taken everything.
FullPoolServed ==
    \A n \in Node : Cardinality(pool[n]) >= MinBatch =>
        \E t \in Tx \ Direct : at[t] = n /\ step[t] \in {"testing", "locking", "draining"}

\* Until a snapshot has been restored, the data of a node is the result of the
\* entries applied, each once and in the order of the log, also after a restart.
StateMachineSafety ==
    \A n \in Node : boot[n] # "restored" =>
        Len(db[n]) = applied[n] /\ IsPrefix(db[n], rlog)

\* A write answered with success is found by a read on the same node, through
\* later elections and snapshots and until the node restarts.
AnsweredReadable ==
    \A t \in Tx : future[t] = "ok" /\ boot[at[t]] = "first" => t \in ToSet(db[at[t]])

\* A snapshot holds the entries up to its index, although Persist writes the
\* database after more have been applied (until a Restore has lost the data).
SnapshotCovers ==
    \A n \in Node : boot[n] # "restored" =>
        snap[n].index <= Len(snap[n].data) /\ IsPrefix(snap[n].data, rlog)

\* What the above rests on: a transaction is submitted by the one handler that
\* has it left to do.
Unborn ==
    /\ \A t \in Direct : step[t] \in {"new", "draining", "done", "dead"}
    /\ \A t \in Tx : step[t] \in {"new", "adding"} => future[t] = "none"

PoolFresh ==
    \A n \in Node : \A x \in pool[n] :
        x \notin Direct /\ at[x] = n /\ future[x] = "none" /\ step[x] \notin {"new", "adding"}

\* A handler that drains the pool holds the mutex and has left what is in it.
DrainsPool ==
    \A t \in Tx \ Direct : step[t] = "draining" =>
        locked[at[t]] = t /\ todo[t] \ {awaited[t]} = pool[at[t]]

\* A direct one has at most its own transaction left.
DirectAlone ==
    \A t \in Direct : step[t] = "draining" =>
        todo[t] \subseteq {t} /\ (awaited[t] = None /\ todo[t] # {} => future[t] = "none")

WorkOwned == Unborn /\ PoolFresh /\ DrainsPool /\ DirectAlone

\* What has not been submitted, or has been refused, is in no log.
NotLogged ==
    \A t \in Tx : future[t] \in {"none", "rejected"} =>
        t \notin ToSet(rlog) \cup ToSet(queue) \cup doubt

\* Indices are within the log, and data has been lost only by a snapshot.
IndicesKept ==
    \A n \in Node :
        /\ applied[n] <= Len(rlog) /\ snap[n].index <= Len(rlog)
        /\ snapping[n] # NoIndex => 0 < snapping[n] /\ snapping[n] <= applied[n]
        /\ boot[n] = "restored" => snap[n].index > 0

\* The refinement mapping: what clients are told.
Ledger == INSTANCE TxLedger WITH
              accepted <- {t \in Tx : step[t] # "new"},
              ledger <- rlog,
              confirmed <- {t \in Tx : future[t] = "ok"},
              refused <- {t \in Tx : future[t] = "rejected"}
Refinement == Ledger!Spec

\* A write answered with success is in the log, one answered with a refusal is
\* not and never will be, however late the entries of former leaders are
\* committed (195-201).
AnswersTrue == Ledger!Honest

\* The requests whose handlers are at work.
UnderWay == {t \in Tx : step[t] \notin {"new", "done", "dead"}}

\* Every request is answered unless its node restarts: however many handlers
\* are at work, a time comes when none is. None waits for ever for the mutex or
\* for a future, although a whole batch goes through consensus under the mutex.
HandlersEnd == UnderWay # {} ~> UnderWay = {}

\* A handler under way that waits for nothing: the mutex it needs is free, or
\* the future it waits for has its answer.
CanGoOn(t) ==
    \/ step[t] \in {"adding", "locking"} /\ MutexFree(at[t])
    \/ step[t] = "testing"
    \/ step[t] = "draining" /\ awaited[t] = None
    \/ step[t] = "draining" /\ future[awaited[t]] \in {"ok", "lost"}

\* Raft has something left to do: an entry to commit or to apply, or a former
\* leader that has to hear of the next.
RaftGoesOn ==
    \/ queue # <<>>
    \/ leading \ {leader} # {}
    \/ \E n \in Node : applied[n] < Len(rlog) /\ (n \in leading => n = leader)

\* Handlers never all wait for each other: a handler that keeps the mutex while
\* a batch goes through consensus waits for a future that raft still completes,
\* whatever leaders change and nodes restart in the meantime (185-201).
NotStuck == UnderWay # {} => RaftGoesOn \/ \E t \in UnderWay : CanGoOn(t)

\* Why: a future without an answer is that of an entry of the leader, or will
\* fail when its node hears that it leads no more; one whose entry is committed
\* is ahead of the state machine of its node.
FuturesServed ==
    \A x \in Tx :
        /\ future[x] = "pending" =>
              at[x] \in leading /\ (at[x] = leader => x \in ToSet(queue))
        /\ future[x] = "committed" =>
              \E k \in (applied[at[x]] + 1)..Len(rlog) : rlog[k] = x

\* A handler waits for a transaction it has submitted itself.
AwaitsOwn ==
    \A t \in Tx : step[t] = "draining" /\ awaited[t] # None =>
        at[awaited[t]] = at[t] /\ future[awaited[t]] \notin {"none", "rejected"}
=============================================================================
