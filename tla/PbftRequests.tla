----------------------------- MODULE PbftRequests -----------------------------
(***************************************************************************)
(* How the primary of the pbft program turns clients' requests into        *)
(* blocks (pbft/network/node.go): the dispatcher puts a request into       *)
(* ReqMsgs and hands the pool to the resolver by alarm, the resolver makes *)
(* a transaction of each request (GetReq), and transactionConsensus makes  *)
(* a block of the waiting transactions. PbftCluster takes it from there.   *)
(*                                                                         *)
(* Abstractions:                                                           *)
(*   - a request is named by its hash: it has the time stamp of its client,*)
(*     which sends it once;                                                *)
(*   - a transaction is the request it is made of and how many that made   *)
(*     before it, so that two of one request differ;                       *)
(*   - WaitingTransactions and a block are sets: the properties do not ask *)
(*     for the order within a block;                                       *)
(*   - CurrentState is nil until the first GetReq; its stage is Idle then: *)
(*     every test treats the two alike, and a waiting transaction means    *)
(*     that GetReq has made the state;                                     *)
(*   - the rest of a round, between the broadcast of the block and the     *)
(*     reset of the stage, is one step. Only the primary receives requests,*)
(*     and it never has a pre-prepare message of another node.             *)
(***************************************************************************)
EXTENDS Integers, FiniteSets

CONSTANTS
    Request,            \* the requests clients send
    MinAccumulatedTx,   \* transactions that start a round at once
    MaxSlips,           \* bound: how often the timing slips, see Slip
    None                \* no request

ASSUME RequestsAssumption == IsFiniteSet(Request) /\ None \notin Request
ASSUME NumbersAssumption == MinAccumulatedTx \in Nat \ {0} /\ MaxSlips \in Nat

VARIABLES
    accepted,       \* requests the dispatcher has taken from MsgEntrance
    \* dispatchMsg
    pool,           \* ReqMsgs
    disp,           \* where the dispatcher is
    batch,          \* the copy of the pool that is drained and handed over
    ahead,          \* the part of it that the drain loop has not come to
    \* resolveMsg
    work,           \* requests of its batch that it has not come to
    current,        \* the one whose transaction waits, but which is in ReqMsgs
    made,           \* how many transactions a request has become
    \* transactionConsensus
    tc,             \* where it is; it has the mutex of waiting in "broadcasting"
    waiting,        \* WaitingTransactions
    blocks,         \* the blocks it has proposed
    stage,          \* CurrentState.CurrentStage: Idle or in a round
    overdue,        \* MaxWaitingTx has passed since LastConsensusFinTime
    slips           \* what MaxSlips bounds

dispVars == <<pool, disp, batch, ahead>>
workVars == <<work, current, made>>
roundVars == <<tc, blocks, stage, overdue>>
vars == <<accepted, dispVars, workVars, roundVars, waiting, slips>>

Init ==
    /\ accepted = {}
    /\ pool = {} /\ disp = "ready" /\ batch = {} /\ ahead = {}
    /\ work = {} /\ current = None
    /\ made = [r \in Request |-> 0]
    /\ tc = "watching" /\ waiting = {} /\ blocks = {}
    /\ stage = "Idle" /\ overdue = FALSE
    /\ slips = 0

\* The resolver is at work, and not held up by the mutex of waiting.
ResolverRuns == current # None \/ (work # {} /\ tc # "broadcasting")

ResolverFree == current = None /\ work = {}

\* Alarms are a second apart and a round takes many posts; the steps of the
\* resolver take microseconds. MaxSlips times a step happens all the same
\* although it should have had to wait for what "early" says is still going on.
Slip(early) ==
    \/ ~early /\ UNCHANGED slips
    \/ early /\ slips < MaxSlips /\ slips' = slips + 1

-----------------------------------------------------------------------------
(* The dispatcher.                                                         *)

\* A client posts a request; the dispatcher puts it into its pool.
Accept(r) ==
    /\ r \notin accepted /\ disp = "ready"
    /\ accepted' = accepted \cup {r}
    /\ pool' = pool \cup {r}
    /\ UNCHANGED <<disp, batch, ahead, workVars, roundVars, waiting, slips>>

\* Mutant: the pool is handed over in every stage.
AlarmInRound ==
    /\ disp = "ready" /\ pool # {}
    /\ Slip(ResolverRuns)
    /\ disp' = "draining" /\ batch' = pool /\ ahead' = pool
    /\ UNCHANGED <<accepted, pool, workVars, roundVars, waiting>>

\* An alarm between two rounds: the dispatcher copies the pool.
Alarm ==
    /\ disp = "ready" /\ stage = "Idle" /\ pool # {}
    /\ Slip(ResolverRuns)
    /\ disp' = "draining" /\ batch' = pool /\ ahead' = pool
    /\ UNCHANGED <<accepted, pool, workVars, roundVars, waiting>>

\* i < MsgNum(): i is the number of requests passed, and the pool shrinks.
DrainOn == Cardinality(batch \ ahead) < Cardinality(pool)

Drain(r) ==
    /\ disp = "draining" /\ DrainOn /\ r \in ahead
    /\ pool' = pool \ {r}
    /\ ahead' = ahead \ {r}
    /\ UNCHANGED <<accepted, disp, batch, workVars, roundVars, waiting, slips>>

\* Mutant: the copy stays with the dispatcher.
HandOverKept ==
    /\ disp = "draining" /\ ~DrainOn /\ ResolverFree
    /\ work' = batch
    /\ disp' = "ready"
    /\ UNCHANGED <<accepted, pool, batch, ahead, current, made, roundVars, waiting, slips>>

\* The loop is over; the resolver receives the whole copy from MsgDelivery.
HandOver ==
    /\ disp = "draining" /\ ~DrainOn /\ ResolverFree
    /\ work' = batch
    /\ disp' = "ready" /\ batch' = {} /\ ahead' = {}
    /\ UNCHANGED <<accepted, pool, current, made, roundVars, waiting, slips>>

-----------------------------------------------------------------------------
(* The resolver.                                                           *)

\* Mutant: waiting is changed without its mutex.
AppendUnlocked(r) ==
    /\ current = None /\ r \in work
    /\ work' = work \ {r}
    /\ made' = [made EXCEPT ![r] = @ + 1]
    /\ waiting' = waiting \cup {<<r, made'[r]>>}
    /\ current' = r
    /\ UNCHANGED <<accepted, dispVars, roundVars, slips>>

\* GetReq: the transaction is appended under the mutex.
AppendTx(r) ==
    /\ current = None /\ r \in work /\ tc # "broadcasting"
    /\ work' = work \ {r}
    /\ made' = [made EXCEPT ![r] = @ + 1]
    /\ waiting' = waiting \cup {<<r, made'[r]>>}
    /\ current' = r
    /\ UNCHANGED <<accepted, dispVars, roundVars, slips>>

\* Mutant: GetReq does not delete the request.
KeepReq ==
    /\ current # None
    /\ current' = None
    /\ UNCHANGED <<accepted, dispVars, work, made, roundVars, waiting, slips>>

\* GetReq: the request is deleted from the pool, if the drain loop left it.
DelReq ==
    /\ current # None
    /\ pool' = pool \ {current}
    /\ current' = None
    /\ UNCHANGED <<accepted, disp, batch, ahead, work, made, roundVars, waiting, slips>>

-----------------------------------------------------------------------------
(* transactionConsensus.                                                   *)

\* Mutant: only the number of transactions starts a round.
OnlyFull == Cardinality(waiting) >= MinAccumulatedTx

\* Mutant: a round starts without transactions.
AlsoEmpty == Cardinality(waiting) >= MinAccumulatedTx \/ overdue

\* The two conditions that start a round.
Due == Cardinality(waiting) >= MinAccumulatedTx \/ (waiting # {} /\ overdue)

\* The tests, which take no lock.
Test ==
    /\ tc = "watching" /\ stage = "Idle" /\ Due
    /\ tc' = "due"
    /\ UNCHANGED <<accepted, dispVars, workVars, blocks, stage, overdue, waiting, slips>>

\* Mutant: StartConsensus does not change the stage.
StartIdle ==
    /\ tc = "due"
    /\ tc' = "broadcasting"
    /\ blocks' = blocks \cup {waiting}
    /\ UNCHANGED <<accepted, dispVars, workVars, stage, overdue, waiting, slips>>

\* Lock and StartConsensus: a block of what waits by now.
Start ==
    /\ tc = "due"
    /\ tc' = "broadcasting"
    /\ stage' = "PrePrepared"
    /\ blocks' = blocks \cup {waiting}
    /\ UNCHANGED <<accepted, dispVars, workVars, overdue, waiting, slips>>

\* Mutant: the transactions are not reset.
FinishOnly ==
    /\ tc = "broadcasting"
    /\ tc' = "watching"
    /\ UNCHANGED <<accepted, dispVars, workVars, blocks, stage, overdue, waiting, slips>>

\* The block has been posted to every replica; reset and Unlock.
FinishBroadcast ==
    /\ tc = "broadcasting"
    /\ tc' = "watching"
    /\ waiting' = {}
    /\ UNCHANGED <<accepted, dispVars, workVars, blocks, stage, overdue, slips>>

\* The resolver has dealt with the batches of the round, which the dispatcher
\* handed over. Replies left over from the round before may have it do so too
\* early, while the block is still being posted.
EndRound ==
    /\ stage # "Idle" /\ disp = "ready" /\ ResolverFree
    /\ Slip(tc = "broadcasting")
    /\ stage' = "Idle"
    /\ UNCHANGED <<accepted, dispVars, workVars, tc, blocks, overdue, waiting>>

\* Ten seconds after its start; LastConsensusFinTime is never set again.
Elapse ==
    /\ ~overdue
    /\ overdue' = TRUE
    /\ UNCHANGED <<accepted, dispVars, workVars, tc, blocks, stage, waiting, slips>>

-----------------------------------------------------------------------------
Progress ==
    \/ Alarm \/ HandOver \/ DelReq
    \/ \E r \in Request : Drain(r) \/ AppendTx(r)
    \/ Test \/ Start \/ FinishBroadcast \/ EndRound \/ Elapse

Next == Progress \/ \E r \in Request : Accept(r)

Spec == Init /\ [][Next]_vars

\* The goroutines go on, and so does time; a broadcast and a round end. Whether
\* they do is a question about the cluster.
Fairness == WF_vars(Progress)

FairSpec == Spec /\ Fairness

-----------------------------------------------------------------------------
(* Properties.                                                             *)

Tx == Request \X (Nat \ {0})

\* The types of the variables; a request that waits for its deletion is in no
\* batch of the dispatcher's, whose drain loop has something to go on with.
TypeOK ==
    /\ accepted \subseteq Request /\ pool \subseteq accepted
    /\ disp \in {"ready", "draining"}
    /\ batch \subseteq accepted /\ ahead \subseteq batch
    /\ disp = "ready" => batch = {}
    /\ work \subseteq accepted
    /\ current \in accepted \cup {None}
    /\ made \in [Request -> Nat]
    /\ tc \in {"watching", "due", "broadcasting"}
    /\ waiting \subseteq Tx
    /\ blocks \subseteq SUBSET Tx
    /\ stage \in {"Idle", "PrePrepared"}
    /\ overdue \in BOOLEAN
    /\ slips \in 0..MaxSlips

\* The transactions that wait or are in a block.
Placed == waiting \cup UNION blocks

\* No request is lost between the pool, of which the drain loop deletes the
\* half, the batches, the waiting transactions, which are reset after a
\* broadcast, and the blocks (node.go 201-247, 250-277, 503-511).
NoneLost ==
    \A r \in accepted :
        \/ r \in pool \cup batch \cup work
        \/ \E t \in Placed : t[1] = r

\* Why none is lost: what is reset is what has been proposed, as nothing joins
\* the transactions that wait while a block is posted (the mutex, 213-224), and
\* a request is deleted when its transaction has a place.
ResetsProposed == tc = "broadcasting" => waiting \in blocks
CurrentPlaced == current # None => \E t \in Placed : t[1] = current

\* No transaction waits again, or is in two blocks (the reset after every
\* round, 223 and 240).
InOneBlock ==
    /\ \A b, c \in blocks : b = c \/ b \cap c = {}
    /\ tc # "broadcasting" => waiting \cap UNION blocks = {}

\* Why: a request's transactions are numbered as they are made.
Numbered == \A t \in Placed : t[2] <= made[t[1]]

\* A request becomes one transaction, although the drain loop leaves half of
\* the pool for the next alarm: GetReq deletes it first. Only a slip in the
\* timing lets it be handed over twice (503-511 and 274).
MadeOnce == slips = 0 => \A r \in Request : made[r] <= 1

\* Why: without a slip, the dispatcher copies its pool only between rounds and
\* when the resolver has dealt with all it had; what the pool holds by then has
\* not been made a transaction of.
HandedOnce ==
    /\ \A r \in Request \ accepted : made[r] = 0
    /\ slips = 0 =>
         /\ tc = "broadcasting" => stage # "Idle"
         /\ disp = "draining" => ResolverFree
         /\ \A r \in (pool \ {current}) \cup batch \cup work : made[r] = 0

\* No block is empty, although its size is tested outside the lock, and one of
\* fewer transactions than it takes is proposed after MaxWaitingTx only (211,
\* 226).
BlocksDue == \A b \in blocks : b # {} /\ (overdue \/ Cardinality(b) >= MinAccumulatedTx)

\* Why: what has been seen to be enough can only grow.
DueStays == IsFiniteSet(waiting) /\ (tc = "due" => Due)

\* Every request a client has got accepted is in a block in the end, those
\* that arrive during a round and a last single one too.
Proposed == \A r \in Request : r \in accepted ~> \E t \in UNION blocks : t[1] = r

\* The requests that are in no block yet.
Unproposed == {r \in accepted : \A t \in UNION blocks : t[1] # r}

\* A goroutine can go on, without a slip and without waiting for MaxWaitingTx.
GoesOn ==
    \/ disp = "draining" /\ IF DrainOn THEN ahead # {} ELSE ResolverFree
    \/ disp = "ready" /\ stage = "Idle" /\ pool # {} /\ ~ResolverRuns
    \/ ResolverRuns
    \/ tc # "watching"
    \/ stage = "Idle" /\ Due
    \/ stage # "Idle" /\ disp = "ready" /\ ResolverFree

\* Dispatcher, resolver and transactionConsensus, which wait for each other at
\* MsgDelivery and at the mutex of WaitingTransactions, never all wait while a
\* request has no block and MaxWaitingTx has passed (213, 253 and 511).
NotStuck == overdue /\ Unproposed # {} => GoesOn

\* Why: while the copy is drained nothing joins the pool, so that the drain
\* loop never runs out of requests.
DrainsCopy == disp = "draining" => pool \subseteq batch
=============================================================================
