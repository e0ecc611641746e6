---------------------------- MODULE PbftCluster ----------------------------
(***************************************************************************)
(* The consensus of pbft_blockChain: a fixed primary and its replicas run  *)
(* rounds of pre-prepare, prepare, commit and reply (pbft/network/node.go, *)
(* pbft/consensus/pbft_impl.go).                                           *)
(*                                                                         *)
(* Every node runs three goroutines that this module keeps apart, since    *)
(* they talk over UNBUFFERED channels and share CurrentStage and the pools *)
(* without a common lock:                                                  *)
(*   - the dispatcher (dispatchMsg) puts received messages into the pools  *)
(*     and, on an alarm, hands one pool to the resolver;                   *)
(*   - the resolver (resolveMsg) runs the handlers, which broadcast by     *)
(*     synchronous http.Post: it cannot go on until the DISPATCHER of each *)
(*     destination has taken the message;                                  *)
(*   - the primary's transactionConsensus starts rounds.                   *)
(*                                                                         *)
(* Abstractions:                                                           *)
(*   - a block, its BlockID and its SequenceID are one number, the number  *)
(*     of the proposal: BlockID is a hash of the transactions, which carry *)
(*     client timestamps, and SequenceID is a clock reading, taken to be   *)
(*     increasing;                                                         *)
(*   - the view is one hard-coded constant on every node and is left out;  *)
(*     CurrentState = nil is stage "Idle" with last = 0 (LastSequenceID =  *)
(*     -1): no code tells them apart in the handlers modelled here;        *)
(*   - every node knows every other (the NodeInfo exchange is over), so no  *)
(*     signature is dropped, and which ones a block carries follows from    *)
(*     the messages it has been through: only their number is kept;         *)
(*   - the result of executing a block is the history of blocks the node   *)
(*     has executed, the worst case of a contract that reads the state;    *)
(*   - the test of a pool's size and the drain of the pool by an alarm are *)
(*     one step; so is the handling of the messages of a batch up to the   *)
(*     next broadcast, since it touches nothing but the node's own log.    *)
(* The intake of client requests is not part of this module: some block is *)
(* available whenever transactionConsensus looks.                          *)
(***************************************************************************)
EXTENDS Integers, FiniteSets, Sequences, SequencesExt

CONSTANTS
    Nodes,          \* the nodes of pbft_cluser
    Primary,        \* main_node, the primary of the only view
    f,              \* faults the quorums are computed for, 1 in the code
    MaxBlocks,      \* bound: rounds the primary starts
    MaxLoss,        \* bound: posts to a live node that fail
    Hasty,          \* bound: nodes whose timers fire while some node is at work
    Mortal,         \* bound: nodes that stop for good
    MaxDisturbances,\* bound: such timers and stops, together
    LastDisturbed,  \* bound: the last round in which they happen
    NoMsg           \* not a message

ASSUME NodesAssumption == IsFiniteSet(Nodes) /\ Primary \in Nodes
ASSUME BoundsAssumption == f \in Nat \ {0} /\ MaxBlocks \in Nat
                           /\ MaxLoss \in Nat /\ MaxDisturbances \in Nat
                           /\ LastDisturbed \in Nat
                           /\ Hasty \subseteq Nodes /\ Mortal \subseteq Nodes

Blocks == 1..MaxBlocks
Stage == {"Idle", "PrePrepared", "Prepared", "Committed"}
MsgType == {"preprepare", "prepare", "commit", "reply"}

\* PrePrepareMsg, VoteMsg and ReplyMsg. votes is the number of signatures on
\* the block, history the ResultSet of a reply.
Msg == [type : MsgType, from : Nodes, seq : Blocks, votes : Nat,
        history : Seq(Blocks)]

ASSUME NoMsgAssumption == NoMsg \notin Msg

\* A synchronous broadcast: the message and who has not taken it yet.
NoPost == [msg |-> NoMsg, to |-> {}]
Post == [msg : Msg, to : SUBSET Nodes] \cup {NoPost}

VARIABLES
    stage,      \* CurrentState.CurrentStage
    last,       \* CurrentState.LastSequenceID, 0 for -1
    log,        \* CurrentState.MsgLogs: PrepareMsgs and CommitMsgs
    pool,       \* MsgBuffer: one pool for each type of message
    disp,       \* the batch a dispatcher is blocked on at MsgDelivery, or <<>>
    work,       \* what the resolver has still to handle of its batch
    out,        \* the broadcast a resolver is in, or NoPost
    answering,  \* the primary's resolver is sending results to the client
    prop,       \* the pre-prepare broadcast of transactionConsensus, or NoPost
    proposals,  \* number of rounds started
    executed,   \* blocks a node has executed, in order (its WorldState)
    answers,    \* how often the client was told that a block succeeded
    refused,    \* how often the client was told that a block failed
    up,         \* the nodes that have not crashed
    losses,     \* posts to a live node that failed
    overlaps,   \* timers that fired while a node was at work
    prepares    \* history: blocks a node has broadcast a prepare for

consensusVars == <<stage, last, log, executed>>
bufferVars == <<pool, disp>>
resolverVars == <<work, out, answering>>
proposerVars == <<prop, proposals>>
clientVars == <<answers, refused>>
envVars == <<up, losses, overlaps>>
vars == <<stage, last, log, executed, pool, disp, work, out, answering, prop,
          proposals, answers, refused, up, losses,
          overlaps, prepares>>

-----------------------------------------------------------------------------
(* Pools and logs are maps: a message replaces the one with its key.       *)

\* PrePrepareMsgs is keyed by BlockID, the others and MsgLogs by the sender.
Key(m) == IF m.type = "preprepare" THEN m.seq ELSE m.from

Put(S, m) == {x \in S : Key(x) # Key(m)} \cup {m}

PutAll(S, T) == {x \in S : \A m \in T : Key(x) # Key(m)} \cup T

\* The drain loop of an alarm, "for i := 0; i < MsgNum(); i++ { Del(msgs[i]) }",
\* compares i with a size that shrinks: of n messages it deletes only the
\* first half, rounded up.
Drained(order) == {order[k] : k \in 1..((Len(order) + 1) \div 2)}

-----------------------------------------------------------------------------
(* Quorums.                                                                *)

\* The signatures in a log of prepares: each block was signed by the primary,
\* which proposed it, and by the replica that sent the prepare.
Signatures(L) == UNION {{<<Primary, m.seq>>, <<m.from, m.seq>>} : m \in L}

\* Mutant: the quorum is one short (f for 2f).
PreparedFromFew(L, m) == Cardinality({x \in L : x.seq = m.seq}) >= f

\* prepared() on log L when the random iteration of the map meets m first:
\* only messages for m's block count, but the signatures are those of all of L.
PreparedFrom(L, m) ==
    /\ Cardinality(L) >= 2 * f
    /\ Cardinality({x \in L : x.seq = m.seq}) >= 2 * f
    /\ Cardinality(Signatures(L)) > 2 * f

MayBePrepared(L) == \E m \in L : PreparedFrom(L, m)
MayBeUnprepared(L) == L = {} \/ \E m \in L : ~PreparedFrom(L, m)

-----------------------------------------------------------------------------
(* The messages (pbft_msg_types.go), as the handlers build them.           *)

PrePrepareMsg(b) ==
    [type |-> "preprepare", from |-> Primary, seq |-> b, votes |-> 1,
     history |-> <<>>]

\* The block of pre-prepare m with the signature of node i added.
PrepareMsg(i, m) ==
    [type |-> "prepare", from |-> i, seq |-> m.seq, votes |-> m.votes + 1,
     history |-> <<>>]

\* Block b with the distinct signatures of log L that are for it, and that of
\* node i, which may be among them, once more.
CommitMsg(i, b, L) ==
    [type |-> "commit", from |-> i, seq |-> b,
     votes |-> 1 + Cardinality({s \in Signatures(L) : s[2] = b}),
     history |-> <<>>]

\* Mutant: the contracts run on a fresh database each time.
ReplyMsgFresh(i, b) ==
    [type |-> "reply", from |-> i, seq |-> b, votes |-> 0, history |-> <<b>>]

\* The results of block b at node i, which has not executed it yet.
ReplyMsg(i, b) ==
    [type |-> "reply", from |-> i, seq |-> b, votes |-> 0,
     history |-> Append(executed[i], b)]

-----------------------------------------------------------------------------
Init ==
    /\ stage = [i \in Nodes |-> "Idle"]
    /\ last = [i \in Nodes |-> 0]
    /\ log = [i \in Nodes |-> [prepare |-> {}, commit |-> {}]]
    /\ pool = [i \in Nodes |-> [t \in MsgType |-> {}]]
    /\ disp = [i \in Nodes |-> <<>>]
    /\ work = [i \in Nodes |-> <<>>]
    /\ out = [i \in Nodes |-> NoPost]
    /\ answering = FALSE
    /\ prop = NoPost
    /\ proposals = 0
    /\ executed = [i \in Nodes |-> <<>>]
    /\ answers = [b \in Blocks |-> 0]
    /\ refused = [b \in Blocks |-> 0]
    /\ up = Nodes
    /\ losses = 0
    /\ overlaps = 0
    /\ prepares = [i \in Nodes |-> {}]

-----------------------------------------------------------------------------
(* Timing. The two timers of a node (the alarm, every second, and          *)
(* transactionConsensus, every two) normally fire when nothing is under    *)
(* way in the cluster: handlers and posts take milliseconds. A timer of a  *)
(* node in Hasty may fire earlier than that, within the bounds. No timer   *)
(* is held back for good: when nothing can move, all may fire.             *)

Ready(j) == j \in up /\ disp[j] = <<>>

ResolverFree(i) ==
    /\ work[i] = <<>>
    /\ out[i] = NoPost
    /\ i = Primary => ~answering

\* A broadcast can go on: it has ended, or some destination answers.
CanGoOn(post) ==
    /\ post.msg # NoMsg
    /\ post.to = {} \/ \E j \in post.to : Ready(j) \/ j \notin up

Moving(i) ==
    \/ disp[i] # <<>> /\ ResolverFree(i)
    \/ work[i] # <<>> /\ out[i] = NoPost
    \/ CanGoOn(out[i])
    \/ i = Primary /\ (answering \/ CanGoOn(prop))

\* The bounds allow one more early timer or stopped node.
MayDisturb ==
    /\ proposals <= LastDisturbed
    /\ overlaps + Cardinality(Nodes \ up) < MaxDisturbances

Timer(i) ==
    IF \A j \in up : ~Moving(j)
    THEN UNCHANGED overlaps
    ELSE /\ i \in Hasty /\ MayDisturb
         /\ overlaps' = overlaps + 1

-----------------------------------------------------------------------------
(* transactionConsensus at the primary.                                    *)

Propose ==
    /\ Primary \in up
    /\ Timer(Primary)
    /\ prop = NoPost
    /\ stage[Primary] = "Idle"
    /\ proposals < MaxBlocks
    /\ stage' = [stage EXCEPT ![Primary] = "PrePrepared"]
    /\ proposals' = proposals + 1
    /\ prop' = [msg |-> PrePrepareMsg(proposals + 1),
                to |-> Nodes \ {Primary}]
    /\ UNCHANGED <<last, log, executed, bufferVars, resolverVars, clientVars,
                   up, losses, prepares>>

\* The broadcast has returned: the waiting transactions are cleared.
FinishProposal ==
    /\ Primary \in up
    /\ prop.msg # NoMsg /\ prop.to = {}
    /\ prop' = NoPost
    /\ UNCHANGED <<consensusVars, bufferVars, resolverVars, proposals,
                   clientVars, envVars, prepares>>

-----------------------------------------------------------------------------
(* Posts: http.Post to a destination returns when its dispatcher, back in  *)
(* its select, has put the message into a pool; or it fails, unnoticed.    *)
(* The order of the destinations is that of a map iteration.               *)

\* Mutant: the MsgType of a VoteMsg is not looked at.
AcceptUntyped(j, m) ==
    /\ Ready(j)
    /\ LET t == IF m.type = "commit" THEN "prepare" ELSE m.type
       IN  pool' = [pool EXCEPT ![j][t] = Put(@, m)]

\* The dispatcher of node j puts m into a pool (routeMsg).
Accept(j, m) ==
    /\ Ready(j)
    /\ pool' = [pool EXCEPT ![j][m.type] = Put(@, m)]

Deliver(i, j) ==
    /\ i \in up
    /\ j \in out[i].to
    /\ Accept(j, out[i].msg)
    /\ out' = [out EXCEPT ![i].to = @ \ {j}]
    /\ UNCHANGED <<consensusVars, disp, work, answering, proposerVars,
                   clientVars, envVars, prepares>>

DeliverProposal(j) ==
    /\ Primary \in up
    /\ j \in prop.to
    /\ Accept(j, prop.msg)
    /\ prop' = [prop EXCEPT !.to = @ \ {j}]
    /\ UNCHANGED <<consensusVars, disp, resolverVars, proposals, clientVars,
                   envVars, prepares>>

\* A post to node j fails: j is down, or the connection breaks.
Fail(j) ==
    /\ j \in up => losses < MaxLoss
    /\ losses' = IF j \in up THEN losses + 1 ELSE losses

LosePost(i, j) ==
    /\ i \in up
    /\ j \in out[i].to
    /\ Fail(j)
    /\ out' = [out EXCEPT ![i].to = @ \ {j}]
    /\ UNCHANGED <<consensusVars, bufferVars, work, answering, proposerVars,
                   clientVars, up, overlaps, prepares>>

LoseProposal(j) ==
    /\ Primary \in up
    /\ j \in prop.to
    /\ Fail(j)
    /\ prop' = [prop EXCEPT !.to = @ \ {j}]
    /\ UNCHANGED <<consensusVars, bufferVars, resolverVars, proposals,
                   clientVars, up, overlaps, prepares>>

-----------------------------------------------------------------------------
(* The dispatcher on an alarm, and the hand-over to the resolver.          *)

\* The pool an alarm looks at in each stage, and the size it waits for.
DuePool == [Idle |-> "preprepare", PrePrepared |-> "prepare",
            Prepared |-> "commit", Committed |-> "reply"]

\* Mutants: a quorum that counts the node's own prepare, which it never
\* receives; an alarm that does not wait for f + 1 replies.
DueSizeOwn == [Idle |-> 1, PrePrepared |-> 2 * f + 1, Prepared |-> 2 * f,
               Committed |-> f + 1]
DueSizeFew == [Idle |-> 1, PrePrepared |-> 2 * f, Prepared |-> 2 * f,
               Committed |-> f]

DueSize == [Idle |-> 1, PrePrepared |-> 2 * f, Prepared |-> 2 * f,
            Committed |-> f + 1]

\* The pool is copied in the random order of a map iteration, drained, and
\* sent to MsgDelivery, where the dispatcher stays until the resolver is free.
Alarm(i) ==
    /\ i \in up
    /\ disp[i] = <<>>
    /\ Timer(i)
    /\ LET t == DuePool[stage[i]]
       IN  /\ Cardinality(pool[i][t]) >= DueSize[stage[i]]
           /\ \E order \in SetToSeqs(pool[i][t]) :
                 /\ pool' = [pool EXCEPT ![i][t] = @ \ Drained(order)]
                 /\ IF ResolverFree(i)
                    THEN /\ work' = [work EXCEPT ![i] = order]
                         /\ UNCHANGED disp
                    ELSE /\ disp' = [disp EXCEPT ![i] = order]
                         /\ UNCHANGED work
    /\ UNCHANGED <<consensusVars, out, answering, proposerVars, clientVars,
                   up, losses, prepares>>

\* resolveMsg receives the batch its dispatcher is blocked on.
Handoff(i) ==
    /\ i \in up
    /\ disp[i] # <<>>
    /\ ResolverFree(i)
    /\ work' = [work EXCEPT ![i] = disp[i]]
    /\ disp' = [disp EXCEPT ![i] = <<>>]
    /\ UNCHANGED <<consensusVars, pool, out, answering, proposerVars,
                   clientVars, envVars, prepares>>

-----------------------------------------------------------------------------
(* The resolver: one step for the messages of its batch up to a broadcast. *)

\* The resolver of node i is about to handle messages of type t.
Handling(i, t) ==
    /\ i \in up
    /\ work[i] # <<>>
    /\ out[i] = NoPost
    /\ Head(work[i]).type = t

\* Mutant: LastSequenceID is not looked at.
AllFresh(i) == DOMAIN work[i]

\* The messages of the batch, by position, that pass verifyMsg: their sequence
\* number has not been passed. For the others the handler returns an error,
\* and the batch goes on.
Fresh(i) == {k \in DOMAIN work[i] : last[i] < work[i][k].seq}

\* GetPrePrepare on the next message that is not refused: whatever the stage
\* was, it becomes PrePrepared, and a prepare signed by the node is broadcast.
HandlePrePrepare(i) ==
    /\ Handling(i, "preprepare")
    /\ \/ /\ Fresh(i) = {}
          /\ work' = [work EXCEPT ![i] = <<>>]
          /\ UNCHANGED <<stage, out, prepares>>
       \/ \E k \in Fresh(i) :
             /\ \A j \in Fresh(i) : k <= j
             /\ work' = [work EXCEPT ![i] = SubSeq(@, k + 1, Len(@))]
             /\ stage' = [stage EXCEPT ![i] = "PrePrepared"]
             /\ out' = [out EXCEPT ![i] = [msg |-> PrepareMsg(i, work[i][k]),
                                          to |-> Nodes \ {i}]]
             /\ prepares' = [prepares EXCEPT ![i] = @ \cup {work[i][k].seq}]
    /\ UNCHANGED <<last, log, executed, bufferVars, answering, proposerVars,
                   clientVars, envVars>>

\* The log of prepares once the batch has been logged up to position k.
PreparesLogged(i, k) ==
    PutAll(log[i].prepare, {work[i][x] : x \in {y \in Fresh(i) : y <= k}})

\* GetPrepare on the batch when prepared() finds the quorum at position k: the
\* stage becomes Prepared and a commit FOR THE BLOCK OF THAT MESSAGE is
\* broadcast, with the distinct signatures of the log and the node's own once
\* more. The rest of the batch is dropped (MSGENOUGH).
HandlePrepareQuorum(i) ==
    /\ Handling(i, "prepare")
    /\ \E k \in Fresh(i) :
          LET b == work[i][k].seq
              L == PreparesLogged(i, k)
          IN  /\ \A j \in Fresh(i) :
                    j < k => MayBeUnprepared(PreparesLogged(i, j))
              /\ MayBePrepared(L)
              /\ log' = [log EXCEPT ![i].prepare = L]
              /\ out' = [out EXCEPT ![i] =
                    [msg |-> CommitMsg(i, b, L), to |-> Nodes \ {i}]]
    /\ stage' = [stage EXCEPT ![i] = "Prepared"]
    /\ work' = [work EXCEPT ![i] = <<>>]
    /\ UNCHANGED <<last, executed, bufferVars, answering, proposerVars,
                   clientVars, envVars, prepares>>

\* GetPrepare on the batch without a quorum: the messages are only logged.
HandlePrepareWait(i) ==
    /\ Handling(i, "prepare")
    /\ \A k \in Fresh(i) : MayBeUnprepared(PreparesLogged(i, k))
    /\ log' = [log EXCEPT ![i].prepare = PreparesLogged(i, Len(work[i]))]
    /\ work' = [work EXCEPT ![i] = <<>>]
    /\ UNCHANGED <<stage, last, executed, bufferVars, out, answering,
                   proposerVars, clientVars, envVars, prepares>>

\* GetCommit refuses a commit whose block carries too few signatures, too.
Signed(i) == {k \in Fresh(i) : work[i][k].votes >= 2 * f}

CommitsLogged(i, k) ==
    PutAll(log[i].commit, {work[i][x] : x \in {y \in Signed(i) : y <= k}})

\* committed() may fail once the commits up to position k are logged.
MayBeUncommitted(i, k) ==
    \/ MayBeUnprepared(log[i].prepare)
    \/ Cardinality(CommitsLogged(i, k)) < 2 * f

\* The contracts of block b run on the node's WorldState.
Execute(i, b) == executed' = [executed EXCEPT ![i] = Append(@, b)]

\* GetCommit on the batch when committed() holds at position k: the block of
\* that message is executed, the logs are emptied and a reply is posted to the
\* primary, by the primary too. The rest of the batch is dropped.
HandleCommitQuorum(i) ==
    /\ Handling(i, "commit")
    /\ MayBePrepared(log[i].prepare)
    /\ \E k \in Signed(i) :
          LET b == work[i][k].seq
          IN  /\ \A j \in Signed(i) : j < k => MayBeUncommitted(i, j)
              /\ Cardinality(CommitsLogged(i, k)) >= 2 * f
              /\ Execute(i, b)
              /\ last' = [last EXCEPT ![i] = b]
              /\ out' = [out EXCEPT ![i] =
                    [msg |-> ReplyMsg(i, b), to |-> {Primary}]]
    /\ stage' = [stage EXCEPT ![i] = "Committed"]
    /\ log' = [log EXCEPT ![i] = [prepare |-> {}, commit |-> {}]]
    /\ work' = [work EXCEPT ![i] = <<>>]
    /\ UNCHANGED <<bufferVars, answering, proposerVars, clientVars, envVars,
                   prepares>>

\* GetCommit on the batch without a quorum: the messages are only logged.
HandleCommitWait(i) ==
    /\ Handling(i, "commit")
    /\ \A k \in Signed(i) : MayBeUncommitted(i, k)
    /\ log' = [log EXCEPT ![i].commit = CommitsLogged(i, Len(work[i]))]
    /\ work' = [work EXCEPT ![i] = <<>>]
    /\ UNCHANGED <<stage, last, executed, bufferVars, out, answering,
                   proposerVars, clientVars, envVars, prepares>>

\* Mutant: the replies are counted, their results are not compared.
SupportersAny(batch, h) == {i \in Nodes : \E k \in DOMAIN batch : batch[k].from = i}

\* resolveReplyMsg, up to the posts to the client: the nodes behind each
\* result are counted, and f + 1 of them make it a success. No sequence number
\* is looked at. (The code counts results of transactions. A node counts once
\* for each, since the transactions of a block are different requests.)
Supporters(batch, h) ==
    {i \in Nodes : \E k \in DOMAIN batch : batch[k].from = i /\ batch[k].history = h}

Results(batch, b) ==
    {batch[k].history : k \in {x \in DOMAIN batch : batch[x].seq = b}}

\* Mutant: f nodes are enough.
ConfirmedByFew(batch, b) ==
    {h \in Results(batch, b) : Cardinality(Supporters(batch, h)) >= f}

Confirmed(batch, b) ==
    {h \in Results(batch, b) : Cardinality(Supporters(batch, h)) >= f + 1}

HandleReplies(i) ==
    /\ Handling(i, "reply")
    /\ answers' = [b \in Blocks |->
                     answers[b] + Cardinality(Confirmed(work[i], b))]
    /\ refused' = [b \in Blocks |-> refused[b] +
                     Cardinality(Results(work[i], b) \ Confirmed(work[i], b))]
    /\ answering' = TRUE
    /\ work' = [work EXCEPT ![i] = <<>>]
    /\ UNCHANGED <<consensusVars, bufferVars, out, proposerVars, envVars, prepares>>

-----------------------------------------------------------------------------
(* The resolver after a broadcast has returned.                            *)

\* The broadcast of a message of type t by node i is over.
Posted(i, t) ==
    /\ i \in up
    /\ out[i].msg # NoMsg /\ out[i].to = {}
    /\ out[i].msg.type = t

FinishPrepare(i) ==
    /\ Posted(i, "prepare")
    /\ pool' = [pool EXCEPT ![i].preprepare =
                  {m \in @ : m.seq # out[i].msg.seq}]
    /\ out' = [out EXCEPT ![i] = NoPost]
    /\ UNCHANGED <<consensusVars, disp, work, answering, proposerVars,
                   clientVars, envVars, prepares>>

FinishCommit(i) ==
    /\ Posted(i, "commit")
    /\ pool' = [pool EXCEPT ![i].prepare = {}]
    /\ out' = [out EXCEPT ![i] = NoPost]
    /\ UNCHANGED <<consensusVars, disp, work, answering, proposerVars,
                   clientVars, envVars, prepares>>

\* Only a replica goes back to Idle here; the primary waits for replies.
FinishReply(i) ==
    /\ Posted(i, "reply")
    /\ stage' = IF i = Primary THEN stage ELSE [stage EXCEPT ![i] = "Idle"]
    /\ pool' = [pool EXCEPT ![i].commit = {}]
    /\ out' = [out EXCEPT ![i] = NoPost]
    /\ UNCHANGED <<last, log, executed, disp, work, answering, proposerVars,
                   clientVars, envVars, prepares>>

FinishAnswers ==
    /\ Primary \in up
    /\ answering
    /\ answering' = FALSE
    /\ stage' = [stage EXCEPT ![Primary] = "Idle"]
    /\ pool' = [pool EXCEPT ![Primary].reply = {}]
    /\ UNCHANGED <<last, log, executed, disp, work, out, proposerVars,
                   clientVars, envVars, prepares>>

-----------------------------------------------------------------------------
(* A node stops for good.                                                  *)

Crash(i) ==
    /\ i \in up \cap Mortal
    /\ MayDisturb
    /\ up' = up \ {i}
    /\ UNCHANGED <<consensusVars, bufferVars, resolverVars, proposerVars,
                   clientVars, losses, overlaps, prepares>>

-----------------------------------------------------------------------------
\* The goroutines of node i, without the failures of its environment.
Resolve(i) ==
    \/ HandlePrePrepare(i) \/ HandlePrepareQuorum(i) \/ HandlePrepareWait(i)
    \/ HandleCommitQuorum(i) \/ HandleCommitWait(i)
    \/ HandleReplies(i)
    \/ FinishPrepare(i) \/ FinishCommit(i) \/ FinishReply(i)

Next ==
    \/ Propose \/ FinishProposal \/ FinishAnswers
    \/ \E i \in Nodes :
          \/ Alarm(i) \/ Handoff(i) \/ Resolve(i)
          \/ DeliverProposal(i) \/ LoseProposal(i) \/ Crash(i)
          \/ \E j \in Nodes : Deliver(i, j) \/ LosePost(i, j)

Spec == Init /\ [][Next]_vars

\* Every goroutine of a live node keeps running, and a synchronous post ends.
\* Nothing is assumed of the client, of failures and of crashes.
Fairness ==
    /\ WF_vars(FinishProposal) /\ WF_vars(FinishAnswers)
    /\ \A i \in Nodes :
          /\ WF_vars(Alarm(i)) /\ WF_vars(Handoff(i)) /\ WF_vars(Resolve(i))
          /\ WF_vars(DeliverProposal(i) \/ (i \notin up /\ LoseProposal(i)))
          /\ \A j \in Nodes :
                WF_vars(Deliver(i, j) \/ (j \notin up /\ LosePost(i, j)))

FairSpec == Spec /\ Fairness

-----------------------------------------------------------------------------
(* Properties.                                                             *)

\* The messages of one type.
Only(t) == {m \in Msg : m.type = t}

\* The messages of a batch have one type.
OneType(q) == \A k \in DOMAIN q : q[k].type = q[1].type

FiniteSubset(S, U) == S \subseteq U /\ IsFiniteSet(S)

ConsensusTypeOK ==
    /\ stage \in [Nodes -> Stage]
    /\ last \in [Nodes -> 0..MaxBlocks]
    /\ log \in [Nodes -> [prepare : SUBSET Msg, commit : SUBSET Msg]]
    /\ \A i \in Nodes : /\ FiniteSubset(log[i].prepare, Only("prepare"))
                        /\ FiniteSubset(log[i].commit, Only("commit"))
    /\ executed \in [Nodes -> Seq(Blocks)]

BufferTypeOK ==
    /\ pool \in [Nodes -> [MsgType -> SUBSET Msg]]
    /\ \A i \in Nodes : \A t \in MsgType : FiniteSubset(pool[i][t], Only(t))
    /\ disp \in [Nodes -> Seq(Msg)]
    /\ \A i \in Nodes : OneType(disp[i])

ResolverTypeOK ==
    /\ work \in [Nodes -> Seq(Msg)]
    /\ \A i \in Nodes : OneType(work[i])
    /\ out \in [Nodes -> Post]
    /\ answering \in BOOLEAN

ProposerTypeOK == prop \in Post /\ proposals \in 0..MaxBlocks

ClientTypeOK == answers \in [Blocks -> Nat] /\ refused \in [Blocks -> Nat]

EnvTypeOK ==
    /\ up \subseteq Nodes /\ losses \in Nat /\ overlaps \in Nat
    /\ prepares \in [Nodes -> SUBSET Blocks]

\* The type invariant. Pools, logs and batches hold one type of message each,
\* although prepares and commits are the same Go type, VoteMsg, and resolveMsg
\* looks at the MsgType of the first of a batch only.
TypeOK ==
    /\ ConsensusTypeOK /\ BufferTypeOK /\ ResolverTypeOK
    /\ ProposerTypeOK /\ ClientTypeOK /\ EnvTypeOK

\* No node executes a block twice or after a later one, however its commits
\* are repeated, delayed or mixed over the rounds: LastSequenceID is the last
\* block of a strictly increasing history (verifyMsg in Commit).
ExecOrdered ==
    \A i \in Nodes :
        /\ last[i] = IF executed[i] = <<>> THEN 0
                     ELSE executed[i][Len(executed[i])]
        /\ \A k \in 1..(Len(executed[i]) - 1) :
              executed[i][k] < executed[i][k + 1]

\* At least 2f replicas have broadcast a prepare for block b.
PrepareQuorum(b) ==
    Cardinality({i \in Nodes : b \in prepares[i]}) >= 2 * f

\* Nobody executes a block that was not prepared by a quorum, although a
\* commit is accepted on the word of its sender and committed() does not
\* compare the blocks of the commits it counts.
ExecPrepared == \A i \in Nodes : \A b \in ToSet(executed[i]) : PrepareQuorum(b)

\* A node executes a block only once 2f replicas have broadcast a prepare for a
\* block that it had not passed: GetCommit looks at the log of prepares, which
\* holds no message of an executed block, although stale prepares come back
\* from half drained pools and the blocks of the commits are not compared.
ExecAfterQuorum ==
    [][\A i \in Nodes : executed'[i] # executed[i] =>
          \E b \in (last[i] + 1)..MaxBlocks : PrepareQuorum(b)]_vars

\* Message m is about a proposed block; the results in a reply are those of a
\* history its sender really went through, up to the block of the reply.
Sound(m) ==
    /\ m.seq <= proposals
    /\ m.type = "reply" =>
          /\ m.history # <<>>
          /\ IsPrefix(m.history, executed[m.from])
          /\ m.history[Len(m.history)] = m.seq

\* Every message in a pool, in a batch or being posted is sound, however old:
\* a result is computed before its post, on a state that later blocks of the
\* sender only extend, and outlives the round in the primary's pool.
RepliesTruthful ==
    /\ \A i \in Nodes :
          /\ \A t \in MsgType : \A m \in pool[i][t] : Sound(m)
          /\ \A m \in ToSet(disp[i]) \cup ToSet(work[i]) : Sound(m)
          /\ out[i] # NoPost => Sound(out[i].msg)
    /\ prop # NoPost => Sound(prop.msg)

\* f + 1 nodes have executed block b after the same history.
Backed(b) ==
    \E i \in Nodes : \E k \in DOMAIN executed[i] :
        /\ executed[i][k] = b
        /\ Cardinality({j \in Nodes :
                IsPrefix(SubSeq(executed[i], 1, k), executed[j])}) > f

\* The client is told that a block succeeded only when f + 1 nodes have
\* executed it after the same history, although replies of earlier rounds
\* stay in the primary's pool and are counted with the current ones.
AnswersBacked == \A b \in Blocks : answers[b] > 0 => Backed(b)

\* "Consensus is not parallel": the primary is Idle, free to start a round,
\* only when it has executed every block it has proposed (node.go:207).
NoParallelRounds ==
    stage[Primary] = "Idle" => \A b \in 1..proposals : b \in ToSet(executed[Primary])

\* A block is executed only in the state the PBFT paper calls committed-local,
\* as the comments on Stage say: 2f prepares and 2f commits for that block.
CommittedLocal ==
    [][\A i \in Nodes : executed'[i] # executed[i] =>
        /\ Cardinality({m \in log[i].prepare : m.seq = last'[i]}) >= 2 * f
        /\ Cardinality({m \in log[i].commit \cup ToSet(work[i]) :
                          m.seq = last'[i]}) >= 2 * f]_vars

\* "Not enough valid replies: the execution failed": the client is told so
\* only of a block that no node has executed.
RefusedNotExecuted ==
    \A b \in Blocks : refused[b] > 0 =>
        \A i \in Nodes : b \notin ToSet(executed[i])

\* In the first round nobody is told so, whatever timers fire early and
\* whichever node stops: the replies of a half drained pool come back, but
\* always f + 1 of them, and all of one history.
FirstNotRefused == proposals <= 1 => RefusedNotExecuted

\* Block b has been executed by every node that is up, and the client knows.
Settled(b) == answers[b] > 0 /\ \A i \in up : b \in ToSet(executed[i])

\* Every round the primary starts ends with the client's answer and with the
\* block executed everywhere, if no post is lost and no node crashes.
RoundCompletes ==
    \A b \in Blocks :
        proposals >= b ~> Settled(b) \/ losses > 0 \/ up # Nodes

\* The same although nodes crash, f of them at most: "f: # of Byzantine
\* faulty node" of n = 3f + 1 (pbft_impl.go:49). A crash of the primary, which
\* no view change replaces, is left out.
FaultsTolerated ==
    \A b \in Blocks :
        proposals >= b ~> \/ Settled(b) \/ losses > 0 \/ Primary \notin up
                         \/ Cardinality(Nodes \ up) > f

\* Once all replicas have broadcast their prepare for a block, the client gets
\* its answer although one more post is lost: every later quorum has a node to
\* spare (2f of 3 prepares and commits, f + 1 of 4 replies).
LossTolerated ==
    \A b \in Blocks :
        (\A i \in Nodes \ {Primary} : b \in prepares[i]) ~> answers[b] > 0

\* The refinement mapping: what the cluster promises its client.
Log == INSTANCE ReplicatedLog WITH
           Replicas <- Nodes, Quorum <- f + 1, history <- executed,
           confirmed <- {b \in Blocks : answers[b] > 0}
Refinement == Log!Spec
=============================================================================
