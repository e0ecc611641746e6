-------------------------- MODULE PbftQuorumProofs --------------------------
(***************************************************************************)
(* Quorums of PbftCluster: what stands behind the execution of a block.    *)
(* First what holds of every run: one message per sender, from whom it may *)
(* come, and that the log of prepares is never about an executed block.    *)
(* Then what holds as long as no timer fires while a node is at work       *)
(* (overlaps = 0), or in the first round: rounds do not meet.              *)
(***************************************************************************)
EXTENDS PbftClusterProofs

-----------------------------------------------------------------------------
(* One message per key. A pool or a log is a map, an alarm takes every     *)
(* message of its pool once: so the messages that a quorum counts come     *)
(* from as many nodes. With TypeOK, MessagesKeyed is inductive.            *)

Keyed(S) == \A x, y \in S : Key(x) = Key(y) => x = y

KeyedBatch(q) == \A k, l \in DOMAIN q : Key(q[k]) = Key(q[l]) => k = l

MessagesKeyed ==
    \A i \in Nodes :
        /\ \A t \in MsgType : Keyed(pool[i][t])
        /\ KeyedBatch(disp[i]) /\ KeyedBatch(work[i])
        /\ Keyed(log[i].prepare)

\* A map stays one when messages are put into it or deleted.
LEMMA KeyedMap ==
    ASSUME NEW S, Keyed(S)
    PROVE  /\ \A m : Keyed(Put(S, m))
           /\ \A T : Keyed(T) => Keyed(PutAll(S, T))
           /\ \A T : T \subseteq S => Keyed(T)
  BY DEF Keyed, Put, PutAll

\* The messages of a batch have different keys, whatever the order of the map
\* iteration, and so have those of a part of it.
LEMMA KeyedTaken ==
    ASSUME TypeOK, MessagesKeyed, NEW i \in Nodes, NEW q, Taken(i, q)
    PROVE  KeyedBatch(q)
  <1> DEFINE S == pool[i][DuePool[stage[i]]]
  <1>1. Keyed(S) /\ IsFiniteSet(S)
    BY TakenIn DEF MessagesKeyed, TypeOK, BufferTypeOK, FiniteSubset
  <1>2. /\ q \in [1..Cardinality(S) -> S]
        /\ \A k, l \in 1..Cardinality(S) : k # l => q[k] # q[l]
    BY DEF Taken, SetToSeqs
  <1>3. QED
    BY <1>1, <1>2 DEF Keyed, KeyedBatch

LEMMA KeyedRest ==
    ASSUME TypeOK, MessagesKeyed, NEW i \in Nodes, NEW q, Rest(i, q)
    PROVE  KeyedBatch(q)
  <1>1. PICK k \in Fresh(i) : q = SubSeq(work[i], k + 1, Len(work[i]))
    BY DEF Rest
  <1>2. /\ work[i] \in Seq(Msg) /\ OneType(work[i])
        /\ k \in DOMAIN work[i] /\ KeyedBatch(work[i])
    BY DEF TypeOK, ResolverTypeOK, Fresh, MessagesKeyed
  <1>3. /\ q \in Seq(Msg)
        /\ \A n \in DOMAIN q : q[n] = work[i][k + n] /\ k + n \in DOMAIN work[i]
    BY <1>1, <1>2, SubSeqType, Zenon
  <1>4. SUFFICES ASSUME NEW n \in DOMAIN q, NEW l \in DOMAIN q,
                        Key(q[n]) = Key(q[l])
                 PROVE  n = l
    BY DEF KeyedBatch
  <1>5. k + n = k + l
    BY <1>2, <1>3, <1>4, Zenon DEF KeyedBatch
  <1>6. k \in Nat /\ n \in Nat /\ l \in Nat
    BY <1>2, <1>3
  <1>7. QED
    BY <1>5, <1>6

LEMMA KeyedElements ==
    ASSUME NEW q, KeyedBatch(q), NEW D \in SUBSET (DOMAIN q)
    PROVE  Keyed({q[k] : k \in D})
  BY DEF KeyedBatch, Keyed

\* Only GetPrepare logs prepares, of the batch that it handles; a log is emptied
\* when LastSequenceID changes.
LEMMA LogShape ==
    ASSUME TypeOK, [Next]_vars, NEW i \in Nodes
    PROVE  \/ log'[i].prepare = {}
           \/ /\ last'[i] = last[i]
              /\ \/ log'[i].prepare = log[i].prepare
                 \/ /\ Handling(i, "prepare")
                    /\ \E k : log'[i].prepare = PreparesLogged(i, k)
  <1> DEFINE Goal == \/ log'[i].prepare = {}
                     \/ /\ last'[i] = last[i]
                        /\ \/ log'[i].prepare = log[i].prepare
                           \/ /\ Handling(i, "prepare")
                              /\ \E k : log'[i].prepare = PreparesLogged(i, k)
  <1>0. /\ log \in [Nodes -> [prepare : SUBSET Msg, commit : SUBSET Msg]]
        /\ last \in [Nodes -> 0..MaxBlocks]
    BY DEF TypeOK, ConsensusTypeOK
  <1>1. ASSUME NEW j \in Nodes, HandlePrepareQuorum(j) \/ HandlePrepareWait(j)
        PROVE  Goal
    <2>1. UNCHANGED last /\ Handling(j, "prepare")
      BY <1>1 DEF HandlePrepareQuorum, HandlePrepareWait
    <2>2. PICK k : log' = [log EXCEPT ![j].prepare = PreparesLogged(j, k)]
      BY <1>1 DEF HandlePrepareQuorum, HandlePrepareWait
    <2>3. CASE i = j
      BY <1>0, <2>1, <2>2, <2>3
    <2>4. CASE i # j
      BY <1>0, <2>1, <2>2, <2>4
    <2>5. QED
      BY <2>3, <2>4
  <1>2. ASSUME NEW j \in Nodes, HandleCommitQuorum(j) PROVE Goal
    <2>1. /\ log' = [log EXCEPT ![j] = [prepare |-> {}, commit |-> {}]]
          /\ \E b : last' = [last EXCEPT ![j] = b]
      BY <1>2 DEF HandleCommitQuorum
    <2>2. QED
      BY <1>0, <2>1
  <1>3. ASSUME NEW j \in Nodes, HandleCommitWait(j) PROVE Goal
    <2>1. /\ UNCHANGED last
          /\ \E C : log' = [log EXCEPT ![j].commit = C]
      BY <1>3 DEF HandleCommitWait
    <2>2. QED
      BY <1>0, <2>1
  <1>4. ASSUME NEW j \in Nodes, NEW k \in Nodes,
               \/ Propose \/ FinishProposal \/ FinishAnswers
               \/ Alarm(j) \/ Handoff(j)
               \/ HandlePrePrepare(j) \/ HandleReplies(j)
               \/ FinishPrepare(j) \/ FinishCommit(j) \/ FinishReply(j)
               \/ DeliverProposal(j) \/ LoseProposal(j)
               \/ Crash(j) \/ Deliver(j, k) \/ LosePost(j, k)
               \/ UNCHANGED vars
        PROVE  Goal
    <2>1. UNCHANGED <<log, last>>
      BY <1>4 DEF Propose, FinishProposal, FinishAnswers, Alarm, Handoff,
           HandlePrePrepare, HandleReplies, FinishPrepare, FinishCommit,
           FinishReply, DeliverProposal, LoseProposal, Crash, Deliver, LosePost,
           consensusVars, vars
    <2>2. QED
      BY <2>1
  <1>5. QED
    BY <1>1, <1>2, <1>3, <1>4, NodesAssumption DEF Next, Resolve

\* The messages that GetPrepare adds to its log are of its batch.
LEMMA LoggedIn ==
    ASSUME NEW i, NEW k, NEW m \in PreparesLogged(i, k)
    PROVE  \/ m \in log[i].prepare
           \/ \E x \in Fresh(i) : m = work[i][x]
  BY DEF PreparesLogged, PutAll

LEMMA KeyedLogged ==
    ASSUME MessagesKeyed, NEW i \in Nodes, NEW k
    PROVE  Keyed(PreparesLogged(i, k))
  <1> DEFINE D == {y \in Fresh(i) : y <= k}
  <1>1. D \in SUBSET (DOMAIN work[i])
    BY DEF Fresh
  <1>2. Keyed({work[i][x] : x \in D})
    BY <1>1, KeyedElements DEF MessagesKeyed
  <1>3. QED
    BY <1>2, KeyedMap DEF PreparesLogged, MessagesKeyed

LEMMA KeyedStep == TypeOK /\ MessagesKeyed /\ [Next]_vars => MessagesKeyed'
  <1> SUFFICES ASSUME TypeOK, MessagesKeyed, [Next]_vars, NEW i \in Nodes
               PROVE  /\ \A t \in MsgType : Keyed(pool'[i][t])
                      /\ KeyedBatch(disp'[i]) /\ KeyedBatch(work'[i])
                      /\ Keyed(log'[i].prepare)
    BY DEF MessagesKeyed
  <1>1. \A t \in MsgType : Keyed(pool'[i][t])
    BY PoolShape, KeyedMap DEF MessagesKeyed
  <1>2. KeyedBatch(<<>>) /\ KeyedBatch(disp[i]) /\ KeyedBatch(work[i])
    BY DEF KeyedBatch, MessagesKeyed
  <1>3. KeyedBatch(disp'[i]) /\ KeyedBatch(work'[i])
    BY <1>2, BatchShape, KeyedTaken, KeyedRest
  <1>4. Keyed({})
    BY DEF Keyed
  <1>5. Keyed(log'[i].prepare)
    BY <1>4, LogShape, KeyedLogged DEF MessagesKeyed
  <1>6. QED
    BY <1>1, <1>3, <1>5

\* No pool, batch or log holds two messages of one key (Put in the message
\* buffers, dispatchMsg, MsgLogs).
THEOREM KeyedMessages == Spec => []MessagesKeyed
  <1>1. Init => MessagesKeyed
    BY DEF Init, MessagesKeyed, Keyed, KeyedBatch
  <1>2. QED
    BY <1>1, KeyedStep, TypeCorrect, PTL DEF Spec

-----------------------------------------------------------------------------
(* Who sends what to whom. A prepare is sent by a replica that has         *)
(* broadcast it, to others; the primary alone gets replies, and is the     *)
(* only one to get no pre-prepare. With TypeOK, MessagesProper is          *)
(* inductive.                                                              *)

\* Node i holds message m.
Received(i, m) ==
    \/ \E t \in MsgType : m \in pool[i][t]
    \/ m \in ToSet(disp[i]) \/ m \in ToSet(work[i])
    \/ m \in log[i].prepare

Proper(i, m) ==
    /\ m.type = "preprepare" => i # Primary
    /\ m.type = "prepare" => /\ m.from \notin {i, Primary}
                             /\ m.seq \in prepares[m.from]
    /\ m.type = "reply" => i = Primary

MessagesProper ==
    \A i \in Nodes : \A m : Received(i, m) \/ SentTo(i, m) => Proper(i, m)

LEMMA ReceivedMsg ==
    ASSUME TypeOK, NEW i \in Nodes, NEW m, Received(i, m) \/ SentTo(i, m)
    PROVE  m \in Msg
  BY SentInFlight DEF Received, TypeOK, BufferTypeOK, ResolverTypeOK,
                      ConsensusTypeOK, ToSet

\* The messages of the batch of a node.
LEMMA ReceivedBatch ==
    ASSUME NEW i \in Nodes, NEW k \in DOMAIN work[i]
    PROVE  Received(i, work[i][k])
  BY DEF Received, ToSet

\* What a node holds after a step it held before, or was posted to it.
LEMMA Arrivals ==
    ASSUME TypeOK, [Next]_vars, NEW i \in Nodes, NEW m, Received(i, m)'
    PROVE  Received(i, m) \/ SentTo(i, m)
  <1>1. ASSUME NEW t \in MsgType, m \in pool'[i][t]
        PROVE  Received(i, m) \/ SentTo(i, m)
    BY <1>1, PoolArrivals DEF Received
  <1>2. ASSUME m \in ToSet(disp'[i]) \/ m \in ToSet(work'[i])
        PROVE  Received(i, m)
    BY <1>2, BatchArrivals DEF Received
  <1>3. ASSUME m \in log'[i].prepare PROVE Received(i, m)
    <2>1. ASSUME NEW k, m \in PreparesLogged(i, k) PROVE Received(i, m)
      <3>1. m \in log[i].prepare \/ \E x \in DOMAIN work[i] : m = work[i][x]
        BY <2>1, LoggedIn DEF Fresh
      <3>2. QED
        BY <3>1, ReceivedBatch DEF Received
    <2>2. QED
      BY <1>3, <2>1, LogShape DEF Received
  <1>4. QED
    BY <1>1, <1>2, <1>3 DEF Received

\* A prepare, once broadcast, stays so.
LEMMA PreparesGrow ==
    ASSUME TypeOK, [Next]_vars
    PROVE  \A i \in Nodes : prepares[i] \subseteq prepares'[i]
  <1>1. ASSUME NEW j \in Nodes, HandlePrePrepare(j)
        PROVE  \A i \in Nodes : prepares[i] \subseteq prepares'[i]
    <2>1. \/ UNCHANGED prepares
          \/ \E b : prepares' = [prepares EXCEPT ![j] = @ \cup {b}]
      BY <1>1 DEF HandlePrePrepare
    <2>2. QED
      BY <2>1 DEF TypeOK, EnvTypeOK
  <1>2. ASSUME NEW j \in Nodes, NEW k \in Nodes,
               \/ Propose \/ FinishProposal \/ FinishAnswers
               \/ Alarm(j) \/ Handoff(j)
               \/ HandlePrepareQuorum(j) \/ HandlePrepareWait(j)
               \/ HandleCommitQuorum(j) \/ HandleCommitWait(j)
               \/ HandleReplies(j)
               \/ FinishPrepare(j) \/ FinishCommit(j) \/ FinishReply(j)
               \/ DeliverProposal(j) \/ LoseProposal(j)
               \/ Crash(j) \/ Deliver(j, k) \/ LosePost(j, k)
               \/ UNCHANGED vars
        PROVE  UNCHANGED prepares
    BY <1>2 DEF Propose, FinishProposal, FinishAnswers, Alarm, Handoff,
         HandlePrepareQuorum, HandlePrepareWait, HandleCommitQuorum,
         HandleCommitWait, HandleReplies, FinishPrepare, FinishCommit,
         FinishReply, DeliverProposal, LoseProposal, Crash, Deliver, LosePost,
         vars
  <1>3. QED
    BY <1>1, <1>2, NodesAssumption DEF Next, Resolve

\* A node that handles pre-prepares is a replica.
LEMMA PreparingReplica ==
    ASSUME TypeOK, MessagesProper, NEW i \in Nodes, Handling(i, "preprepare")
    PROVE  i # Primary
  <1>1. work[i] \in Seq(Msg) /\ work[i] # <<>> /\ work[i][1].type = "preprepare"
    BY DEF Handling, TypeOK, ResolverTypeOK
  <1>2. 1 \in DOMAIN work[i]
    BY <1>1
  <1>3. QED
    BY <1>1, <1>2, ReceivedBatch DEF MessagesProper, Proper

LEMMA ProperStep == TypeOK /\ MessagesProper /\ [Next]_vars => MessagesProper'
  <1> SUFFICES ASSUME TypeOK, MessagesProper, [Next]_vars, NEW i \in Nodes,
                      NEW m, (Received(i, m) \/ SentTo(i, m))'
               PROVE  Proper(i, m)'
    BY DEF MessagesProper
  <1>1. CASE Received(i, m) \/ SentTo(i, m)
    <2>1. Proper(i, m) /\ m \in Msg
      BY <1>1, ReceivedMsg DEF MessagesProper
    <2>2. prepares[m.from] \subseteq prepares'[m.from]
      BY <2>1, PreparesGrow, MsgFields
    <2>3. QED
      BY <2>1, <2>2 DEF Proper
  <1>2. ASSUME NEW j \in Nodes, i \in out'[j].to, m = out'[j].msg
        PROVE  Proper(i, m)'
    <2>1. out'[j] # NoPost
      BY <1>2 DEF NoPost
    <2>2. CASE /\ out'[j].msg = out[j].msg
               /\ out'[j].to \subseteq out[j].to
      BY <1>1, <1>2, <2>2 DEF SentTo
    <2>3. CASE NewPrepare(j)
      <3>1. PICK k \in Fresh(j) :
               /\ out'[j] = [msg |-> PrepareMsg(j, work[j][k]),
                             to |-> Nodes \ {j}]
               /\ work[j][k].seq \in prepares'[j]
        BY <2>3 DEF NewPrepare
      <3>2. j # Primary
        BY <2>3, PreparingReplica DEF NewPrepare
      <3>3. /\ m.type = "prepare" /\ m.from = j /\ m.seq = work[j][k].seq
            /\ i # j
        BY <1>2, <3>1 DEF PrepareMsg
      <3>4. QED
        BY <3>1, <3>2, <3>3 DEF Proper
    <2>4. CASE NewCommit(j)
      <3>1. m.type = "commit"
        BY <1>2, <2>4 DEF NewCommit, CommitMsg
      <3>2. QED
        BY <3>1 DEF Proper
    <2>5. CASE NewReply(j)
      <3>1. m.type = "reply" /\ i = Primary
        BY <1>2, <2>5 DEF NewReply, ReplyMsg
      <3>2. QED
        BY <3>1 DEF Proper
    <2>6. QED
      BY <2>1, <2>2, <2>3, <2>4, <2>5, OutShape
  <1>3. ASSUME i \in prop'.to, m = prop'.msg PROVE Proper(i, m)'
    <2>1. prop' # NoPost
      BY <1>3 DEF NoPost
    <2>2. CASE prop'.msg = prop.msg /\ prop'.to \subseteq prop.to
      BY <1>1, <1>3, <2>2 DEF SentTo
    <2>3. CASE prop' = [msg |-> PrePrepareMsg(proposals + 1),
                        to |-> Nodes \ {Primary}]
      <3>1. m.type = "preprepare" /\ i # Primary
        BY <1>3, <2>3 DEF PrePrepareMsg
      <3>2. QED
        BY <3>1 DEF Proper
    <2>4. QED
      BY <2>1, <2>2, <2>3, PropStep
  <1>4. QED
    BY <1>1, <1>2, <1>3, Arrivals DEF SentTo

\* A node counts no prepare of its own, none of the primary, and none that its
\* sender has not broadcast (broadcast in node.go leaves the sender out); only
\* the primary, which never prepares, counts replies.
THEOREM ProperMessages == Spec => []MessagesProper
  <1>1. Init => MessagesProper
    BY DEF Init, MessagesProper, Received, SentTo, ToSet, NoPost
  <1>2. QED
    BY <1>1, ProperStep, TypeCorrect, PTL DEF Spec

-----------------------------------------------------------------------------
(* The log of prepares, and what a quorum of it shows.                     *)

\* The log holds prepares for proposed blocks that the node has not passed.
LoggedFresh ==
    \A i \in Nodes : \A m \in log[i].prepare :
        last[i] < m.seq /\ m.seq <= proposals

\* The messages of a batch are about proposed blocks.
LEMMA BatchProposed ==
    ASSUME RepliesTruthful, NEW i \in Nodes, NEW k \in DOMAIN work[i]
    PROVE  Sound(work[i][k]) /\ work[i][k].seq <= proposals
  <1>1. Sound(work[i][k])
    BY DEF RepliesTruthful, ToSet
  <1>2. QED
    BY <1>1 DEF Sound

LEMMA LoggedFreshStep ==
    TypeOK /\ RepliesTruthful /\ LoggedFresh /\ [Next]_vars => LoggedFresh'
  <1> SUFFICES ASSUME TypeOK, RepliesTruthful, LoggedFresh, [Next]_vars,
                      NEW i \in Nodes, NEW m \in log'[i].prepare
               PROVE  last'[i] < m.seq /\ m.seq <= proposals'
    BY DEF LoggedFresh
  <1>1. last'[i] = last[i] /\ (m \in log[i].prepare
                               \/ \E x \in Fresh(i) : m = work[i][x])
    BY LogShape, LoggedIn
  <1>2. last[i] < m.seq /\ m.seq <= proposals /\ m \in Msg
    <2>1. CASE m \in log[i].prepare
      BY <2>1 DEF LoggedFresh, TypeOK, ConsensusTypeOK
    <2>2. ASSUME NEW x \in Fresh(i), m = work[i][x]
          PROVE  last[i] < m.seq /\ m.seq <= proposals /\ m \in Msg
      <3>1. x \in DOMAIN work[i] /\ last[i] < work[i][x].seq
        BY DEF Fresh
      <3>2. work[i][x].seq <= proposals
        BY <3>1, BatchProposed
      <3>3. work[i][x] \in Msg
        BY <3>1 DEF TypeOK, ResolverTypeOK
      <3>4. QED
        BY <2>2, <3>1, <3>2, <3>3
    <2>3. QED
      BY <1>1, <2>1, <2>2
  <1>3. /\ m.seq \in Int /\ proposals \in Int
        /\ proposals' = proposals \/ proposals' = proposals + 1
    BY <1>2, MsgFields, PropStep, BoundsAssumption
       DEF Blocks, TypeOK, ProposerTypeOK
  <1>4. QED
    BY <1>1, <1>2, <1>3

\* In the code, verifyMsg before a prepare is logged, and the new MsgLogs of
\* Commit: no message of a block that the node has executed is in its log.
THEOREM FreshLog == Spec => []LoggedFresh
  <1>1. Init => LoggedFresh
    BY DEF Init, LoggedFresh
  <1>2. QED
    BY <1>1, LoggedFreshStep, TypeCorrect, TruthfulReplies, PTL DEF Spec

\* 2f messages of a log that are for block b come from 2f nodes that have
\* broadcast a prepare for it.
LEMMA SendersCounted ==
    ASSUME NEW L, FiniteSubset(L, Only("prepare")), Keyed(L),
           \A m \in L : m.seq \in prepares[m.from],
           NEW b, Cardinality({x \in L : x.seq = b}) >= 2 * f
    PROVE  PrepareQuorum(b)
  <1> DEFINE C == {x \in L : x.seq = b}
             S == {i \in Nodes : b \in prepares[i]}
             g == [x \in C |-> x.from]
  <1>1. IsFiniteSet(S)
    BY NodesAssumption, FS_Subset, S \in SUBSET Nodes, Zenon
  <1>2. IsFiniteSet(C)
    BY FS_Subset, C \in SUBSET L, Zenon DEF FiniteSubset
  <1>3. \A x \in L : x \in Msg /\ Key(x) = x.from /\ x.from \in Nodes
    BY MsgFields DEF FiniteSubset, Only, Key
  <1>4. g \in [C -> S]
    BY <1>3
  <1>5. \A x, y \in C : g[x] = g[y] => x = y
    BY <1>3 DEF Keyed
  <1>6. g \in Injection(C, S)
    BY <1>4, <1>5 DEF Injection, IsInjective
  <1>7. Cardinality(C) <= Cardinality(S)
    BY <1>1, <1>6, FS_Injection, Zenon
  <1>8. Cardinality(C) \in Nat /\ Cardinality(S) \in Nat /\ 2 * f \in Nat
    BY <1>1, <1>2, FS_CardinalityType, BoundsAssumption
  <1>9. QED
    BY <1>7, <1>8 DEF PrepareQuorum

\* The quorum that GetCommit finds in the log of prepares was broadcast.
LEMMA ExecuteAfterQuorumStep ==
    ASSUME TypeOK, MessagesKeyed, MessagesProper, LoggedFresh, [Next]_vars,
           NEW i \in Nodes, executed'[i] # executed[i]
    PROVE  \E b \in (last[i] + 1)..MaxBlocks : PrepareQuorum(b)
  <1> DEFINE L == log[i].prepare
  <1>1. HandleCommitQuorum(i)
    <2>1. PICK j \in Nodes : \E b \in Blocks :
             /\ HandleCommitQuorum(j)
             /\ executed' = [executed EXCEPT ![j] = Append(@, b)]
      BY ExecuteStep
    <2>2. j = i
      BY <2>1 DEF TypeOK, ConsensusTypeOK
    <2>3. QED
      BY <2>1, <2>2
  <1>2. PICK m \in L : PreparedFrom(L, m)
    BY <1>1 DEF HandleCommitQuorum, MayBePrepared
  <1>3. FiniteSubset(L, Only("prepare")) /\ m \in Msg
    BY DEF TypeOK, ConsensusTypeOK
  <1>4. Keyed(L)
    BY DEF MessagesKeyed
  <1>5. \A x \in L : x.seq \in prepares[x.from]
    BY <1>3 DEF MessagesProper, Received, Proper, FiniteSubset, Only
  <1>6. PrepareQuorum(m.seq)
    BY <1>2, <1>3, <1>4, <1>5, SendersCounted DEF PreparedFrom
  <1>7. m.seq \in (last[i] + 1)..MaxBlocks
    <2>1. last[i] \in Int /\ last[i] < m.seq
      BY DEF LoggedFresh, TypeOK, ConsensusTypeOK
    <2>2. m.seq \in 1..MaxBlocks
      BY <1>3, MsgFields DEF Blocks
    <2>3. QED
      BY <2>1, <2>2, BoundsAssumption
  <1>8. QED
    BY <1>6, <1>7

\* Commit executes no block without a quorum of prepares for a block that the
\* node has not passed, whatever stale messages it meets.
THEOREM QuorumBeforeExecution == Spec => ExecAfterQuorum
  <1>1. ASSUME TypeOK, MessagesKeyed, MessagesProper, LoggedFresh, [Next]_vars
        PROVE  [\A i \in Nodes : executed'[i] # executed[i] =>
                  \E b \in (last[i] + 1)..MaxBlocks : PrepareQuorum(b)]_vars
    BY <1>1, ExecuteAfterQuorumStep
  <1>2. QED
    BY <1>1, TypeCorrect, KeyedMessages, ProperMessages, FreshLog, PTL
       DEF Spec, ExecAfterQuorum

-----------------------------------------------------------------------------
(* A cluster whose timers have not fired early: no dispatcher waits for    *)
(* its resolver, since an alarm finds every resolver free.                 *)

QuietDispatchers == overlaps = 0 => \A i \in Nodes : disp[i] = <<>>

\* Timers that fire early are counted for good.
LEMMA OverlapsGrow ==
    ASSUME TypeOK, [Next]_vars
    PROVE  /\ overlaps' = 0 => overlaps = 0
           /\ \A i \in Nodes : (Alarm(i) \/ (i = Primary /\ Propose)) /\ overlaps' = 0
                 => \A j \in up : ~Moving(j)
  <1>0. overlaps \in Nat
    BY DEF TypeOK, EnvTypeOK
  <1>1. ASSUME NEW i \in Nodes, Timer(i), overlaps' = 0
        PROVE  overlaps = 0 /\ \A j \in up : ~Moving(j)
    BY <1>0, <1>1 DEF Timer
  <1>2. ASSUME NEW i \in Nodes, NEW k \in Nodes,
               \/ FinishProposal \/ FinishAnswers \/ Handoff(i)
               \/ Resolve(i) \/ DeliverProposal(i) \/ LoseProposal(i)
               \/ Crash(i) \/ Deliver(i, k) \/ LosePost(i, k)
               \/ UNCHANGED vars
        PROVE  UNCHANGED overlaps
    BY <1>2 DEF FinishProposal, FinishAnswers, Handoff, Resolve,
         HandlePrePrepare, HandlePrepareQuorum, HandlePrepareWait,
         HandleCommitQuorum, HandleCommitWait, HandleReplies, FinishPrepare,
         FinishCommit, FinishReply, DeliverProposal, LoseProposal,
         Crash, Deliver, LosePost, envVars, vars
  <1>3. \A i \in Nodes : Alarm(i) \/ (i = Primary /\ Propose) => Timer(i)
    BY DEF Alarm, Propose
  <1>4. QED
    BY <1>1, <1>2, <1>3, NodesAssumption DEF Next

\* When no dispatcher is blocked every broadcast can go on.
LEMMA PostsGoOn ==
    ASSUME TypeOK, \A j \in Nodes : disp[j] = <<>>,
           NEW i \in Nodes, out[i] # NoPost
    PROVE  CanGoOn(out[i])
  <1>1. out[i] \in [msg : Msg, to : SUBSET Nodes]
    BY DEF TypeOK, ResolverTypeOK, Post
  <1>2. out[i].msg # NoMsg /\ out[i].to \subseteq Nodes
    BY <1>1, NoMsgAssumption
  <1>3. QED
    BY <1>2 DEF CanGoOn, Ready

LEMMA QuietFree ==
    ASSUME TypeOK, \A j \in Nodes : disp[j] = <<>>,
           NEW i \in Nodes, ~Moving(i)
    PROVE  ResolverFree(i)
  BY PostsGoOn DEF Moving, ResolverFree

LEMMA QuietStep ==
    TypeOK /\ QuietDispatchers /\ [Next]_vars => QuietDispatchers'
  <1> SUFFICES ASSUME TypeOK, QuietDispatchers, [Next]_vars, overlaps' = 0,
                      NEW i \in Nodes
               PROVE  disp'[i] = <<>>
    BY DEF QuietDispatchers
  <1>1. \A j \in Nodes : disp[j] = <<>>
    BY OverlapsGrow DEF QuietDispatchers
  <1>2. CASE Alarm(i)
    <2>1. ResolverFree(i)
      BY <1>1, <1>2, OverlapsGrow, QuietFree DEF Alarm
    <2>2. QED
      BY <1>1, <1>2, <2>1 DEF Alarm
  <1>3. QED
    BY <1>1, <1>2, BatchShape

\* As long as no timer fires while a node is at work, no dispatcher blocks at
\* MsgDelivery and every synchronous broadcast can go on: the deadlock of two
\* nodes that post to each other takes a timer that fires early.
THEOREM NoBlockedDispatcher ==
    Spec => [](overlaps = 0 =>
                  \A i \in Nodes : /\ disp[i] = <<>>
                                   /\ out[i] # NoPost => CanGoOn(out[i]))
  <1>1. Init => QuietDispatchers
    BY DEF Init, QuietDispatchers
  <1>2. TypeOK /\ QuietDispatchers =>
           (overlaps = 0 => \A i \in Nodes :
                              /\ disp[i] = <<>>
                              /\ out[i] # NoPost => CanGoOn(out[i]))
    BY PostsGoOn DEF QuietDispatchers
  <1>3. QED
    BY <1>1, <1>2, QuietStep, TypeCorrect, PTL DEF Spec

-----------------------------------------------------------------------------
(* What has been executed.                                                 *)

\* The blocks of a history after one more is executed.
LEMMA AppendedElements ==
    ASSUME NEW h \in Seq(Blocks), NEW b \in Blocks
    PROVE  ToSet(Append(h, b)) = ToSet(h) \cup {b}
  <1>1. /\ DOMAIN Append(h, b) = 1..(Len(h) + 1) /\ DOMAIN h = 1..Len(h)
        /\ Append(h, b)[Len(h) + 1] = b
        /\ \A k \in 1..Len(h) : Append(h, b)[k] = h[k]
    OBVIOUS
  <1>2. 1..(Len(h) + 1) = 1..Len(h) \cup {Len(h) + 1}
    OBVIOUS
  <1>3. QED
    BY <1>1, <1>2, Zenon DEF ToSet

-----------------------------------------------------------------------------
(* In such a cluster the rounds of the primary do not overlap.             *)

\* The primary's resolver is at work for the stage that its dispatcher saw.
PrimaryInStage ==
    /\ work[Primary] # <<>> => Head(work[Primary]).type = DuePool[stage[Primary]]
    /\ answering => stage[Primary] = "Committed" /\ work[Primary] = <<>>

\* The primary has executed every block but the last it proposed, and that one,
\* too, once it waits for replies or is idle again.
InOrder ==
    /\ \A b \in 1..(proposals - 1) : b \in ToSet(executed[Primary])
    /\ proposals <= last[Primary] + 1
    /\ stage[Primary] \in {"Idle", "Committed"} =>
          /\ proposals <= last[Primary]
          /\ proposals > 0 => proposals \in ToSet(executed[Primary])

QuietRounds == overlaps = 0 => PrimaryInStage /\ InOrder

\* The type of the messages of a batch at work, and where they may be.
LEMMA HandlingAt ==
    ASSUME TypeOK, MessagesProper, NEW i \in Nodes, NEW t, Handling(i, t)
    PROVE  /\ work[i] # <<>> /\ Head(work[i]).type = t
           /\ t = "preprepare" => i # Primary
           /\ t = "reply" => i = Primary
  <1>1. /\ work[i] \in Seq(Msg) /\ work[i] # <<>> /\ work[i][1].type = t
        /\ Head(work[i]).type = t
    BY DEF Handling, TypeOK, ResolverTypeOK
  <1>2. 1 \in DOMAIN work[i]
    BY <1>1
  <1>3. QED
    BY <1>1, <1>2, ReceivedBatch DEF MessagesProper, Proper

\* An alarm takes messages of the type that its stage waits for.
LEMMA TakenHead ==
    ASSUME TypeOK, NEW i \in Nodes, NEW q, Taken(i, q), q # <<>>
    PROVE  Head(q).type = DuePool[stage[i]]
  <1>1. /\ q \in Seq(Msg) /\ DuePool[stage[i]] \in MsgType
        /\ ToSet(q) \subseteq pool[i][DuePool[stage[i]]]
    BY TakenIn
  <1>2. 1 \in DOMAIN q /\ Head(q) = q[1]
    BY <1>1
  <1>3. Head(q) \in pool[i][DuePool[stage[i]]]
    BY <1>1, <1>2 DEF ToSet
  <1>4. QED
    BY <1>1, <1>3 DEF TypeOK, BufferTypeOK, FiniteSubset, Only

\* Steps of other nodes leave the state of the primary's rounds alone.
LEMMA RoundsFrame ==
    ASSUME PrimaryInStage, InOrder, work'[Primary] = work[Primary],
           stage'[Primary] = stage[Primary], last'[Primary] = last[Primary],
           executed'[Primary] = executed[Primary],
           UNCHANGED <<answering, proposals>>
    PROVE  PrimaryInStage' /\ InOrder'
  BY DEF PrimaryInStage, InOrder

LEMMA RoundsPropose ==
    ASSUME TypeOK, MessagesProper, PrimaryInStage, InOrder, Propose
    PROVE  PrimaryInStage' /\ InOrder'
  <1>1. /\ stage[Primary] = "Idle" /\ stage'[Primary] = "PrePrepared"
        /\ proposals' = proposals + 1
        /\ UNCHANGED <<last, executed, work, answering>>
    BY NodesAssumption DEF Propose, TypeOK, ConsensusTypeOK, consensusVars,
                           resolverVars
  <1>2. work[Primary] = <<>>
    <2>1. work[Primary] # <<>> => Head(work[Primary]).type = "preprepare"
      BY <1>1 DEF PrimaryInStage, DuePool
    <2>2. /\ work[Primary] \in Seq(Msg)
          /\ work[Primary] # <<>> =>
                1 \in DOMAIN work[Primary] /\ Head(work[Primary]) = work[Primary][1]
      BY NodesAssumption DEF TypeOK, ResolverTypeOK
    <2>3. QED
      BY <2>1, <2>2, NodesAssumption, ReceivedBatch DEF MessagesProper, Proper
  <1>3. PrimaryInStage'
    BY <1>1, <1>2 DEF PrimaryInStage
  <1>4. proposals \in Nat /\ last[Primary] \in Nat
    BY NodesAssumption, BoundsAssumption DEF TypeOK, ProposerTypeOK, ConsensusTypeOK
  <1>5. InOrder'
    <2>1. \A b \in 1..proposals : b \in ToSet(executed[Primary])
      BY <1>1, <1>4 DEF InOrder
    <2>2. proposals <= last[Primary]
      BY <1>1 DEF InOrder
    <2>3. QED
      BY <1>1, <1>4, <2>1, <2>2 DEF InOrder
  <1>6. QED
    BY <1>3, <1>5

\* GetCommit executes the block of the round, the only one left.
LEMMA RoundsExecute ==
    ASSUME TypeOK, RepliesTruthful, MessagesProper, PrimaryInStage, InOrder,
           [Next]_vars, NEW i \in Nodes, HandleCommitQuorum(i)
    PROVE  PrimaryInStage' /\ InOrder'
  <1>1. /\ UNCHANGED <<answering, proposals>>
        /\ work' = [work EXCEPT ![i] = <<>>]
        /\ stage' = [stage EXCEPT ![i] = "Committed"]
    BY DEF HandleCommitQuorum, proposerVars
  <1>2. PICK k \in Signed(i) :
           /\ executed' = [executed EXCEPT ![i] = Append(@, work[i][k].seq)]
           /\ last' = [last EXCEPT ![i] = work[i][k].seq]
    BY DEF HandleCommitQuorum, Execute
  <1>3. /\ stage \in [Nodes -> Stage] /\ last \in [Nodes -> 0..MaxBlocks]
        /\ executed \in [Nodes -> Seq(Blocks)] /\ work \in [Nodes -> Seq(Msg)]
        /\ proposals \in Nat
    BY BoundsAssumption DEF TypeOK, ConsensusTypeOK, ResolverTypeOK, ProposerTypeOK
  <1>4. CASE i # Primary
    BY <1>1, <1>2, <1>3, <1>4, NodesAssumption, RoundsFrame
  <1>5. CASE i = Primary
    <2> DEFINE b == work[i][k].seq
    <2>1. /\ k \in DOMAIN work[i] /\ last[i] < b
          /\ b \in Nat /\ b \in Blocks /\ b <= proposals
      BY <1>3, BatchProposed, MsgFields, BoundsAssumption DEF Signed, Fresh, Blocks
    <2>2. last[i] \in Nat /\ proposals <= last[i] + 1
      BY <1>3, <1>5, BoundsAssumption DEF InOrder
    <2>3. b = proposals
      BY <1>3, <2>1, <2>2
    <2>4. ~answering
      BY <1>5 DEF HandleCommitQuorum, Handling, PrimaryInStage
    <2>5. PrimaryInStage'
      BY <1>1, <1>3, <1>5, <2>4 DEF PrimaryInStage
    <2>6. ToSet(executed'[Primary]) = ToSet(executed[Primary]) \cup {b}
      <3>1. executed[i] \in Seq(Blocks) /\ executed'[i] = Append(executed[i], b)
        BY <1>2, <1>3
      <3>2. QED
        BY <1>5, <2>1, <3>1, AppendedElements
    <2>7. last'[Primary] = proposals
      BY <1>2, <1>3, <1>5, <2>3
    <2>8. InOrder'
      BY <1>1, <1>3, <2>3, <2>6, <2>7 DEF InOrder
    <2>9. QED
      BY <2>5, <2>8
  <1>6. QED
    BY <1>4, <1>5

\* The other handlers at the primary: the stage is the one of the batch.
LEMMA RoundsHandle ==
    ASSUME TypeOK, MessagesProper, PrimaryInStage, InOrder, NEW i \in Nodes,
           \/ HandlePrePrepare(i) \/ HandlePrepareQuorum(i)
           \/ HandlePrepareWait(i) \/ HandleCommitWait(i) \/ HandleReplies(i)
    PROVE  PrimaryInStage' /\ InOrder'
  <1>1. /\ stage \in [Nodes -> Stage] /\ work \in [Nodes -> Seq(Msg)]
        /\ UNCHANGED <<last, executed, proposals>>
    BY DEF TypeOK, ConsensusTypeOK, ResolverTypeOK, HandlePrePrepare,
           HandlePrepareQuorum, HandlePrepareWait, HandleCommitWait,
           HandleReplies, consensusVars, proposerVars
  <1>2. CASE HandlePrePrepare(i)
    <2>1. i # Primary
      BY <1>2, HandlingAt DEF HandlePrePrepare
    <2>2. /\ work'[Primary] = work[Primary] /\ stage'[Primary] = stage[Primary]
          /\ UNCHANGED answering
      BY <1>1, <1>2, <2>1, NodesAssumption DEF HandlePrePrepare
    <2>3. QED
      BY <1>1, <2>2, RoundsFrame
  <1>3. CASE HandleReplies(i)
    <2>1. /\ i = Primary /\ work[Primary] # <<>>
          /\ Head(work[Primary]).type = "reply"
      BY <1>3, HandlingAt DEF HandleReplies
    <2>2. stage[Primary] \in Stage /\ DuePool[stage[Primary]] = "reply"
      BY <1>1, <2>1, NodesAssumption DEF PrimaryInStage
    <2>3. stage[Primary] = "Committed"
      BY <2>2 DEF DuePool, Stage
    <2>4. UNCHANGED stage /\ work'[Primary] = <<>>
      BY <1>1, <1>3, <2>1 DEF HandleReplies, consensusVars
    <2>5. QED
      BY <1>1, <2>3, <2>4 DEF PrimaryInStage, InOrder
  <1>4. CASE HandlePrepareQuorum(i) \/ HandlePrepareWait(i) \/ HandleCommitWait(i)
    <2>1. /\ work' = [work EXCEPT ![i] = <<>>] /\ UNCHANGED answering
          /\ work[i] # <<>>
          /\ UNCHANGED stage \/ stage' = [stage EXCEPT ![i] = "Prepared"]
      BY <1>4 DEF HandlePrepareQuorum, HandlePrepareWait, HandleCommitWait, Handling
    <2>2. CASE i # Primary
      BY <1>1, <2>1, <2>2, NodesAssumption, RoundsFrame
    <2>3. CASE i = Primary
      <3>1. ~answering /\ work'[Primary] = <<>>
        BY <1>1, <2>1, <2>3 DEF PrimaryInStage
      <3>2. stage'[Primary] = stage[Primary] \/ stage'[Primary] = "Prepared"
        BY <1>1, <2>1, <2>3
      <3>3. QED
        BY <1>1, <2>1, <3>1, <3>2 DEF PrimaryInStage, InOrder
    <2>4. QED
      BY <2>2, <2>3
  <1>5. QED
    BY <1>2, <1>3, <1>4

\* The dispatchers: an alarm of a quiet cluster hands its pool over at once.
LEMMA RoundsDispatch ==
    ASSUME TypeOK, PrimaryInStage, InOrder, \A j \in Nodes : disp[j] = <<>>,
           NEW i \in Nodes, Handoff(i) \/ (Alarm(i) /\ ~Moving(i))
    PROVE  PrimaryInStage' /\ InOrder'
  <1>1. Alarm(i) /\ ResolverFree(i)
    BY QuietFree DEF Handoff
  <1>2. PICK q : /\ Taken(i, q) /\ work' = [work EXCEPT ![i] = q]
                 /\ UNCHANGED <<stage, last, executed, answering, proposals>>
    BY <1>1 DEF Alarm, Taken, consensusVars, proposerVars
  <1>3. CASE i # Primary
    BY <1>2, <1>3, NodesAssumption, RoundsFrame DEF TypeOK, ResolverTypeOK
  <1>4. CASE i = Primary
    <2>1. work'[Primary] = q /\ ~answering
      BY <1>1, <1>2, <1>4 DEF TypeOK, ResolverTypeOK, ResolverFree
    <2>2. q # <<>> => Head(q).type = DuePool[stage[Primary]]
      BY <1>2, <1>4, TakenHead
    <2>3. QED
      BY <1>2, <2>1, <2>2 DEF PrimaryInStage, InOrder
  <1>5. QED
    BY <1>3, <1>4

LEMMA RoundsAnswered ==
    ASSUME TypeOK, PrimaryInStage, InOrder, FinishAnswers
    PROVE  PrimaryInStage' /\ InOrder'
  <1>1. /\ answering /\ ~answering' /\ stage'[Primary] = "Idle"
        /\ UNCHANGED <<last, executed, work, proposals>>
    BY NodesAssumption DEF FinishAnswers, TypeOK, ConsensusTypeOK, proposerVars
  <1>2. QED
    BY <1>1 DEF PrimaryInStage, InOrder

LEMMA RoundsOthers ==
    ASSUME TypeOK, PrimaryInStage, InOrder, NEW i \in Nodes, NEW k \in Nodes,
           \/ FinishProposal
           \/ FinishPrepare(i) \/ FinishCommit(i) \/ FinishReply(i)
           \/ DeliverProposal(i) \/ LoseProposal(i) \/ Crash(i)
           \/ Deliver(i, k) \/ LosePost(i, k) \/ UNCHANGED vars
    PROVE  PrimaryInStage' /\ InOrder'
  <1>1. UNCHANGED <<last, executed, work, answering, proposals>>
    BY DEF FinishProposal, FinishPrepare, FinishCommit, FinishReply,
           DeliverProposal, LoseProposal, Crash, Deliver, LosePost,
           consensusVars, resolverVars, proposerVars, vars
  <1>2. stage'[Primary] = stage[Primary]
    <2>1. CASE FinishReply(i)
      BY <2>1, NodesAssumption DEF FinishReply, TypeOK, ConsensusTypeOK
    <2>2. CASE ~FinishReply(i)
      BY <2>2 DEF FinishProposal, FinishPrepare, FinishCommit,
           DeliverProposal, LoseProposal, Crash, Deliver, LosePost,
           consensusVars, vars
    <2>3. QED
      BY <2>1, <2>2
  <1>3. QED
    BY <1>1, <1>2, RoundsFrame

LEMMA RoundsStep ==
    ASSUME TypeOK, RepliesTruthful, MessagesProper, QuietDispatchers,
           QuietRounds, [Next]_vars
    PROVE  QuietRounds'
  <1> SUFFICES ASSUME overlaps' = 0 PROVE PrimaryInStage' /\ InOrder'
    BY DEF QuietRounds
  <1>1. /\ PrimaryInStage /\ InOrder
        /\ \A j \in Nodes : disp[j] = <<>>
    BY OverlapsGrow DEF QuietRounds, QuietDispatchers
  <1>2. ASSUME NEW i \in Nodes, Alarm(i) PROVE PrimaryInStage' /\ InOrder'
    <2>1. ~Moving(i)
      BY <1>2, OverlapsGrow DEF Alarm
    <2>2. QED
      BY <1>1, <1>2, <2>1, RoundsDispatch
  <1>3. ASSUME NEW i \in Nodes, Resolve(i) PROVE PrimaryInStage' /\ InOrder'
    BY <1>1, <1>3, RoundsExecute, RoundsHandle, RoundsOthers DEF Resolve
  <1>4. ASSUME NEW i \in Nodes, Handoff(i) PROVE PrimaryInStage' /\ InOrder'
    BY <1>1, <1>4, RoundsDispatch
  <1>5. QED
    BY <1>1, <1>2, <1>3, <1>4, RoundsPropose, RoundsAnswered, RoundsOthers,
       NodesAssumption DEF Next

\* At Idle, and where it waits for replies, the primary has executed every block
\* it has proposed: stage and LastSequenceID agree (transactionConsensus, Commit).
THEOREM RoundsQuiet == Spec => []QuietRounds
  <1>1. Init => QuietRounds
    <2>1. SUFFICES ASSUME Init PROVE PrimaryInStage /\ InOrder
      BY DEF QuietRounds
    <2>2. /\ work[Primary] = <<>> /\ ~answering /\ proposals = 0
          /\ last[Primary] = 0
      BY <2>1, NodesAssumption DEF Init
    <2>3. QED
      BY <2>2 DEF PrimaryInStage, InOrder
  <1>2. Init => QuietDispatchers
    BY DEF Init, QuietDispatchers
  <1>3. QED
    BY <1>1, <1>2, QuietStep, RoundsStep, TypeCorrect, TruthfulReplies,
       ProperMessages, PTL DEF Spec

\* "Consensus is not parallel" (node.go:207) is true as long as no timer fires
\* while a node is at work: the primary goes back to Idle, where
\* transactionConsensus starts a round, with every block it proposed executed.
THEOREM RoundsNotParallel == Spec => [](overlaps = 0 => NoParallelRounds)
  <1>1. TypeOK /\ QuietRounds => (overlaps = 0 => NoParallelRounds)
    <2>1. SUFFICES ASSUME TypeOK, InOrder, stage[Primary] = "Idle",
                          NEW b \in 1..proposals
                   PROVE  b \in ToSet(executed[Primary])
      BY DEF QuietRounds, NoParallelRounds
    <2>2. proposals \in Nat
      BY <2>1, BoundsAssumption DEF TypeOK, ProposerTypeOK
    <2>3. b \in 1..(proposals - 1) \/ (b = proposals /\ proposals > 0)
      BY <2>1, <2>2
    <2>4. QED
      BY <2>1, <2>3 DEF InOrder
  <1>2. QED
    BY <1>1, TypeCorrect, RoundsQuiet, PTL

-----------------------------------------------------------------------------
(* Executed blocks have been prepared by a quorum, as long as the primary  *)
(* is at most one block ahead of its own LastSequenceID.                   *)

\* No timer has fired early, or no round but the first has been started.
Calm == overlaps = 0 \/ proposals <= 1

CommitsPrepared ==
    /\ \A m : InFlight(m) /\ m.type = "commit" => PrepareQuorum(m.seq)
    /\ ExecPrepared

LEMMA QuorumsGrow ==
    ASSUME TypeOK, [Next]_vars, NEW b, PrepareQuorum(b)
    PROVE  PrepareQuorum(b)'
  <1> DEFINE S == {i \in Nodes : b \in prepares[i]}
             T == {i \in Nodes : b \in prepares'[i]}
  <1>1. IsFiniteSet(T)
    BY NodesAssumption, FS_Subset, T \in SUBSET Nodes, Zenon
  <1>2. S \in SUBSET T
    BY PreparesGrow
  <1>3. Cardinality(S) <= Cardinality(T) /\ IsFiniteSet(S)
    BY <1>1, <1>2, FS_Subset, Zenon
  <1>4. Cardinality(S) \in Nat /\ Cardinality(T) \in Nat /\ 2 * f \in Nat
    BY <1>1, <1>3, FS_CardinalityType, BoundsAssumption
  <1>5. QED
    BY <1>3, <1>4 DEF PrepareQuorum

\* The log in which GetPrepare finds a quorum.
LEMMA QuorumLog ==
    ASSUME TypeOK, RepliesTruthful, MessagesKeyed, MessagesProper, LoggedFresh,
           NEW i \in Nodes, Handling(i, "prepare"), NEW k \in Fresh(i)
    PROVE  /\ FiniteSubset(PreparesLogged(i, k), Only("prepare"))
           /\ Keyed(PreparesLogged(i, k))
           /\ work[i][k] \in PreparesLogged(i, k)
           /\ \A m \in PreparesLogged(i, k) :
                 /\ m.from \in Nodes \ {i, Primary}
                 /\ m.seq \in prepares[m.from]
                 /\ last[i] < m.seq /\ m.seq <= proposals
                 /\ m.seq \in Blocks
  <1> DEFINE L == PreparesLogged(i, k)
  <1>1. FiniteSubset(L, Only("prepare"))
    BY LoggedType DEF TypeOK
  <1>2. Keyed(L)
    BY KeyedLogged
  <1>3. work[i][k] \in L
    <2>1. k \in {y \in Fresh(i) : y <= k}
      BY DEF Fresh, TypeOK, ResolverTypeOK
    <2>2. QED
      BY <2>1 DEF PreparesLogged, PutAll
  <1>4. ASSUME NEW m \in L
        PROVE  /\ m.from \in Nodes \ {i, Primary}
               /\ m.seq \in prepares[m.from]
               /\ last[i] < m.seq /\ m.seq <= proposals
               /\ m.seq \in Blocks
    <2>1. m \in Msg /\ m.type = "prepare"
      BY <1>1 DEF FiniteSubset, Only
    <2>2. m \in log[i].prepare \/ \E x \in Fresh(i) : m = work[i][x]
      BY LoggedIn
    <2>3. last[i] < m.seq /\ m.seq <= proposals /\ Received(i, m)
      BY <2>2, BatchProposed, ReceivedBatch DEF LoggedFresh, Received, Fresh
    <2>4. m.from \in Nodes /\ m.seq \in Blocks
      BY <2>1, MsgFields
    <2>5. QED
      BY <2>1, <2>3, <2>4 DEF MessagesProper, Proper
  <1>5. QED
    BY <1>1, <1>2, <1>3, <1>4

\* With no more than 2f + 2 nodes there is no place for other senders in a log
\* where 2f replicas, other than the owner, agree on a block.
LEMMA QuorumFillsLog ==
    ASSUME Cardinality(Nodes) <= 2 * f + 2, NEW i \in Nodes \ {Primary},
           NEW L, FiniteSubset(L, Only("prepare")), Keyed(L),
           \A m \in L : m.from \in Nodes \ {i, Primary},
           NEW C \in SUBSET L, Cardinality(C) >= 2 * f
    PROVE  C = L
  <1> DEFINE S == (Nodes \ {i}) \ {Primary}
             g == [x \in L |-> x.from]
  <1>1. /\ IsFiniteSet(Nodes \ {i}) /\ IsFiniteSet(S)
        /\ Cardinality(Nodes \ {i}) = Cardinality(Nodes) - 1
        /\ Cardinality(S) = Cardinality(Nodes) - 2
        /\ Cardinality(Nodes) \in Nat
    <2>1. IsFiniteSet(Nodes) /\ Cardinality(Nodes) \in Nat
      BY NodesAssumption, FS_CardinalityType, Zenon
    <2>2. /\ IsFiniteSet(Nodes \ {i})
          /\ Cardinality(Nodes \ {i}) = Cardinality(Nodes) - 1
      BY <2>1, FS_RemoveElement
    <2>3. Primary \in Nodes \ {i}
      BY NodesAssumption
    <2>4. IsFiniteSet(S) /\ Cardinality(S) = Cardinality(Nodes \ {i}) - 1
      BY <2>2, <2>3, FS_RemoveElement
    <2>5. QED
      BY <2>1, <2>2, <2>4
  <1>2. \A x \in L : x \in Msg /\ Key(x) = x.from
    BY DEF FiniteSubset, Only, Key
  <1>3. g \in [L -> S]
    OBVIOUS
  <1>4. \A x, y \in L : g[x] = g[y] => x = y
    BY <1>2 DEF Keyed
  <1>5. g \in Injection(L, S)
    BY <1>3, <1>4 DEF Injection, IsInjective
  <1>6. Cardinality(L) <= Cardinality(S)
    BY <1>1, <1>5, FS_Injection, Zenon
  <1>7. IsFiniteSet(L) /\ Cardinality(C) <= Cardinality(L) /\ IsFiniteSet(C)
    BY FS_Subset, Zenon DEF FiniteSubset
  <1>8. Cardinality(L) \in Nat /\ Cardinality(C) \in Nat
    BY <1>7, FS_CardinalityType, Zenon
  <1>9. Cardinality(L) = Cardinality(C)
    BY <1>1, <1>6, <1>7, <1>8, BoundsAssumption
  <1>10. QED
    BY <1>7, <1>9, FS_Subset, Zenon

\* The block of the message at which GetPrepare finds a quorum, which is the one
\* it commits, is the block that the quorum is for.
LEMMA QuorumForBlock ==
    ASSUME TypeOK, RepliesTruthful, MessagesKeyed, MessagesProper, LoggedFresh,
           Cardinality(Nodes) <= 2 * f + 2, proposals <= last[Primary] + 1,
           NEW i \in Nodes, Handling(i, "prepare"), NEW k \in Fresh(i),
           MayBePrepared(PreparesLogged(i, k))
    PROVE  PrepareQuorum(work[i][k].seq)
  <1> DEFINE L == PreparesLogged(i, k)
             b == work[i][k].seq
  <1>1. /\ FiniteSubset(L, Only("prepare")) /\ Keyed(L) /\ work[i][k] \in L
        /\ \A x \in L : /\ x.from \in Nodes \ {i, Primary}
                       /\ x.seq \in prepares[x.from]
                       /\ last[i] < x.seq /\ x.seq <= proposals
                       /\ x.seq \in Blocks
    BY QuorumLog
  <1>2. PICK m \in L : Cardinality({x \in L : x.seq = m.seq}) >= 2 * f
    BY DEF MayBePrepared, PreparedFrom
  <1>3. ASSUME i = Primary PROVE m.seq = b
    <2>1. last[Primary] \in Nat /\ proposals \in Nat
      BY NodesAssumption, BoundsAssumption
         DEF TypeOK, ConsensusTypeOK, ProposerTypeOK
    <2>2. \A x \in L : x.seq \in Nat /\ last[Primary] < x.seq /\ x.seq <= proposals
      BY <1>1, <1>3 DEF Blocks
    <2>3. \A x \in L : x.seq = proposals
      BY <2>1, <2>2
    <2>4. QED
      BY <1>1, <1>2, <2>3
  <1>4. ASSUME i # Primary PROVE m.seq = b
    <2> DEFINE C == {x \in L : x.seq = m.seq}
    <2>1. C \in SUBSET L /\ i \in Nodes \ {Primary}
      BY <1>4
    <2>2. C = L
      BY <1>1, <1>2, <2>1, QuorumFillsLog
    <2>3. QED
      BY <1>1, <2>2
  <1>5. m.seq = b
    BY <1>3, <1>4
  <1>6. QED
    BY <1>1, <1>2, <1>5, SendersCounted

LEMMA CommitsStep ==
    ASSUME TypeOK, RepliesTruthful, MessagesKeyed, MessagesProper, LoggedFresh,
           Cardinality(Nodes) <= 2 * f + 2, proposals <= last[Primary] + 1,
           CommitsPrepared, [Next]_vars
    PROVE  CommitsPrepared'
  <1>1. ASSUME NEW m, InFlight(m), m.type = "commit"
        PROVE  PrepareQuorum(m.seq)'
    BY <1>1, QuorumsGrow DEF CommitsPrepared
  <1>2. ASSUME NEW i \in Nodes, NEW m, out'[i] # NoPost, m = out'[i].msg,
               m.type = "commit"
        PROVE  PrepareQuorum(m.seq)'
    <2>1. CASE out[i] # NoPost /\ out'[i].msg = out[i].msg
      BY <1>1, <1>2, <2>1 DEF InFlight
    <2>2. CASE NewCommit(i)
      <3>1. PICK k \in Fresh(i) :
               /\ MayBePrepared(PreparesLogged(i, k))
               /\ m = CommitMsg(i, work[i][k].seq, PreparesLogged(i, k))
        BY <1>2, <2>2 DEF NewCommit
      <3>2. PrepareQuorum(work[i][k].seq)
        BY <2>2, <3>1, QuorumForBlock DEF NewCommit
      <3>3. m.seq = work[i][k].seq
        BY <3>1 DEF CommitMsg
      <3>4. PrepareQuorum(m.seq)
        BY <3>2, <3>3
      <3>5. QED
        BY <3>4, QuorumsGrow
    <2>3. CASE NewPrepare(i)
      BY <1>2, <2>3 DEF NewPrepare, PrepareMsg
    <2>4. CASE NewReply(i)
      BY <1>2, <2>4 DEF NewReply, ReplyMsg
    <2>5. QED
      BY <1>2, <2>1, <2>2, <2>3, <2>4, OutShape
  <1>3. ASSUME NEW m, InFlight(m)', m.type = "commit" PROVE PrepareQuorum(m.seq)'
    <2>1. ASSUME NEW i \in Nodes,
                 \/ \E t \in MsgType : m \in pool'[i][t]
                 \/ m \in ToSet(disp'[i]) \/ m \in ToSet(work'[i])
          PROVE  PrepareQuorum(m.seq)'
      BY <1>1, <1>3, <2>1, PoolStep, BatchStep
    <2>2. ASSUME NEW i \in Nodes, out'[i] # NoPost, m = out'[i].msg
          PROVE  PrepareQuorum(m.seq)'
      BY <1>2, <1>3, <2>2
    <2>3. ASSUME prop' # NoPost, m = prop'.msg PROVE PrepareQuorum(m.seq)'
      <3>1. prop # NoPost /\ m = prop.msg
        BY <1>3, <2>3, PropStep DEF PrePrepareMsg
      <3>2. QED
        BY <1>1, <1>3, <3>1 DEF InFlight
    <2>4. QED
      BY <1>3, <2>1, <2>2, <2>3 DEF InFlight, NoPost
  <1>4. ASSUME NEW i \in Nodes, NEW b \in ToSet(executed'[i])
        PROVE  PrepareQuorum(b)'
    <2>1. CASE b \in ToSet(executed[i])
      BY <2>1, QuorumsGrow DEF CommitsPrepared, ExecPrepared
    <2>2. CASE b \notin ToSet(executed[i])
      <3>1. PICK j \in Nodes : \E c \in Blocks :
               /\ HandleCommitQuorum(j)
               /\ executed' = [executed EXCEPT ![j] = Append(@, c)]
               /\ \E k \in DOMAIN work[j] : work[j][k].seq = c
        BY <2>2, <1>4, ExecuteStep
      <3>2. PICK k \in DOMAIN work[j] :
               executed' = [executed EXCEPT ![j] = Append(@, work[j][k].seq)]
        BY <3>1
      <3>3. /\ executed[j] \in Seq(Blocks) /\ work[j][k].seq \in Blocks
            /\ work[j][k].type = "commit"
        BY <3>1, BatchType, MsgFields
           DEF HandleCommitQuorum, TypeOK, ConsensusTypeOK, Only
      <3>4. i = j /\ executed'[j] = Append(executed[j], work[j][k].seq)
        BY <1>4, <2>2, <3>2 DEF TypeOK, ConsensusTypeOK
      <3>5. b = work[j][k].seq
        BY <1>4, <2>2, <3>3, <3>4, AppendedElements
      <3>6. InFlight(work[j][k])
        BY DEF InFlight, ToSet
      <3>7. QED
        BY <1>1, <3>3, <3>5, <3>6
    <2>3. QED
      BY <2>1, <2>2
  <1>5. QED
    BY <1>3, <1>4 DEF CommitsPrepared, ExecPrepared

\* Calm was so before, and leaves the primary one round at most.
LEMMA CalmRounds ==
    ASSUME TypeOK, QuietRounds
    PROVE  /\ [Next]_vars /\ Calm' => Calm
           /\ Calm => proposals <= last[Primary] + 1
  <1>1. proposals \in Nat /\ last[Primary] \in Nat
    BY NodesAssumption, BoundsAssumption
       DEF TypeOK, ConsensusTypeOK, ProposerTypeOK
  <1>2. Calm => proposals <= last[Primary] + 1
    BY <1>1 DEF Calm, QuietRounds, InOrder
  <1>3. [Next]_vars /\ Calm' => Calm
    BY <1>1, OverlapsGrow, PropStep DEF Calm
  <1>4. QED
    BY <1>2, <1>3

\* With the code's four nodes and f = 1, or as many as 2f + 2, nobody executes
\* a block that was not prepared by a quorum, in the first round whatever the
\* timers do, in all rounds if none fires while a node is at work: although a
\* commit is accepted on the word of its sender and committed() does not compare
\* the blocks of the commits it counts. What matters is that 2f senders fill the
\* log of a replica, and that the primary is never two blocks ahead.
THEOREM PreparedExecution ==
    Cardinality(Nodes) <= 2 * f + 2 => (Spec => [](Calm => ExecPrepared))
  <1> SUFFICES ASSUME Cardinality(Nodes) <= 2 * f + 2
               PROVE  Spec => [](Calm => ExecPrepared)
    OBVIOUS
  <1> DEFINE Quorums == Calm => CommitsPrepared
  <1>1. Init => Quorums
    BY DEF Init, CommitsPrepared, ExecPrepared, InFlight, ToSet
  <1>2. ASSUME TypeOK, RepliesTruthful, MessagesKeyed, MessagesProper,
               LoggedFresh, QuietRounds, Quorums, [Next]_vars
        PROVE  Quorums'
    BY <1>2, CalmRounds, CommitsStep
  <1>3. Quorums => (Calm => ExecPrepared)
    BY DEF CommitsPrepared
  <1>4. QED
    BY <1>1, <1>2, <1>3, TypeCorrect, TruthfulReplies, KeyedMessages,
       ProperMessages, FreshLog, RoundsQuiet, PTL DEF Spec

-----------------------------------------------------------------------------
(* In the first round the client is told of no failure.                    *)

\* A batch of replies holds f + 1 of them: the alarm waits for as many, and the
\* resolver takes them all at once.
Enough(q) == q # <<>> /\ Head(q).type = "reply" => Len(q) >= f + 1

RepliesEnough == \A i \in Nodes : Enough(disp[i]) /\ Enough(work[i])

LEMMA EnoughTaken ==
    ASSUME TypeOK, NEW i \in Nodes, NEW q, Taken(i, q)
    PROVE  Enough(q)
  <1> SUFFICES ASSUME q # <<>>, Head(q).type = "reply" PROVE Len(q) >= f + 1
    BY DEF Enough
  <1> DEFINE S == pool[i][DuePool[stage[i]]]
  <1>1. DuePool[stage[i]] = "reply" /\ stage[i] \in Stage
    BY TakenHead DEF TypeOK, ConsensusTypeOK
  <1>2. stage[i] = "Committed"
    BY <1>1 DEF DuePool, Stage
  <1>3. Cardinality(S) >= f + 1
    BY <1>2 DEF Taken, DueSize
  <1>4. IsFiniteSet(S)
    BY TakenIn DEF TypeOK, BufferTypeOK, FiniteSubset
  <1>5. Cardinality(S) \in Nat
    BY <1>4, FS_CardinalityType, Zenon
  <1>6. q \in [1..Cardinality(S) -> S]
    BY DEF Taken, SetToSeqs
  <1>7. q \in Seq(Msg) /\ DOMAIN q = 1..Cardinality(S)
    BY <1>6, TakenIn
  <1>8. Len(q) = Cardinality(S)
    BY <1>5, <1>7
  <1>9. QED
    BY <1>3, <1>8

LEMMA EnoughStep == TypeOK /\ RepliesEnough /\ [Next]_vars => RepliesEnough'
  <1> SUFFICES ASSUME TypeOK, RepliesEnough, [Next]_vars, NEW i \in Nodes
               PROVE  Enough(disp'[i]) /\ Enough(work'[i])
    BY DEF RepliesEnough
  <1>1. Enough(<<>>)
    BY DEF Enough
  <1>2. ASSUME NEW q, Rest(i, q) PROVE Enough(q)
    BY <1>2, RestIn DEF Enough
  <1>3. QED
    BY <1>1, <1>2, BatchShape, EnoughTaken DEF RepliesEnough

FirstRound == proposals <= 1 => \A b \in Blocks : refused[b] = 0

\* A strictly increasing history of blocks that ends with block 1.
LEMMA OnlyFirst ==
    ASSUME NEW h \in Seq(Blocks), NEW e \in Seq(Blocks), h # <<>>,
           Len(h) <= Len(e), \A k \in 1..Len(h) : h[k] = e[k],
           \A k \in 1..(Len(e) - 1) : e[k] < e[k + 1], h[Len(h)] = 1
    PROVE  h = <<1>>
  <1>1. Len(h) \in Nat /\ Len(h) > 0 /\ Len(e) \in Nat
    OBVIOUS
  <1>2. ASSUME Len(h) > 1 PROVE FALSE
    <2> DEFINE n == Len(h) - 1
    <2>1. n \in 1..(Len(e) - 1) /\ n \in 1..Len(h) /\ n + 1 = Len(h)
      BY <1>1, <1>2
    <2>2. h[n] < h[n + 1]
      BY <1>1, <2>1
    <2>3. \A k \in 1..Len(h) : h[k] \in Blocks
      OBVIOUS
    <2>4. h[n] \in 1..MaxBlocks
      BY <2>1, <2>3, Zenon DEF Blocks
    <2>5. QED
      BY <2>1, <2>2, <2>4, BoundsAssumption
  <1>3. \A n \in Nat : n > 0 => n = 1 \/ n > 1
    OBVIOUS
  <1>4. Len(h) = 1
    BY <1>1, <1>2, <1>3, Zenon
  <1>5. QED
    BY <1>4

\* A truthful reply of the first round is about block 1, executed first.
LEMMA FirstReply ==
    ASSUME TypeOK, ExecOrdered, NEW m \in Msg, Sound(m), m.type = "reply",
           proposals <= 1
    PROVE  m.history = <<1>>
  <1> DEFINE h == m.history
             e == executed[m.from]
  <1>1. /\ h \in Seq(Blocks) /\ e \in Seq(Blocks) /\ h # <<>>
        /\ m.seq \in Blocks /\ h[Len(h)] = m.seq /\ m.from \in Nodes
    BY MsgFields DEF Sound, TypeOK, ConsensusTypeOK
  <1>2. Len(h) <= Len(e) /\ \A k \in 1..Len(h) : h[k] = e[k]
    BY <1>1, PrefixPointwise DEF Sound
  <1>3. h[Len(h)] = 1
    <2>1. m.seq \in 1..MaxBlocks /\ m.seq <= proposals /\ proposals \in Nat
      BY <1>1, BoundsAssumption DEF Blocks, Sound, TypeOK, ProposerTypeOK
    <2>2. QED
      BY <1>1, <2>1, BoundsAssumption
  <1>4. QED
    BY <1>1, <1>2, <1>3, OnlyFirst DEF ExecOrdered

\* In the first round every result that is counted has f + 1 supporters.
LEMMA FirstReplies ==
    ASSUME TypeOK, ExecOrdered, RepliesTruthful, MessagesKeyed, RepliesEnough,
           proposals <= 1, NEW i \in Nodes, Handling(i, "reply"), NEW b
    PROVE  Results(work[i], b) \ Confirmed(work[i], b) = {}
  <1> DEFINE q == work[i]
             D == 1..Len(q)
             S == Supporters(q, <<1>>)
             g == [k \in D |-> q[k].from]
  <1>1. /\ q \in Seq(Msg) /\ q # <<>> /\ DOMAIN q = D
        /\ \A k \in D : q[k] \in Only("reply")
        /\ KeyedBatch(q) /\ Head(q).type = "reply"
    BY BatchType DEF TypeOK, Handling, MessagesKeyed
  <1>2. \A k \in D : /\ q[k] \in Msg /\ q[k].type = "reply"
                     /\ q[k].from \in Nodes /\ Key(q[k]) = q[k].from
    BY <1>1, MsgFields DEF Only, Key
  <1>3. \A k \in D : q[k].history = <<1>>
    BY <1>1, <1>2, BatchProposed, FirstReply
  <1>4. Len(q) >= f + 1
    BY <1>1 DEF RepliesEnough, Enough
  <1>5. g \in [D -> S]
    BY <1>1, <1>2, <1>3 DEF Supporters
  <1>6. \A k, l \in D : g[k] = g[l] => k = l
    BY <1>1, <1>2 DEF KeyedBatch
  <1>7. g \in Injection(D, S)
    BY <1>5, <1>6 DEF Injection, IsInjective
  <1>8. IsFiniteSet(S)
    BY NodesAssumption, FS_Subset, S \in SUBSET Nodes, Zenon DEF Supporters
  <1>9. Cardinality(D) <= Cardinality(S)
    BY <1>7, <1>8, FS_Injection, Zenon
  <1>10. Cardinality(D) = Len(q) /\ Len(q) \in Nat /\ Cardinality(S) \in Nat
    <2>1. Len(q) \in Nat
      BY <1>1
    <2>2. Cardinality(D) = Len(q)
      BY <2>1, FS_Interval
    <2>3. Cardinality(S) \in Nat
      BY <1>8, FS_CardinalityType, Zenon
    <2>4. QED
      BY <2>1, <2>2, <2>3
  <1>11. Cardinality(S) >= f + 1
    BY <1>4, <1>9, <1>10, BoundsAssumption
  <1>12. ASSUME NEW h \in Results(q, b) PROVE h \in Confirmed(q, b)
    <2>1. h = <<1>>
      BY <1>1, <1>3 DEF Results
    <2>2. QED
      BY <1>11, <2>1 DEF Confirmed
  <1>13. QED
    BY <1>12

LEMMA FirstRoundStep ==
    ASSUME TypeOK, ExecOrdered, RepliesTruthful, MessagesKeyed, RepliesEnough,
           FirstRound, [Next]_vars
    PROVE  FirstRound'
  <1> SUFFICES ASSUME proposals' <= 1, NEW b \in Blocks
               PROVE  refused'[b] = 0
    BY DEF FirstRound
  <1>1. proposals <= 1
    BY PropStep, BoundsAssumption DEF TypeOK, ProposerTypeOK
  <1>2. refused[b] = 0
    BY <1>1 DEF FirstRound
  <1>3. ASSUME NEW i \in Nodes, HandleReplies(i) PROVE refused'[b] = 0
    <2>1. Results(work[i], b) \ Confirmed(work[i], b) = {}
      BY <1>1, <1>3, FirstReplies DEF HandleReplies
    <2>2. refused'[b] = refused[b] + Cardinality({})
      BY <1>3, <2>1 DEF HandleReplies
    <2>3. Cardinality({}) = 0
      BY FS_EmptySet
    <2>4. QED
      BY <1>2, <2>2, <2>3
  <1>4. ASSUME NEW i \in Nodes, NEW k \in Nodes,
               \/ Propose \/ FinishProposal \/ FinishAnswers
               \/ Alarm(i) \/ Handoff(i)
               \/ HandlePrePrepare(i)
               \/ HandlePrepareQuorum(i) \/ HandlePrepareWait(i)
               \/ HandleCommitQuorum(i) \/ HandleCommitWait(i)
               \/ FinishPrepare(i) \/ FinishCommit(i) \/ FinishReply(i)
               \/ DeliverProposal(i) \/ LoseProposal(i)
               \/ Crash(i) \/ Deliver(i, k) \/ LosePost(i, k)
               \/ UNCHANGED vars
        PROVE  refused'[b] = 0
    <2>1. UNCHANGED refused
      BY <1>4 DEF Propose, FinishProposal, FinishAnswers, Alarm, Handoff,
         HandlePrePrepare, HandlePrepareQuorum, HandlePrepareWait,
         HandleCommitQuorum, HandleCommitWait, FinishPrepare, FinishCommit,
         FinishReply, DeliverProposal, LoseProposal, Crash, Deliver, LosePost,
         clientVars, vars
    <2>2. QED
      BY <1>2, <2>1
  <1>5. QED
    BY <1>3, <1>4, NodesAssumption DEF Next, Resolve

\* "Not enough valid replies: the execution failed" is never said of a block
\* that a node has executed, in the first round: there all replies agree, and
\* f + 1 of them are counted together. From the second round on it may be.
THEOREM FirstRefusals == Spec => []FirstNotRefused
  <1>1. Init => RepliesEnough /\ FirstRound
    BY DEF Init, RepliesEnough, Enough, FirstRound
  <1>2. FirstRound => FirstNotRefused
    BY DEF FirstRound, FirstNotRefused, RefusedNotExecuted
  <1>3. QED
    BY <1>1, <1>2, EnoughStep, FirstRoundStep, TypeCorrect, OrderedExecution,
       TruthfulReplies, KeyedMessages, PTL DEF Spec

=============================================================================
