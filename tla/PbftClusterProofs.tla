------------------------- MODULE PbftClusterProofs -------------------------
(***************************************************************************)
(* Theorems about PbftCluster, for every set of nodes, f and bound.        *)
(***************************************************************************)
EXTENDS PbftCluster, FiniteSetTheorems, TLAPS

-----------------------------------------------------------------------------
(* Lemmas on data.                                                         *)

\* The fields of a message.
LEMMA MsgFields ==
    ASSUME NEW m \in Msg
    PROVE  /\ m.type \in MsgType /\ m.from \in Nodes /\ m.seq \in Blocks
           /\ m.votes \in Nat /\ m.history \in Seq(Blocks)
  BY DEF Msg

\* The elements of a batch at some of its positions are finitely many.
LEMMA FiniteElements ==
    ASSUME NEW q \in Seq(Msg), NEW D \in SUBSET (DOMAIN q)
    PROVE  IsFiniteSet({q[k] : k \in D})
  <1>1. IsFiniteSet(1..Len(q))
    BY FS_Interval
  <1>2. DOMAIN q = 1..Len(q)
    OBVIOUS
  <1>3. IsFiniteSet(D)
    BY <1>1, <1>2, FS_Subset, Zenon
  <1> DEFINE T == {q[k] : k \in D}
             g == [k \in D |-> q[k]]
  <1>4. g \in Surjection(D, T)
    BY DEF Surjection
  <1>5. QED
    BY <1>3, <1>4, FS_Surjection, Zenon

\* PutAll keeps the union of its arguments finite and within a type.
LEMMA PutAllType ==
    ASSUME NEW U, NEW S, NEW T, FiniteSubset(S, U), FiniteSubset(T, U)
    PROVE  FiniteSubset(PutAll(S, T), U)
  <1> DEFINE R == {x \in S : \A m \in T : Key(x) # Key(m)}
  <1>1. IsFiniteSet(R)
    BY FS_Subset, R \in SUBSET S, Zenon DEF FiniteSubset
  <1>2. IsFiniteSet(R \cup T)
    BY <1>1, FS_Union, Zenon DEF FiniteSubset
  <1>3. QED
    BY <1>2 DEF PutAll, FiniteSubset

LEMMA PutType ==
    ASSUME NEW U, NEW S, NEW m \in U, FiniteSubset(S, U)
    PROVE  FiniteSubset(Put(S, m), U)
  <1> DEFINE R == {x \in S : Key(x) # Key(m)}
  <1>1. IsFiniteSet(R)
    BY FS_Subset, R \in SUBSET S, Zenon DEF FiniteSubset
  <1>2. IsFiniteSet(R \cup {m})
    BY <1>1, FS_AddElement, Zenon
  <1>3. QED
    BY <1>2 DEF Put, FiniteSubset

LEMMA SubsetType ==
    ASSUME NEW U, NEW S, NEW T, T \subseteq S, FiniteSubset(S, U)
    PROVE  FiniteSubset(T, U)
  BY FS_Subset, T \in SUBSET S DEF FiniteSubset

LEMMA EmptyType ==
    ASSUME NEW U
    PROVE  FiniteSubset({}, U)
  BY FS_EmptySet DEF FiniteSubset

\* The order in which an alarm takes the messages of a pool.
LEMMA OrderType ==
    ASSUME NEW t \in MsgType, NEW S, FiniteSubset(S, Only(t)),
           NEW order \in SetToSeqs(S)
    PROVE  /\ order \in Seq(Msg)
           /\ \A k \in DOMAIN order : order[k] \in S
           /\ OneType(order)
  <1>1. Cardinality(S) \in Nat
    BY FS_CardinalityType, Zenon DEF FiniteSubset
  <1>2. order \in [1..Cardinality(S) -> S]
    BY DEF SetToSeqs
  <1>3. order \in Seq(S)
    BY <1>1, <1>2
  <1>4. S \subseteq Msg /\ \A m \in S : m.type = t
    BY DEF FiniteSubset, Only
  <1>5. order \in Seq(Msg)
    BY <1>1, <1>2, <1>4
  <1>6. \A k \in DOMAIN order : order[k] \in S
    BY <1>2
  <1>7. DOMAIN order # {} => 1 \in DOMAIN order
    BY <1>1, <1>2
  <1>8. OneType(order)
    BY <1>4, <1>6, <1>7 DEF OneType
  <1>9. QED
    BY <1>5, <1>6, <1>8

\* What is left of a batch is a batch.
LEMMA SubSeqType ==
    ASSUME NEW q \in Seq(Msg), OneType(q), NEW k \in DOMAIN q
    PROVE  /\ SubSeq(q, k + 1, Len(q)) \in Seq(Msg)
           /\ \A n \in DOMAIN SubSeq(q, k + 1, Len(q)) :
                 SubSeq(q, k + 1, Len(q))[n] = q[k + n] /\ k + n \in DOMAIN q
           /\ OneType(SubSeq(q, k + 1, Len(q)))
  <1> DEFINE r == SubSeq(q, k + 1, Len(q))
  <1>1. r \in Seq(Msg)
    OBVIOUS
  <1>2. DOMAIN r = 1..(Len(q) - k)
    OBVIOUS
  <1>3. \A n \in DOMAIN r : r[n] = q[k + n] /\ k + n \in DOMAIN q
    BY <1>2
  <1>4. DOMAIN r # {} => 1 \in DOMAIN r
    BY <1>2
  <1>5. OneType(r)
    BY <1>3, <1>4 DEF OneType
  <1>6. QED
    BY <1>1, <1>3, <1>5

LEMMA EmptyBatchType == <<>> \in Seq(Msg) /\ OneType(<<>>)
  BY DEF OneType

\* A batch with a message of type t in front consists of such messages.
LEMMA BatchOfType ==
    ASSUME NEW q \in Seq(Msg), OneType(q), q # <<>>, NEW t, Head(q).type = t
    PROVE  \A k \in DOMAIN q : q[k] \in Only(t)
  BY DEF OneType, Only

\* The signatures in a finite log are finitely many.
LEMMA SignaturesFinite ==
    ASSUME NEW L, IsFiniteSet(L)
    PROVE  IsFiniteSet(Signatures(L))
  <1> DEFINE g == [m \in L |-> {<<Primary, m.seq>>, <<m.from, m.seq>>}]
             T == {{<<Primary, m.seq>>, <<m.from, m.seq>>} : m \in L}
  <1>1. g \in Surjection(L, T)
    BY DEF Surjection
  <1>2. IsFiniteSet(T)
    BY <1>1, FS_Surjection, Zenon
  <1>3. ASSUME NEW S \in T PROVE IsFiniteSet(S)
    <2>1. PICK m \in L : S = {<<Primary, m.seq>>, <<m.from, m.seq>>}
      OBVIOUS
    <2>2. IsFiniteSet({<<Primary, m.seq>>})
      BY FS_Singleton, Zenon
    <2>3. IsFiniteSet({<<Primary, m.seq>>} \cup {<<m.from, m.seq>>})
      BY <2>2, FS_AddElement, Zenon
    <2>4. S = {<<Primary, m.seq>>} \cup {<<m.from, m.seq>>}
      BY <2>1
    <2>5. QED
      BY <2>3, <2>4, Zenon
  <1>4. QED
    BY <1>2, <1>3, FS_UNION DEF Signatures

\* What the handlers build are messages.
LEMMA BuiltMessages ==
    /\ \A b \in Blocks : PrePrepareMsg(b) \in Only("preprepare")
    /\ \A i \in Nodes : \A m \in Msg : PrepareMsg(i, m) \in Only("prepare")
    /\ \A i \in Nodes : \A b \in Blocks : \A L :
          IsFiniteSet(L) => CommitMsg(i, b, L) \in Only("commit")
    /\ \A i \in Nodes : \A b \in Blocks :
          executed[i] \in Seq(Blocks) => ReplyMsg(i, b) \in Only("reply")
  <1>1. ASSUME NEW b \in Blocks PROVE PrePrepareMsg(b) \in Only("preprepare")
    BY NodesAssumption DEF PrePrepareMsg, Only, Msg, MsgType
  <1>2. ASSUME NEW i \in Nodes, NEW m \in Msg
        PROVE  PrepareMsg(i, m) \in Only("prepare")
    BY MsgFields DEF PrepareMsg, Only, Msg, MsgType
  <1>3. ASSUME NEW i \in Nodes, NEW b \in Blocks, NEW L, IsFiniteSet(L)
        PROVE  CommitMsg(i, b, L) \in Only("commit")
    <2> DEFINE S == {s \in Signatures(L) : s[2] = b}
    <2>1. IsFiniteSet(S)
      BY <1>3, SignaturesFinite, FS_Subset, S \in SUBSET Signatures(L), Zenon
    <2>2. 1 + Cardinality(S) \in Nat
      BY <2>1, FS_CardinalityType
    <2>3. QED
      BY <2>2 DEF CommitMsg, Only, Msg, MsgType
  <1>4. ASSUME NEW i \in Nodes, NEW b \in Blocks, executed[i] \in Seq(Blocks)
        PROVE  ReplyMsg(i, b) \in Only("reply")
    BY <1>4 DEF ReplyMsg, Only, Msg, MsgType
  <1>5. QED
    BY <1>1, <1>2, <1>3, <1>4

-----------------------------------------------------------------------------
(* The type invariant. It is inductive as it stands: the pools must hold   *)
(* one type of message for the batches to, the batches for the logs to,    *)
(* and pools and logs must be finite for their sizes to be numbers.        *)

\* A part of the invariant holds after a step that leaves its variables alone.
LEMMA TypeFrame ==
    /\ ConsensusTypeOK /\ UNCHANGED consensusVars => ConsensusTypeOK'
    /\ BufferTypeOK /\ UNCHANGED bufferVars => BufferTypeOK'
    /\ ResolverTypeOK /\ UNCHANGED resolverVars => ResolverTypeOK'
    /\ ProposerTypeOK /\ UNCHANGED proposerVars => ProposerTypeOK'
    /\ ClientTypeOK /\ UNCHANGED clientVars => ClientTypeOK'
    /\ EnvTypeOK /\ UNCHANGED envVars /\ UNCHANGED prepares => EnvTypeOK'
  BY DEF ConsensusTypeOK, consensusVars, BufferTypeOK, bufferVars,
         ResolverTypeOK, resolverVars, ProposerTypeOK, proposerVars,
         ClientTypeOK, clientVars, EnvTypeOK, envVars

LEMMA TypeInit == Init => TypeOK
  <1> SUFFICES ASSUME Init PROVE TypeOK
    OBVIOUS
  <1> USE DEF Init
  <1>1. ConsensusTypeOK
    <2>1. /\ stage \in [Nodes -> Stage]
          /\ last \in [Nodes -> 0..MaxBlocks]
          /\ executed \in [Nodes -> Seq(Blocks)]
      BY BoundsAssumption DEF Stage
    <2>2. log \in [Nodes -> [prepare : SUBSET Msg, commit : SUBSET Msg]]
      OBVIOUS
    <2>3. \A i \in Nodes : log[i].prepare = {} /\ log[i].commit = {}
      OBVIOUS
    <2>4. QED
      BY <2>1, <2>2, <2>3, EmptyType DEF ConsensusTypeOK
  <1>2. BufferTypeOK
    BY EmptyType, EmptyBatchType DEF BufferTypeOK
  <1>3. ResolverTypeOK
    BY EmptyBatchType DEF ResolverTypeOK, NoPost, Post
  <1>4. ProposerTypeOK
    BY BoundsAssumption DEF ProposerTypeOK, NoPost, Post
  <1>5. ClientTypeOK /\ EnvTypeOK
    BY DEF ClientTypeOK, EnvTypeOK
  <1>6. QED
    BY <1>1, <1>2, <1>3, <1>4, <1>5 DEF TypeOK

\* A post that one destination has taken, or missed, is still a post.
LEMMA PostType ==
    ASSUME NEW x \in Post, NEW j
    PROVE  [x EXCEPT !.to = @ \ {j}] \in Post
  <1>1. CASE x = NoPost
    BY <1>1 DEF Post, NoPost
  <1>2. CASE x \in [msg : Msg, to : SUBSET Nodes]
    BY <1>2 DEF Post
  <1>3. QED
    BY <1>1, <1>2 DEF Post

\* A timer leaves everything but the number of overlaps alone.
LEMMA TimerType ==
    ASSUME NEW i, EnvTypeOK, Timer(i)
    PROVE  overlaps' \in Nat
  BY DEF Timer, EnvTypeOK

\* Accept adds a message to the pool of its type.
LEMMA AcceptType ==
    ASSUME BufferTypeOK, NEW j \in Nodes, NEW m \in Msg, Accept(j, m),
           UNCHANGED disp
    PROVE  BufferTypeOK'
  <1>1. m.type \in MsgType /\ m \in Only(m.type)
    BY MsgFields DEF Only
  <1>2. pool' = [pool EXCEPT ![j][m.type] = Put(pool[j][m.type], m)]
    BY DEF Accept
  <1>3. FiniteSubset(Put(pool[j][m.type], m), Only(m.type))
    BY <1>1, PutType DEF BufferTypeOK
  <1>4. Put(pool[j][m.type], m) \in SUBSET Msg
    BY <1>3 DEF FiniteSubset, Only
  <1>5. pool' \in [Nodes -> [MsgType -> SUBSET Msg]]
    BY <1>1, <1>2, <1>4 DEF BufferTypeOK
  <1>6. ASSUME NEW i \in Nodes, NEW t \in MsgType
        PROVE  FiniteSubset(pool'[i][t], Only(t))
    <2>1. CASE i = j /\ t = m.type
      BY <1>1, <1>2, <1>3, <2>1 DEF BufferTypeOK
    <2>2. CASE ~(i = j /\ t = m.type)
      <3>1. pool'[i][t] = pool[i][t]
        BY <1>1, <1>2, <2>2 DEF BufferTypeOK
      <3>2. QED
        BY <3>1 DEF BufferTypeOK
    <2>3. QED
      BY <2>1, <2>2
  <1>7. QED
    BY <1>5, <1>6 DEF BufferTypeOK

\* A pool may lose messages.
LEMMA ShrunkPoolType ==
    ASSUME BufferTypeOK, NEW i \in Nodes, NEW t \in MsgType,
           NEW S \in SUBSET pool[i][t],
           pool' = [pool EXCEPT ![i][t] = S], UNCHANGED disp
    PROVE  BufferTypeOK'
  <1>1. FiniteSubset(S, Only(t))
    BY SubsetType DEF BufferTypeOK
  <1>2. S \in SUBSET Msg
    BY <1>1 DEF FiniteSubset, Only
  <1>3. pool' \in [Nodes -> [MsgType -> SUBSET Msg]]
    BY <1>2 DEF BufferTypeOK
  <1>4. ASSUME NEW j \in Nodes, NEW u \in MsgType
        PROVE  FiniteSubset(pool'[j][u], Only(u))
    BY <1>1 DEF BufferTypeOK
  <1>5. QED
    BY <1>3, <1>4 DEF BufferTypeOK

\* The posts of a resolver, with one replaced.
LEMMA OutType ==
    ASSUME ResolverTypeOK, NEW i \in Nodes, NEW x \in Post,
           out' = [out EXCEPT ![i] = x], UNCHANGED <<work, answering>>
    PROVE  ResolverTypeOK'
  BY DEF ResolverTypeOK

\* A message and destinations make a post.
LEMMA NewPostType ==
    /\ NoPost \in Post
    /\ \A m \in Msg : \A D \in SUBSET Nodes : [msg |-> m, to |-> D] \in Post
  BY DEF NoPost, Post

\* What is being posted to somebody is a message.
LEMMA PostedMsg ==
    ASSUME NEW x \in Post, x.msg # NoMsg \/ x.to # {}
    PROVE  x.msg \in Msg /\ x.to \subseteq Nodes
  BY DEF Post, NoPost

\* The actions of transactionConsensus and of the posts preserve the types.
LEMMA TypeProposer ==
    ASSUME TypeOK,
           \/ Propose \/ FinishProposal
           \/ \E j \in Nodes : DeliverProposal(j) \/ LoseProposal(j)
    PROVE  TypeOK'
  <1> USE DEF TypeOK
  <1>1. CASE Propose
    <2>1. ConsensusTypeOK'
      BY <1>1, NodesAssumption DEF Propose, ConsensusTypeOK, Stage
    <2>2. proposals + 1 \in Blocks
      BY <1>1, BoundsAssumption DEF Propose, ProposerTypeOK, Blocks
    <2>3. PrePrepareMsg(proposals + 1) \in Msg
      BY <2>2, BuiltMessages DEF Only
    <2>4. prop' \in Post
      BY <1>1, <2>3, NewPostType DEF Propose
    <2>5. ProposerTypeOK'
      BY <1>1, <2>2, <2>4 DEF Propose, ProposerTypeOK, Blocks
    <2>6. EnvTypeOK'
      BY <1>1, TimerType DEF Propose, EnvTypeOK
    <2>7. QED
      BY <1>1, <2>1, <2>5, <2>6, TypeFrame DEF Propose
  <1>2. CASE FinishProposal
    <2>1. ProposerTypeOK'
      BY <1>2, NewPostType DEF FinishProposal, ProposerTypeOK
    <2>2. QED
      BY <1>2, <2>1, TypeFrame DEF FinishProposal
  <1>3. ASSUME NEW j \in Nodes, DeliverProposal(j) PROVE TypeOK'
    <2>1. ProposerTypeOK'
      BY <1>3, PostType DEF DeliverProposal, ProposerTypeOK
    <2>2. prop.msg \in Msg
      BY <1>3, PostedMsg DEF DeliverProposal, ProposerTypeOK
    <2>3. BufferTypeOK'
      BY <1>3, <2>2, AcceptType DEF DeliverProposal
    <2>4. QED
      BY <1>3, <2>1, <2>3, TypeFrame DEF DeliverProposal
  <1>4. ASSUME NEW j \in Nodes, LoseProposal(j) PROVE TypeOK'
    <2>1. ProposerTypeOK'
      BY <1>4, PostType DEF LoseProposal, ProposerTypeOK
    <2>2. EnvTypeOK'
      BY <1>4 DEF LoseProposal, Fail, EnvTypeOK
    <2>3. QED
      BY <1>4, <2>1, <2>2, TypeFrame DEF LoseProposal
  <1>5. QED
    BY <1>1, <1>2, <1>3, <1>4

\* The posts of the resolvers preserve the types.
LEMMA TypePosts ==
    ASSUME TypeOK, NEW i \in Nodes, NEW j \in Nodes,
           Deliver(i, j) \/ LosePost(i, j)
    PROVE  TypeOK'
  <1> USE DEF TypeOK
  <1>1. out[i].to # {} /\ out[i] \in Post
    BY DEF Deliver, LosePost, ResolverTypeOK
  <1>2. out[i].msg \in Msg
    BY <1>1, PostedMsg
  <1>3. ResolverTypeOK'
    <2>1. [out[i] EXCEPT !.to = @ \ {j}] \in Post
      BY <1>1, PostType
    <2>2. /\ out' = [out EXCEPT ![i] = [out[i] EXCEPT !.to = @ \ {j}]]
          /\ UNCHANGED <<work, answering>>
      BY DEF Deliver, LosePost
    <2>3. QED
      BY <2>1, <2>2, OutType
  <1>4. CASE Deliver(i, j)
    <2>1. BufferTypeOK'
      BY <1>4, <1>2, AcceptType DEF Deliver
    <2>2. QED
      BY <1>4, <1>3, <2>1, TypeFrame DEF Deliver
  <1>5. CASE LosePost(i, j)
    <2>1. EnvTypeOK'
      BY <1>5 DEF LosePost, Fail, EnvTypeOK
    <2>2. QED
      BY <1>5, <1>3, <2>1, TypeFrame DEF LosePost
  <1>6. QED
    BY <1>4, <1>5

\* What the dispatcher drains is part of the pool it looks at.
LEMMA DuePoolType ==
    ASSUME ConsensusTypeOK, NEW i \in Nodes
    PROVE  DuePool[stage[i]] \in MsgType
  BY DEF ConsensusTypeOK, Stage, DuePool, MsgType

\* The dispatcher and the hand-over to the resolver preserve the types.
LEMMA TypeDispatch ==
    ASSUME TypeOK, NEW i \in Nodes, Alarm(i) \/ Handoff(i)
    PROVE  TypeOK'
  <1> USE DEF TypeOK
  <1>1. CASE Alarm(i)
    <2> DEFINE t == DuePool[stage[i]]
    <2>1. t \in MsgType
      BY DuePoolType
    <2>2. PICK order \in SetToSeqs(pool[i][t]) :
            /\ pool' = [pool EXCEPT ![i][t] = @ \ Drained(order)]
            /\ IF ResolverFree(i)
               THEN work' = [work EXCEPT ![i] = order] /\ UNCHANGED disp
               ELSE disp' = [disp EXCEPT ![i] = order] /\ UNCHANGED work
      BY <1>1 DEF Alarm
    <2>3. order \in Seq(Msg) /\ OneType(order)
      BY <2>1, OrderType DEF BufferTypeOK
    <2>4. BufferTypeOK'
      <3>1. /\ pool[i][t] \ Drained(order) \in SUBSET pool[i][t]
            /\ pool' = [pool EXCEPT ![i][t] = pool[i][t] \ Drained(order)]
        BY <2>2
      <3>2. disp' \in [Nodes -> Seq(Msg)] /\ \A j \in Nodes : OneType(disp'[j])
        BY <2>2, <2>3 DEF BufferTypeOK
      <3>3. \A j \in Nodes : \A u \in MsgType : pool'[j][u] \subseteq pool[j][u]
        BY <2>1, <3>1 DEF BufferTypeOK
      <3>4. \A j \in Nodes : \A u \in MsgType :
              FiniteSubset(pool'[j][u], Only(u))
        BY <3>3, SubsetType DEF BufferTypeOK
      <3>5. pool' \in [Nodes -> [MsgType -> SUBSET Msg]]
        BY <2>1, <3>1 DEF BufferTypeOK
      <3>6. QED
        BY <3>2, <3>4, <3>5 DEF BufferTypeOK
    <2>5. ResolverTypeOK'
      <3>1. work' \in [Nodes -> Seq(Msg)] /\ \A j \in Nodes : OneType(work'[j])
        BY <2>2, <2>3 DEF ResolverTypeOK
      <3>2. UNCHANGED <<out, answering>>
        BY <1>1 DEF Alarm
      <3>3. QED
        BY <3>1, <3>2 DEF ResolverTypeOK
    <2>6. EnvTypeOK'
      BY <1>1, TimerType DEF Alarm, EnvTypeOK
    <2>7. QED
      BY <1>1, <2>4, <2>5, <2>6, TypeFrame DEF Alarm
  <1>2. CASE Handoff(i)
    <2>1. BufferTypeOK'
      BY <1>2, EmptyBatchType DEF Handoff, BufferTypeOK
    <2>2. ResolverTypeOK'
      BY <1>2 DEF Handoff, ResolverTypeOK, BufferTypeOK
    <2>3. QED
      BY <1>2, <2>1, <2>2, TypeFrame DEF Handoff
  <1>3. QED
    BY <1>1, <1>2

\* The batch of a resolver at work.
LEMMA BatchType ==
    ASSUME ResolverTypeOK, NEW i \in Nodes, NEW t, Handling(i, t)
    PROVE  /\ work[i] \in Seq(Msg) /\ OneType(work[i])
           /\ \A k \in DOMAIN work[i] : work[i][k] \in Only(t)
  BY BatchOfType DEF ResolverTypeOK, Handling

\* The logs of a node after some messages of its batch.
LEMMA LoggedType ==
    ASSUME ConsensusTypeOK, ResolverTypeOK, NEW i \in Nodes, NEW n
    PROVE  /\ Handling(i, "prepare") =>
                 FiniteSubset(PreparesLogged(i, n), Only("prepare"))
           /\ Handling(i, "commit") =>
                 FiniteSubset(CommitsLogged(i, n), Only("commit"))
  <1>1. ASSUME NEW t, Handling(i, t), NEW D \in SUBSET (DOMAIN work[i])
        PROVE  FiniteSubset({work[i][x] : x \in D}, Only(t))
    BY <1>1, BatchType, FiniteElements DEF FiniteSubset
  <1>2. CASE Handling(i, "prepare")
    <2> DEFINE D == {y \in Fresh(i) : y <= n}
    <2>1. D \in SUBSET (DOMAIN work[i])
      BY DEF Fresh
    <2>2. FiniteSubset({work[i][x] : x \in D}, Only("prepare"))
      BY <1>1, <1>2, <2>1
    <2>3. QED
      BY <1>2, <2>2, PutAllType DEF PreparesLogged, ConsensusTypeOK, Handling
  <1>3. CASE Handling(i, "commit")
    <2> DEFINE D == {y \in Signed(i) : y <= n}
    <2>1. D \in SUBSET (DOMAIN work[i])
      BY DEF Signed, Fresh
    <2>2. FiniteSubset({work[i][x] : x \in D}, Only("commit"))
      BY <1>1, <1>3, <2>1
    <2>3. QED
      BY <1>3, <2>2, PutAllType DEF CommitsLogged, ConsensusTypeOK, Handling
  <1>4. QED
    BY <1>2, <1>3 DEF Handling

\* A handler that leaves q of its batch and posts x.
LEMMA ResolvedType ==
    ASSUME ResolverTypeOK, NEW i \in Nodes,
           NEW q \in Seq(Msg), OneType(q), NEW x \in Post,
           work' = [work EXCEPT ![i] = q],
           out' = [out EXCEPT ![i] = x] \/ UNCHANGED out,
           answering' \in BOOLEAN
    PROVE  ResolverTypeOK'
  BY DEF ResolverTypeOK

\* GetPrePrepare and GetPrepare preserve the types.
LEMMA TypePreparing ==
    ASSUME TypeOK, NEW i \in Nodes,
           HandlePrePrepare(i) \/ HandlePrepareQuorum(i) \/ HandlePrepareWait(i)
    PROVE  TypeOK'
  <1> USE DEF TypeOK
  <1>1. CASE HandlePrePrepare(i)
    <2>1. CASE Fresh(i) = {} /\ work' = [work EXCEPT ![i] = <<>>]
               /\ UNCHANGED <<stage, out, prepares>>
      <3>1. UNCHANGED <<consensusVars, answering>>
        BY <1>1, <2>1 DEF HandlePrePrepare, consensusVars
      <3>2. ResolverTypeOK'
        BY <2>1, <3>1, EmptyBatchType, ResolvedType, NewPostType
           DEF ResolverTypeOK
      <3>3. QED
        BY <1>1, <2>1, <3>1, <3>2, TypeFrame DEF HandlePrePrepare
    <2>2. ASSUME NEW k \in Fresh(i),
                 work' = [work EXCEPT ![i] = SubSeq(@, k + 1, Len(@))],
                 stage' = [stage EXCEPT ![i] = "PrePrepared"],
                 out' = [out EXCEPT ![i] =
                     [msg |-> PrepareMsg(i, work[i][k]), to |-> Nodes \ {i}]],
                 prepares' = [prepares EXCEPT ![i] = @ \cup {work[i][k].seq}]
          PROVE  TypeOK'
      <3>1. k \in DOMAIN work[i] /\ work[i] \in Seq(Msg) /\ OneType(work[i])
        BY <2>2 DEF Fresh, ResolverTypeOK
      <3>2. work[i][k] \in Msg
        BY <3>1
      <3>3. ResolverTypeOK'
        <4>1. PrepareMsg(i, work[i][k]) \in Msg
          BY <3>2, BuiltMessages DEF Only
        <4>2. [msg |-> PrepareMsg(i, work[i][k]), to |-> Nodes \ {i}] \in Post
          BY <4>1, NewPostType
        <4>3. /\ SubSeq(work[i], k + 1, Len(work[i])) \in Seq(Msg)
              /\ OneType(SubSeq(work[i], k + 1, Len(work[i])))
          BY <3>1, SubSeqType
        <4>4. answering' \in BOOLEAN
          BY <1>1 DEF HandlePrePrepare, ResolverTypeOK
        <4>5. QED
          BY <2>2, <4>2, <4>3, <4>4, ResolvedType
      <3>4. ConsensusTypeOK'
        BY <1>1, <2>2 DEF HandlePrePrepare, ConsensusTypeOK, Stage
      <3>5. EnvTypeOK'
        <4>1. work[i][k].seq \in Blocks
          BY <3>2, MsgFields
        <4>2. QED
          BY <1>1, <2>2, <4>1 DEF HandlePrePrepare, EnvTypeOK, envVars
      <3>6. QED
        BY <1>1, <3>3, <3>4, <3>5, TypeFrame DEF HandlePrePrepare
    <2>3. QED
      BY <1>1, <2>1, <2>2 DEF HandlePrePrepare
  <1>2. CASE HandlePrepareQuorum(i)
    <2>1. PICK k \in Fresh(i) :
            /\ log' = [log EXCEPT ![i].prepare = PreparesLogged(i, k)]
            /\ out' = [out EXCEPT ![i] =
                 [msg |-> CommitMsg(i, work[i][k].seq, PreparesLogged(i, k)),
                  to |-> Nodes \ {i}]]
      BY <1>2 DEF HandlePrepareQuorum
    <2>2. FiniteSubset(PreparesLogged(i, k), Only("prepare"))
      BY <1>2, LoggedType DEF HandlePrepareQuorum
    <2>3. ConsensusTypeOK'
      <3>1. /\ stage' \in [Nodes -> Stage] /\ UNCHANGED <<last, executed>>
        BY <1>2 DEF HandlePrepareQuorum, ConsensusTypeOK, Stage
      <3>2. PreparesLogged(i, k) \in SUBSET Msg
        BY <2>2 DEF FiniteSubset, Only
      <3>3. log' \in [Nodes -> [prepare : SUBSET Msg, commit : SUBSET Msg]]
        BY <2>1, <3>2 DEF ConsensusTypeOK
      <3>4. ASSUME NEW j \in Nodes
            PROVE  /\ FiniteSubset(log'[j].prepare, Only("prepare"))
                   /\ FiniteSubset(log'[j].commit, Only("commit"))
        BY <2>1, <2>2 DEF ConsensusTypeOK
      <3>5. QED
        BY <3>1, <3>3, <3>4 DEF ConsensusTypeOK
    <2>4. ResolverTypeOK'
      <3>1. work[i][k].seq \in Blocks
        BY MsgFields DEF Fresh, ResolverTypeOK
      <3>2. CommitMsg(i, work[i][k].seq, PreparesLogged(i, k)) \in Msg
        BY <2>2, <3>1, BuiltMessages DEF FiniteSubset, Only
      <3>3. [msg |-> CommitMsg(i, work[i][k].seq, PreparesLogged(i, k)),
             to |-> Nodes \ {i}] \in Post
        BY <3>2, NewPostType
      <3>4. work' = [work EXCEPT ![i] = <<>>] /\ answering' \in BOOLEAN
        BY <1>2 DEF HandlePrepareQuorum, ResolverTypeOK
      <3>5. QED
        BY <2>1, <3>3, <3>4, EmptyBatchType, ResolvedType
    <2>5. QED
      BY <1>2, <2>3, <2>4, TypeFrame DEF HandlePrepareQuorum
  <1>3. CASE HandlePrepareWait(i)
    <2>1. log' = [log EXCEPT ![i].prepare = PreparesLogged(i, Len(work[i]))]
      BY <1>3 DEF HandlePrepareWait
    <2>2. FiniteSubset(PreparesLogged(i, Len(work[i])), Only("prepare"))
      BY <1>3, LoggedType DEF HandlePrepareWait
    <2>3. ConsensusTypeOK'
      <3>1. UNCHANGED <<stage, last, executed>>
        BY <1>3 DEF HandlePrepareWait
      <3>2. PreparesLogged(i, Len(work[i])) \in SUBSET Msg
        BY <2>2 DEF FiniteSubset, Only
      <3>3. log' \in [Nodes -> [prepare : SUBSET Msg, commit : SUBSET Msg]]
        BY <2>1, <3>2 DEF ConsensusTypeOK
      <3>4. ASSUME NEW j \in Nodes
            PROVE  /\ FiniteSubset(log'[j].prepare, Only("prepare"))
                   /\ FiniteSubset(log'[j].commit, Only("commit"))
        BY <2>1, <2>2 DEF ConsensusTypeOK
      <3>5. QED
        BY <3>1, <3>3, <3>4 DEF ConsensusTypeOK
    <2>4. ResolverTypeOK'
      <3>1. /\ work' = [work EXCEPT ![i] = <<>>]
            /\ UNCHANGED out /\ answering' \in BOOLEAN
        BY <1>3 DEF HandlePrepareWait, ResolverTypeOK
      <3>2. QED
        BY <3>1, EmptyBatchType, NewPostType, ResolvedType
    <2>5. QED
      BY <1>3, <2>3, <2>4, TypeFrame DEF HandlePrepareWait
  <1>4. QED
    BY <1>1, <1>2, <1>3

\* What a batch of replies says of the results is a number of results.
LEMMA ResultsFinite ==
    ASSUME NEW q \in Seq(Msg), NEW b
    PROVE  IsFiniteSet(Results(q, b))
  <1> DEFINE D == {x \in DOMAIN q : q[x].seq = b}
             S == {q[k] : k \in D}
             g == [m \in S |-> m.history]
  <1>1. IsFiniteSet(S)
    BY FiniteElements, D \in SUBSET (DOMAIN q)
  <1>2. g \in Surjection(S, Results(q, b))
    <2>1. Results(q, b) = {m.history : m \in S}
      BY DEF Results
    <2>2. QED
      BY <2>1 DEF Surjection
  <1>3. QED
    BY <1>1, <1>2, FS_Surjection, Zenon

\* GetCommit and resolveReplyMsg preserve the types.
LEMMA TypeCommitting ==
    ASSUME TypeOK, NEW i \in Nodes,
           HandleCommitQuorum(i) \/ HandleCommitWait(i) \/ HandleReplies(i)
    PROVE  TypeOK'
  <1> USE DEF TypeOK
  <1>1. CASE HandleCommitQuorum(i)
    <2>1. PICK k \in Signed(i) :
            /\ Execute(i, work[i][k].seq)
            /\ last' = [last EXCEPT ![i] = work[i][k].seq]
            /\ out' = [out EXCEPT ![i] =
                 [msg |-> ReplyMsg(i, work[i][k].seq), to |-> {Primary}]]
      BY <1>1 DEF HandleCommitQuorum
    <2>2. work[i][k].seq \in Blocks
      BY MsgFields DEF Signed, Fresh, ResolverTypeOK
    <2>3. ConsensusTypeOK'
      <3>1. stage' \in [Nodes -> Stage]
        BY <1>1 DEF HandleCommitQuorum, ConsensusTypeOK, Stage
      <3>2. last' \in [Nodes -> 0..MaxBlocks]
        BY <2>1, <2>2, BoundsAssumption DEF ConsensusTypeOK, Blocks
      <3>3. executed' \in [Nodes -> Seq(Blocks)]
        BY <2>1, <2>2 DEF Execute, ConsensusTypeOK
      <3>4. log' = [log EXCEPT ![i] = [prepare |-> {}, commit |-> {}]]
        BY <1>1 DEF HandleCommitQuorum
      <3>5. log' \in [Nodes -> [prepare : SUBSET Msg, commit : SUBSET Msg]]
        BY <3>4 DEF ConsensusTypeOK
      <3>6. ASSUME NEW j \in Nodes
            PROVE  /\ FiniteSubset(log'[j].prepare, Only("prepare"))
                   /\ FiniteSubset(log'[j].commit, Only("commit"))
        BY <3>4, EmptyType DEF ConsensusTypeOK
      <3>7. QED
        BY <3>1, <3>2, <3>3, <3>5, <3>6 DEF ConsensusTypeOK
    <2>4. ResolverTypeOK'
      <3>1. ReplyMsg(i, work[i][k].seq) \in Msg
        BY <2>2, BuiltMessages DEF ConsensusTypeOK, Only
      <3>2. [msg |-> ReplyMsg(i, work[i][k].seq), to |-> {Primary}] \in Post
        BY <3>1, NewPostType, NodesAssumption
      <3>3. work' = [work EXCEPT ![i] = <<>>] /\ answering' \in BOOLEAN
        BY <1>1 DEF HandleCommitQuorum, ResolverTypeOK
      <3>4. QED
        BY <2>1, <3>2, <3>3, EmptyBatchType, ResolvedType
    <2>5. QED
      BY <1>1, <2>3, <2>4, TypeFrame DEF HandleCommitQuorum
  <1>2. CASE HandleCommitWait(i)
    <2>1. log' = [log EXCEPT ![i].commit = CommitsLogged(i, Len(work[i]))]
      BY <1>2 DEF HandleCommitWait
    <2>2. FiniteSubset(CommitsLogged(i, Len(work[i])), Only("commit"))
      BY <1>2, LoggedType DEF HandleCommitWait
    <2>3. ConsensusTypeOK'
      <3>1. UNCHANGED <<stage, last, executed>>
        BY <1>2 DEF HandleCommitWait
      <3>2. CommitsLogged(i, Len(work[i])) \in SUBSET Msg
        BY <2>2 DEF FiniteSubset, Only
      <3>3. log' \in [Nodes -> [prepare : SUBSET Msg, commit : SUBSET Msg]]
        BY <2>1, <3>2 DEF ConsensusTypeOK
      <3>4. ASSUME NEW j \in Nodes
            PROVE  /\ FiniteSubset(log'[j].prepare, Only("prepare"))
                   /\ FiniteSubset(log'[j].commit, Only("commit"))
        BY <2>1, <2>2 DEF ConsensusTypeOK
      <3>5. QED
        BY <3>1, <3>3, <3>4 DEF ConsensusTypeOK
    <2>4. ResolverTypeOK'
      <3>1. /\ work' = [work EXCEPT ![i] = <<>>]
            /\ UNCHANGED out /\ answering' \in BOOLEAN
        BY <1>2 DEF HandleCommitWait, ResolverTypeOK
      <3>2. QED
        BY <3>1, EmptyBatchType, NewPostType, ResolvedType
    <2>5. QED
      BY <1>2, <2>3, <2>4, TypeFrame DEF HandleCommitWait
  <1>3. CASE HandleReplies(i)
    <2>1. ClientTypeOK'
      <3>1. ASSUME NEW b \in Blocks
            PROVE  /\ Cardinality(Confirmed(work[i], b)) \in Nat
                   /\ Cardinality(Results(work[i], b)
                                    \ Confirmed(work[i], b)) \in Nat
        <4>1. IsFiniteSet(Results(work[i], b))
          BY ResultsFinite DEF ResolverTypeOK
        <4>2. /\ Confirmed(work[i], b) \in SUBSET Results(work[i], b)
              /\ Results(work[i], b) \ Confirmed(work[i], b)
                   \in SUBSET Results(work[i], b)
          BY DEF Confirmed
        <4>3. QED
          BY <4>1, <4>2, FS_Subset, FS_CardinalityType, Zenon
      <3>2. /\ answers' = [b \in Blocks |->
                  answers[b] + Cardinality(Confirmed(work[i], b))]
            /\ refused' = [b \in Blocks |-> refused[b] +
                  Cardinality(Results(work[i], b) \ Confirmed(work[i], b))]
        BY <1>3 DEF HandleReplies
      <3>3. ASSUME NEW b \in Blocks
            PROVE  answers'[b] \in Nat /\ refused'[b] \in Nat
        BY <3>1, <3>2 DEF ClientTypeOK
      <3>4. QED
        BY <3>2, <3>3 DEF ClientTypeOK
    <2>2. ResolverTypeOK'
      <3>1. /\ work' = [work EXCEPT ![i] = <<>>]
            /\ UNCHANGED out /\ answering' \in BOOLEAN
        BY <1>3 DEF HandleReplies
      <3>2. QED
        BY <3>1, EmptyBatchType, NewPostType, ResolvedType
    <2>3. QED
      BY <1>3, <2>1, <2>2, TypeFrame DEF HandleReplies
  <1>4. QED
    BY <1>1, <1>2, <1>3

\* The ends of the broadcasts and crashes preserve the types.
LEMMA TypeFinish ==
    ASSUME TypeOK,
           \/ FinishAnswers
           \/ \E i \in Nodes : FinishPrepare(i) \/ FinishCommit(i)
                               \/ FinishReply(i) \/ Crash(i)
    PROVE  TypeOK'
  <1> USE DEF TypeOK
  <1>1. ASSUME NEW i \in Nodes, out' = [out EXCEPT ![i] = NoPost],
               UNCHANGED <<work, answering>>
        PROVE  ResolverTypeOK'
    BY <1>1, OutType, NewPostType
  <1>2. CASE FinishAnswers
    <2>1. ConsensusTypeOK'
      BY <1>2 DEF FinishAnswers, ConsensusTypeOK, Stage
    <2>2. BufferTypeOK'
      <3>1. pool' = [pool EXCEPT ![Primary]["reply"] = {}] /\ UNCHANGED disp
        BY <1>2 DEF FinishAnswers
      <3>2. "reply" \in MsgType /\ {} \in SUBSET pool[Primary]["reply"]
        BY DEF MsgType
      <3>3. QED
        BY <3>1, <3>2, ShrunkPoolType, NodesAssumption
    <2>3. ResolverTypeOK'
      BY <1>2 DEF FinishAnswers, ResolverTypeOK
    <2>4. QED
      BY <1>2, <2>1, <2>2, <2>3, TypeFrame DEF FinishAnswers
  <1>3. ASSUME NEW i \in Nodes, FinishPrepare(i) PROVE TypeOK'
    <2>1. BufferTypeOK'
      <3> DEFINE S == {m \in pool[i]["preprepare"] : m.seq # out[i].msg.seq}
      <3>1. pool' = [pool EXCEPT ![i]["preprepare"] = S] /\ UNCHANGED disp
        BY <1>3 DEF FinishPrepare
      <3>2. QED
        BY <3>1, ShrunkPoolType DEF MsgType
    <2>2. ResolverTypeOK'
      BY <1>1, <1>3 DEF FinishPrepare
    <2>3. QED
      BY <1>3, <2>1, <2>2, TypeFrame DEF FinishPrepare
  <1>4. ASSUME NEW i \in Nodes, FinishCommit(i) PROVE TypeOK'
    <2>1. BufferTypeOK'
      <3>1. pool' = [pool EXCEPT ![i]["prepare"] = {}] /\ UNCHANGED disp
        BY <1>4 DEF FinishCommit
      <3>2. "prepare" \in MsgType /\ {} \in SUBSET pool[i]["prepare"]
        BY DEF MsgType
      <3>3. QED
        BY <3>1, <3>2, ShrunkPoolType
    <2>2. ResolverTypeOK'
      BY <1>1, <1>4 DEF FinishCommit
    <2>3. QED
      BY <1>4, <2>1, <2>2, TypeFrame DEF FinishCommit
  <1>5. ASSUME NEW i \in Nodes, FinishReply(i) PROVE TypeOK'
    <2>1. ConsensusTypeOK'
      BY <1>5 DEF FinishReply, ConsensusTypeOK, Stage
    <2>2. BufferTypeOK'
      <3>1. pool' = [pool EXCEPT ![i]["commit"] = {}] /\ UNCHANGED disp
        BY <1>5 DEF FinishReply
      <3>2. "commit" \in MsgType /\ {} \in SUBSET pool[i]["commit"]
        BY DEF MsgType
      <3>3. QED
        BY <3>1, <3>2, ShrunkPoolType
    <2>3. ResolverTypeOK'
      BY <1>1, <1>5 DEF FinishReply
    <2>4. QED
      BY <1>5, <2>1, <2>2, <2>3, TypeFrame DEF FinishReply
  <1>6. ASSUME NEW i \in Nodes, Crash(i) PROVE TypeOK'
    <2>1. EnvTypeOK'
      BY <1>6 DEF Crash, EnvTypeOK
    <2>2. QED
      BY <1>6, <2>1, TypeFrame DEF Crash
  <1>7. QED
    BY <1>2, <1>3, <1>4, <1>5, <1>6

LEMMA TypeStep == TypeOK /\ [Next]_vars => TypeOK'
  <1> SUFFICES ASSUME TypeOK, [Next]_vars PROVE TypeOK'
    OBVIOUS
  <1>1. CASE Propose \/ FinishProposal
    BY <1>1, TypeProposer
  <1>2. CASE FinishAnswers
    BY <1>2, TypeFinish
  <1>3. ASSUME NEW i \in Nodes, Alarm(i) \/ Handoff(i) PROVE TypeOK'
    BY <1>3, TypeDispatch
  <1>4. ASSUME NEW i \in Nodes, Resolve(i) PROVE TypeOK'
    BY <1>4, TypePreparing, TypeCommitting, TypeFinish DEF Resolve
  <1>5. ASSUME NEW i \in Nodes, DeliverProposal(i) \/ LoseProposal(i)
        PROVE  TypeOK'
    BY <1>5, TypeProposer
  <1>6. ASSUME NEW i \in Nodes, Crash(i) PROVE TypeOK'
    BY <1>6, TypeFinish
  <1>7. ASSUME NEW i \in Nodes, NEW j \in Nodes, Deliver(i, j) \/ LosePost(i, j)
        PROVE  TypeOK'
    BY <1>7, TypePosts
  <1>8. CASE UNCHANGED vars
    <2>1. UNCHANGED <<consensusVars, bufferVars, resolverVars, proposerVars,
                      clientVars, envVars, prepares>>
      BY <1>8 DEF vars, consensusVars, bufferVars, resolverVars, proposerVars,
                  clientVars, envVars
    <2>2. QED
      BY <2>1, TypeFrame DEF TypeOK
  <1>9. QED
    BY <1>1, <1>2, <1>3, <1>4, <1>5, <1>6, <1>7, <1>8 DEF Next

\* Every variable keeps its type, and pools, logs and batches hold messages of
\* one kind only, for any number of nodes and of rounds, lost posts, crashes
\* and timers (routeMsg, routeMsgWhenAlarmed, resolveMsg).
THEOREM TypeCorrect == Spec => []TypeOK
  BY TypeInit, TypeStep, PTL DEF Spec

-----------------------------------------------------------------------------
(* Order of execution. With TypeOK, ExecOrdered is inductive.              *)

\* Only GetCommit at a quorum executes a block, one that is newer than the
\* last.
LEMMA ExecuteStep ==
    ASSUME TypeOK, [Next]_vars
    PROVE  \/ UNCHANGED <<executed, last>>
           \/ \E i \in Nodes : \E b \in Blocks :
                 /\ HandleCommitQuorum(i) /\ last[i] < b
                 /\ executed' = [executed EXCEPT ![i] = Append(@, b)]
                 /\ last' = [last EXCEPT ![i] = b]
                 /\ \E k \in DOMAIN work[i] : work[i][k].seq = b
                 /\ out' = [out EXCEPT ![i] =
                               [msg |-> ReplyMsg(i, b), to |-> {Primary}]]
  <1>1. ASSUME NEW i \in Nodes, HandleCommitQuorum(i)
        PROVE  \E b \in Blocks :
                 /\ last[i] < b
                 /\ executed' = [executed EXCEPT ![i] = Append(@, b)]
                 /\ last' = [last EXCEPT ![i] = b]
                 /\ \E k \in DOMAIN work[i] : work[i][k].seq = b
                 /\ out' = [out EXCEPT ![i] =
                               [msg |-> ReplyMsg(i, b), to |-> {Primary}]]
    <2>1. PICK k \in Signed(i) :
            /\ Execute(i, work[i][k].seq)
            /\ last' = [last EXCEPT ![i] = work[i][k].seq]
            /\ out' = [out EXCEPT ![i] =
                          [msg |-> ReplyMsg(i, work[i][k].seq),
                           to |-> {Primary}]]
      BY <1>1 DEF HandleCommitQuorum
    <2>2. k \in DOMAIN work[i] /\ last[i] < work[i][k].seq
      BY DEF Signed, Fresh
    <2>3. work[i][k].seq \in Blocks
      BY <2>2, MsgFields DEF TypeOK, ResolverTypeOK
    <2>4. QED
      BY <2>1, <2>2, <2>3 DEF Execute
  <1>2. ASSUME NEW i \in Nodes, Resolve(i), ~HandleCommitQuorum(i)
        PROVE  UNCHANGED <<executed, last>>
    BY <1>2 DEF Resolve, HandlePrePrepare, HandlePrepareQuorum,
         HandlePrepareWait, HandleCommitWait, HandleReplies, FinishPrepare,
         FinishCommit, FinishReply, consensusVars
  <1>3. ASSUME NEW i \in Nodes, NEW j \in Nodes,
               \/ Propose \/ FinishProposal \/ FinishAnswers
               \/ Alarm(i) \/ Handoff(i) \/ DeliverProposal(i)
               \/ LoseProposal(i) \/ Crash(i) \/ Deliver(i, j) \/ LosePost(i, j)
        PROVE  UNCHANGED <<executed, last>>
    BY <1>3 DEF Propose, FinishProposal, FinishAnswers, Alarm, Handoff,
         DeliverProposal, LoseProposal, Crash, Deliver, LosePost, consensusVars
  <1>4. CASE UNCHANGED vars
    BY <1>4 DEF vars
  <1>5. QED
    BY <1>1, <1>2, <1>3, <1>4, NodesAssumption DEF Next

LEMMA OrderStep == TypeOK /\ ExecOrdered /\ [Next]_vars => ExecOrdered'
  <1> SUFFICES ASSUME TypeOK, ExecOrdered, [Next]_vars
               PROVE  ExecOrdered'
    OBVIOUS
  <1>1. CASE UNCHANGED <<executed, last>>
    BY <1>1 DEF ExecOrdered
  <1>2. ASSUME NEW i \in Nodes, NEW b \in Blocks, last[i] < b,
               executed' = [executed EXCEPT ![i] = Append(@, b)],
               last' = [last EXCEPT ![i] = b]
        PROVE  ExecOrdered'
    <2> SUFFICES ASSUME NEW j \in Nodes
                 PROVE  /\ last'[j] = IF executed'[j] = <<>> THEN 0
                                      ELSE executed'[j][Len(executed'[j])]
                        /\ \A k \in 1..(Len(executed'[j]) - 1) :
                              executed'[j][k] < executed'[j][k + 1]
      BY DEF ExecOrdered
    <2>1. CASE j # i
      BY <1>2, <2>1 DEF ExecOrdered, TypeOK, ConsensusTypeOK
    <2>2. CASE j = i
      <3> DEFINE h == executed[i]
      <3>1. h \in Seq(Blocks) /\ executed'[i] = Append(h, b) /\ last'[i] = b
        BY <1>2 DEF TypeOK, ConsensusTypeOK
      <3>2. h # <<>> => h[Len(h)] < b
        BY <1>2 DEF ExecOrdered
      <3>3. ASSUME NEW k \in 1..(Len(Append(h, b)) - 1)
            PROVE  Append(h, b)[k] < Append(h, b)[k + 1]
        <4>1. CASE k = Len(h)
          BY <3>1, <3>2, <4>1
        <4>2. CASE k < Len(h)
          BY <3>1, <4>2 DEF ExecOrdered
        <4>3. QED
          BY <3>1, <4>1, <4>2
      <3>4. Append(h, b) # <<>> /\ Append(h, b)[Len(Append(h, b))] = b
        BY <3>1
      <3>5. QED
        BY <2>2, <3>1, <3>3, <3>4
    <2>3. QED
      BY <2>1, <2>2
  <1>3. QED
    BY <1>1, <1>2, ExecuteStep

\* However commits are repeated, delayed, half drained and mixed over the
\* rounds, no node executes a block twice or out of order (verifyMsg, Commit).
THEOREM OrderedExecution == Spec => []ExecOrdered
  <1>1. Init => ExecOrdered
    BY DEF Init, ExecOrdered
  <1>2. QED
    BY <1>1, OrderStep, TypeCorrect, PTL DEF Spec

-----------------------------------------------------------------------------
(* Replies are truthful. With TypeOK, RepliesTruthful is inductive: what is *)
(* on its way after a step was on its way before, or was built in the step. *)

\* Message m is on its way: in a pool, in a batch or being posted.
InFlight(m) ==
    \/ \E i \in Nodes :
          \/ \E t \in MsgType : m \in pool[i][t]
          \/ m \in ToSet(disp[i]) \/ m \in ToSet(work[i])
          \/ out[i] # NoPost /\ m = out[i].msg
    \/ prop # NoPost /\ m = prop.msg

\* Message m is being posted to node i.
SentTo(i, m) ==
    \/ \E j \in Nodes : i \in out[j].to /\ m = out[j].msg
    \/ i \in prop.to /\ m = prop.msg

\* What is being posted is on its way.
LEMMA SentInFlight ==
    ASSUME TypeOK, NEW i \in Nodes, NEW m, SentTo(i, m)
    PROVE  m \in Msg /\ InFlight(m)
  <1>1. ASSUME NEW j \in Nodes, i \in out[j].to, m = out[j].msg
        PROVE  m \in Msg /\ InFlight(m)
    <2>1. out[j].msg \in Msg
      BY <1>1, PostedMsg DEF TypeOK, ResolverTypeOK
    <2>2. out[j] # NoPost
      BY <1>1 DEF NoPost
    <2>3. QED
      BY <1>1, <2>1, <2>2 DEF InFlight
  <1>2. ASSUME i \in prop.to, m = prop.msg PROVE m \in Msg /\ InFlight(m)
    <2>1. prop.msg \in Msg
      BY <1>2, PostedMsg DEF TypeOK, ProposerTypeOK
    <2>2. prop # NoPost
      BY <1>2 DEF NoPost
    <2>3. QED
      BY <1>2, <2>1, <2>2 DEF InFlight
  <1>3. QED
    BY <1>1, <1>2 DEF SentTo

\* A pool only loses messages, or takes one that is posted to its node.
LEMMA PoolShape ==
    ASSUME TypeOK, [Next]_vars, NEW i \in Nodes, NEW t \in MsgType
    PROVE  \/ pool'[i][t] \subseteq pool[i][t]
           \/ \E m : SentTo(i, m) /\ m.type = t /\ pool'[i][t] = Put(pool[i][t], m)
  <1> DEFINE Goal == \/ pool'[i][t] \subseteq pool[i][t]
                     \/ \E m : /\ SentTo(i, m) /\ m.type = t
                               /\ pool'[i][t] = Put(pool[i][t], m)
  <1>0. UNCHANGED pool => Goal
    OBVIOUS
  <1>1. ASSUME NEW j \in Nodes, NEW n, SentTo(j, n), Accept(j, n)
        PROVE  Goal
    <2>1. pool' = [pool EXCEPT ![j][n.type] = Put(pool[j][n.type], n)]
      BY <1>1 DEF Accept
    <2>2. n.type \in MsgType
      BY <1>1, SentInFlight, MsgFields
    <2>3. CASE i = j /\ n.type = t
      BY <1>1, <2>1, <2>2, <2>3 DEF TypeOK, BufferTypeOK
    <2>4. CASE ~(i = j /\ n.type = t)
      BY <2>1, <2>2, <2>4 DEF TypeOK, BufferTypeOK
    <2>5. QED
      BY <2>3, <2>4
  <1>2. ASSUME NEW j \in Nodes, NEW k \in Nodes, Deliver(j, k) PROVE Goal
    BY <1>1, <1>2 DEF Deliver, SentTo
  <1>3. ASSUME NEW j \in Nodes, DeliverProposal(j) PROVE Goal
    BY <1>1, <1>3 DEF DeliverProposal, SentTo
  <1>4. ASSUME NEW j \in Nodes, Alarm(j) PROVE Goal
    <2>1. PICK S : pool' = [pool EXCEPT ![j][DuePool[stage[j]]] = @ \ S]
      BY <1>4 DEF Alarm
    <2>2. pool'[i][t] \subseteq pool[i][t]
      BY <2>1, DuePoolType DEF TypeOK, BufferTypeOK
    <2>3. QED
      BY <2>2
  <1>5. ASSUME NEW j \in Nodes,
               FinishPrepare(j) \/ FinishCommit(j) \/ FinishReply(j)
        PROVE  Goal
    <2>1. \/ pool' = [pool EXCEPT ![j]["preprepare"] =
                        {n \in @ : n.seq # out[j].msg.seq}]
          \/ pool' = [pool EXCEPT ![j]["prepare"] = {}]
          \/ pool' = [pool EXCEPT ![j]["commit"] = {}]
      BY <1>5 DEF FinishPrepare, FinishCommit, FinishReply
    <2>2. PICK u \in MsgType : \E S \in SUBSET pool[j][u] :
             pool' = [pool EXCEPT ![j][u] = S]
      <3>1. {"preprepare", "prepare", "commit"} \subseteq MsgType
        BY DEF MsgType
      <3>2. {n \in pool[j]["preprepare"] : n.seq # out[j].msg.seq}
               \in SUBSET pool[j]["preprepare"]
        OBVIOUS
      <3>3. QED
        BY <2>1, <3>1, <3>2
    <2>3. pool'[i][t] \subseteq pool[i][t]
      BY <2>2 DEF TypeOK, BufferTypeOK
    <2>4. QED
      BY <2>3
  <1>6. CASE FinishAnswers
    BY <1>6 DEF FinishAnswers, TypeOK, BufferTypeOK, MsgType
  <1>7. ASSUME NEW j \in Nodes, NEW k \in Nodes,
               \/ Propose \/ FinishProposal \/ Handoff(j)
               \/ HandlePrePrepare(j) \/ HandlePrepareQuorum(j)
               \/ HandlePrepareWait(j) \/ HandleCommitQuorum(j)
               \/ HandleCommitWait(j) \/ HandleReplies(j)
               \/ LoseProposal(j) \/ Crash(j) \/ LosePost(j, k)
               \/ UNCHANGED vars
        PROVE  Goal
    <2>1. UNCHANGED pool
      BY <1>7 DEF Propose, FinishProposal, Handoff, HandlePrePrepare,
           HandlePrepareQuorum, HandlePrepareWait, HandleCommitQuorum,
           HandleCommitWait, HandleReplies, LoseProposal, Crash, LosePost,
           bufferVars, vars
    <2>2. QED
      BY <1>0, <2>1
  <1>8. QED
    BY <1>2, <1>3, <1>4, <1>5, <1>6, <1>7, NodesAssumption DEF Next, Resolve

\* What arrives in a pool was there before, or was posted to its node.
LEMMA PoolArrivals ==
    ASSUME TypeOK, [Next]_vars, NEW i \in Nodes, NEW t \in MsgType,
           NEW m \in pool'[i][t]
    PROVE  m \in pool[i][t] \/ (SentTo(i, m) /\ m.type = t)
  BY PoolShape DEF Put

LEMMA PoolStep ==
    ASSUME TypeOK, [Next]_vars, NEW i \in Nodes, NEW t \in MsgType,
           NEW m \in pool'[i][t]
    PROVE  InFlight(m)
  BY PoolArrivals, SentInFlight DEF InFlight

\* An alarm that is due takes the messages of its pool in the order of q.
Taken(i, q) ==
    /\ Cardinality(pool[i][DuePool[stage[i]]]) >= DueSize[stage[i]]
    /\ q \in SetToSeqs(pool[i][DuePool[stage[i]]])

\* What is left of a batch of pre-prepares after one of them is handled.
Rest(i, q) ==
    /\ Handling(i, "preprepare")
    /\ \E k \in Fresh(i) : q = SubSeq(work[i], k + 1, Len(work[i]))

\* Batches are taken by an alarm, handed over whole, and handled to the end,
\* but for the pre-prepares that come after the one handled.
LEMMA BatchShape ==
    ASSUME TypeOK, [Next]_vars, NEW i \in Nodes
    PROVE  /\ \/ disp'[i] \in {disp[i], <<>>}
              \/ Alarm(i) /\ Taken(i, disp'[i])
           /\ \/ work'[i] \in {work[i], disp[i], <<>>}
              \/ Alarm(i) /\ Taken(i, work'[i])
              \/ Rest(i, work'[i])
  <1> DEFINE Disp == \/ disp'[i] \in {disp[i], <<>>}
                     \/ Alarm(i) /\ Taken(i, disp'[i])
             Work == \/ work'[i] \in {work[i], disp[i], <<>>}
                     \/ Alarm(i) /\ Taken(i, work'[i])
                     \/ Rest(i, work'[i])
  <1>0. /\ disp \in [Nodes -> Seq(Msg)] /\ work \in [Nodes -> Seq(Msg)]
        /\ disp'[i] = disp[i] => Disp
        /\ work'[i] = work[i] => Work
    BY DEF TypeOK, BufferTypeOK, ResolverTypeOK
  <1>1. ASSUME NEW j \in Nodes, Alarm(j) PROVE Disp /\ Work
    <2>1. PICK order :
            /\ Taken(j, order)
            /\ IF ResolverFree(j)
               THEN work' = [work EXCEPT ![j] = order] /\ UNCHANGED disp
               ELSE disp' = [disp EXCEPT ![j] = order] /\ UNCHANGED work
      BY <1>1 DEF Alarm, Taken
    <2>2. QED
      BY <1>0, <1>1, <2>1
  <1>2. ASSUME NEW j \in Nodes, Handoff(j) PROVE Disp /\ Work
    BY <1>0, <1>2 DEF Handoff
  <1>3. ASSUME NEW j \in Nodes,
               \/ HandlePrepareQuorum(j) \/ HandlePrepareWait(j)
               \/ HandleCommitQuorum(j) \/ HandleCommitWait(j)
               \/ HandleReplies(j)
        PROVE  Disp /\ Work
    <2>1. work' = [work EXCEPT ![j] = <<>>] /\ UNCHANGED disp
      BY <1>3 DEF HandlePrepareQuorum, HandlePrepareWait, HandleCommitQuorum,
                  HandleCommitWait, HandleReplies, bufferVars
    <2>2. QED
      BY <1>0, <2>1
  <1>4. ASSUME NEW j \in Nodes, HandlePrePrepare(j) PROVE Disp /\ Work
    <2>1. UNCHANGED disp /\ Handling(j, "preprepare")
      BY <1>4 DEF HandlePrePrepare, bufferVars
    <2>2. \/ work' = [work EXCEPT ![j] = <<>>]
          \/ \E k \in Fresh(j) :
                work' = [work EXCEPT ![j] = SubSeq(work[j], k + 1, Len(work[j]))]
      BY <1>4 DEF HandlePrePrepare
    <2>3. QED
      BY <1>0, <2>1, <2>2 DEF Rest
  <1>5. ASSUME NEW j \in Nodes, NEW k \in Nodes,
               \/ Propose \/ FinishProposal \/ FinishAnswers
               \/ DeliverProposal(j) \/ LoseProposal(j) \/ Crash(j)
               \/ Deliver(j, k) \/ LosePost(j, k)
               \/ FinishPrepare(j) \/ FinishCommit(j) \/ FinishReply(j)
               \/ UNCHANGED vars
        PROVE  Disp /\ Work
    <2>1. UNCHANGED <<disp, work>>
      BY <1>5 DEF Propose, FinishProposal, FinishAnswers, DeliverProposal,
           LoseProposal, Crash, Deliver, LosePost, FinishPrepare, FinishCommit,
           FinishReply, bufferVars, resolverVars, vars
    <2>2. QED
      BY <1>0, <2>1
  <1>6. QED
    BY <1>1, <1>2, <1>3, <1>4, <1>5, NodesAssumption DEF Next, Resolve

\* What batches are made of.
LEMMA RestIn ==
    ASSUME TypeOK, NEW i \in Nodes, NEW q, Rest(i, q)
    PROVE  /\ ToSet(q) \subseteq ToSet(work[i])
           /\ q # <<>> => Head(q).type = "preprepare"
  <1>1. PICK k \in Fresh(i) : q = SubSeq(work[i], k + 1, Len(work[i]))
    BY DEF Rest
  <1>2. /\ work[i] \in Seq(Msg) /\ OneType(work[i])
        /\ k \in DOMAIN work[i]
    BY DEF TypeOK, ResolverTypeOK, Fresh
  <1>3. ToSet(q) \subseteq ToSet(work[i])
    BY <1>1, <1>2, SubSeqType DEF ToSet
  <1>4. \A n \in DOMAIN work[i] : work[i][n] \in Only("preprepare")
    BY BatchType DEF Rest, TypeOK
  <1>5. q # <<>> => Head(q).type = "preprepare"
    <2>1. q \in Seq(Msg) /\ \A n \in DOMAIN q : q[n] = work[i][k + n] /\ k + n \in DOMAIN work[i]
      BY <1>1, <1>2, SubSeqType
    <2>2. q # <<>> => 1 \in DOMAIN q /\ Head(q) = q[1]
      BY <2>1
    <2>3. QED
      BY <1>4, <2>1, <2>2 DEF Only
  <1>6. QED
    BY <1>3, <1>5

LEMMA TakenIn ==
    ASSUME TypeOK, NEW i \in Nodes, NEW q, Taken(i, q)
    PROVE  /\ DuePool[stage[i]] \in MsgType
           /\ ToSet(q) \subseteq pool[i][DuePool[stage[i]]]
           /\ q \in Seq(Msg) /\ OneType(q)
  <1>1. DuePool[stage[i]] \in MsgType
    BY DuePoolType DEF TypeOK
  <1>2. FiniteSubset(pool[i][DuePool[stage[i]]], Only(DuePool[stage[i]]))
    BY <1>1 DEF TypeOK, BufferTypeOK
  <1>3. QED
    BY <1>1, <1>2, OrderType DEF Taken, ToSet

\* What is in a batch was in one before, or in a pool of the node.
LEMMA BatchArrivals ==
    ASSUME TypeOK, [Next]_vars, NEW i \in Nodes,
           NEW m, m \in ToSet(disp'[i]) \/ m \in ToSet(work'[i])
    PROVE  \/ m \in ToSet(disp[i]) \/ m \in ToSet(work[i])
           \/ \E t \in MsgType : m \in pool[i][t]
  <1>1. ToSet(<<>>) = {}
    BY DEF ToSet
  <1>2. QED
    BY <1>1, BatchShape, TakenIn, RestIn

LEMMA BatchStep ==
    ASSUME TypeOK, [Next]_vars, NEW i \in Nodes,
           NEW m, m \in ToSet(disp'[i]) \/ m \in ToSet(work'[i])
    PROVE  InFlight(m)
  BY BatchArrivals DEF InFlight

\* What a handler broadcasts in a step of node i.
NewPrepare(i) ==
    /\ Handling(i, "preprepare")
    /\ \E k \in Fresh(i) :
          /\ out'[i] = [msg |-> PrepareMsg(i, work[i][k]), to |-> Nodes \ {i}]
          /\ work[i][k].seq \in prepares'[i]

NewCommit(i) ==
    /\ Handling(i, "prepare")
    /\ \E k \in Fresh(i) :
          /\ MayBePrepared(PreparesLogged(i, k))
          /\ out'[i] = [msg |-> CommitMsg(i, work[i][k].seq, PreparesLogged(i, k)),
                        to |-> Nodes \ {i}]

NewReply(i) ==
    \E b \in Blocks :
        /\ out'[i] = [msg |-> ReplyMsg(i, b), to |-> {Primary}]
        /\ executed' = [executed EXCEPT ![i] = Append(@, b)]
        /\ \E k \in DOMAIN work[i] : work[i][k].seq = b

\* What a resolver posts after a step it posted before, to no more nodes, or
\* has just built.
LEMMA OutShape ==
    ASSUME TypeOK, [Next]_vars, NEW i \in Nodes, out'[i] # NoPost
    PROVE  \/ /\ out[i] # NoPost /\ out'[i].msg = out[i].msg
              /\ out'[i].to \subseteq out[i].to
           \/ NewPrepare(i) \/ NewCommit(i) \/ NewReply(i)
  <1> DEFINE Old == /\ out[i] # NoPost /\ out'[i].msg = out[i].msg
                    /\ out'[i].to \subseteq out[i].to
  <1>0. /\ out \in [Nodes -> Post] /\ (out'[i] = out[i] => Old)
        /\ prepares \in [Nodes -> SUBSET Blocks]
    BY DEF TypeOK, ResolverTypeOK, EnvTypeOK
  <1>1. ASSUME NEW j \in Nodes, NEW k \in Nodes, Deliver(j, k) \/ LosePost(j, k)
        PROVE  Old
    <2>1. /\ out[j].to # {}
          /\ out' = [out EXCEPT ![j] = [out[j] EXCEPT !.to = @ \ {k}]]
      BY <1>1 DEF Deliver, LosePost
    <2>2. out[j] # NoPost
      BY <2>1 DEF NoPost
    <2>3. /\ [out[j] EXCEPT !.to = @ \ {k}].msg = out[j].msg
          /\ [out[j] EXCEPT !.to = @ \ {k}].to \subseteq out[j].to
      BY <1>0, <2>2 DEF Post
    <2>4. QED
      BY <1>0, <2>1, <2>2, <2>3
  <1>2. ASSUME NEW j \in Nodes, HandlePrePrepare(j)
        PROVE  Old \/ NewPrepare(i)
    <2>1. Handling(j, "preprepare")
      BY <1>2 DEF HandlePrePrepare
    <2>2. CASE UNCHANGED out
      BY <1>0, <2>2
    <2>3. ASSUME NEW k \in Fresh(j),
                 out' = [out EXCEPT ![j] = [msg |-> PrepareMsg(j, work[j][k]),
                                            to |-> Nodes \ {j}]],
                 prepares' = [prepares EXCEPT ![j] = @ \cup {work[j][k].seq}]
          PROVE  Old \/ NewPrepare(i)
      <3>1. CASE i # j
        BY <1>0, <2>3, <3>1
      <3>2. CASE i = j
        BY <1>0, <2>1, <2>3, <3>2 DEF NewPrepare
      <3>3. QED
        BY <3>1, <3>2
    <2>4. QED
      BY <1>2, <2>2, <2>3 DEF HandlePrePrepare
  <1>3. ASSUME NEW j \in Nodes, HandlePrepareQuorum(j)
        PROVE  Old \/ NewCommit(i)
    <2>1. PICK k \in Fresh(j) :
             /\ MayBePrepared(PreparesLogged(j, k))
             /\ out' = [out EXCEPT ![j] =
                  [msg |-> CommitMsg(j, work[j][k].seq, PreparesLogged(j, k)),
                   to |-> Nodes \ {j}]]
      BY <1>3 DEF HandlePrepareQuorum
    <2>2. CASE i # j
      BY <1>0, <2>1, <2>2
    <2>3. CASE i = j
      BY <1>0, <1>3, <2>1, <2>3 DEF NewCommit, HandlePrepareQuorum
    <2>4. QED
      BY <2>2, <2>3
  <1>4. ASSUME NEW j \in Nodes, HandleCommitQuorum(j) PROVE Old \/ NewReply(i)
    <2>1. PICK k \in Signed(j) :
            /\ Execute(j, work[j][k].seq)
            /\ out' = [out EXCEPT ![j] =
                 [msg |-> ReplyMsg(j, work[j][k].seq), to |-> {Primary}]]
      BY <1>4 DEF HandleCommitQuorum
    <2>2. k \in DOMAIN work[j] /\ work[j][k].seq \in Blocks
      BY MsgFields DEF TypeOK, ResolverTypeOK, Signed, Fresh
    <2>3. CASE i # j
      BY <1>0, <2>1, <2>3
    <2>4. CASE i = j
      BY <1>0, <2>1, <2>2, <2>4 DEF Execute, NewReply
    <2>5. QED
      BY <2>3, <2>4
  <1>5. ASSUME NEW j \in Nodes,
               FinishPrepare(j) \/ FinishCommit(j) \/ FinishReply(j)
        PROVE  Old
    <2>1. out' = [out EXCEPT ![j] = NoPost]
      BY <1>5 DEF FinishPrepare, FinishCommit, FinishReply
    <2>2. QED
      BY <1>0, <2>1
  <1>6. ASSUME NEW j \in Nodes,
               \/ Propose \/ FinishProposal \/ FinishAnswers
               \/ Alarm(j) \/ Handoff(j)
               \/ HandlePrepareWait(j) \/ HandleCommitWait(j)
               \/ HandleReplies(j) \/ DeliverProposal(j) \/ LoseProposal(j)
               \/ Crash(j) \/ UNCHANGED vars
        PROVE  Old
    <2>1. UNCHANGED out
      BY <1>6 DEF Propose, FinishProposal, FinishAnswers, Alarm, Handoff,
           HandlePrepareWait, HandleCommitWait, HandleReplies,
           DeliverProposal, LoseProposal, Crash, resolverVars, vars
    <2>2. QED
      BY <1>0, <2>1
  <1>7. QED
    BY <1>1, <1>2, <1>3, <1>4, <1>5, <1>6, NodesAssumption DEF Next, Resolve

\* A post that is new is a vote on a block of the batch, or a reply for the block
\* that the step executes.
LEMMA OutStep ==
    ASSUME TypeOK, [Next]_vars, NEW i \in Nodes, out'[i] # NoPost
    PROVE  \/ out[i] # NoPost /\ out'[i].msg = out[i].msg
           \/ /\ out'[i].msg.type # "reply"
              /\ \E k \in DOMAIN work[i] : out'[i].msg.seq = work[i][k].seq
           \/ \E b \in Blocks :
                 /\ out'[i].msg = ReplyMsg(i, b)
                 /\ executed' = [executed EXCEPT ![i] = Append(@, b)]
                 /\ \E k \in DOMAIN work[i] : work[i][k].seq = b
  <1>1. CASE NewPrepare(i)
    BY <1>1 DEF NewPrepare, PrepareMsg, Fresh
  <1>2. CASE NewCommit(i)
    BY <1>2 DEF NewCommit, CommitMsg, Fresh
  <1>3. CASE NewReply(i)
    <2>1. PICK b \in Blocks :
             /\ out'[i] = [msg |-> ReplyMsg(i, b), to |-> {Primary}]
             /\ executed' = [executed EXCEPT ![i] = Append(@, b)]
             /\ \E k \in DOMAIN work[i] : work[i][k].seq = b
      BY <1>3 DEF NewReply
    <2>2. out'[i].msg = ReplyMsg(i, b)
      BY <2>1
    <2>3. QED
      BY <2>1, <2>2
  <1>4. QED
    BY <1>1, <1>2, <1>3, OutShape

\* The pre-prepare being posted is about the last block proposed.
LEMMA PropStep ==
    ASSUME TypeOK, [Next]_vars
    PROVE  /\ proposals' = proposals \/ proposals' = proposals + 1
           /\ prop' # NoPost =>
                 \/ /\ prop # NoPost /\ prop'.msg = prop.msg
                    /\ prop'.to \subseteq prop.to
                 \/ /\ prop' = [msg |-> PrePrepareMsg(proposals + 1),
                                to |-> Nodes \ {Primary}]
                    /\ proposals' = proposals + 1
  <1>1. CASE Propose
    BY <1>1 DEF Propose
  <1>2. CASE FinishProposal
    BY <1>2 DEF FinishProposal
  <1>3. ASSUME NEW j \in Nodes, DeliverProposal(j) \/ LoseProposal(j)
        PROVE  /\ UNCHANGED proposals
               /\ prop # NoPost /\ prop'.msg = prop.msg
               /\ prop'.to \subseteq prop.to
    <2>1. /\ UNCHANGED proposals /\ prop.to # {}
          /\ prop' = [prop EXCEPT !.to = @ \ {j}]
      BY <1>3 DEF DeliverProposal, LoseProposal
    <2>2. prop # NoPost
      BY <2>1 DEF NoPost
    <2>3. QED
      BY <2>1, <2>2 DEF TypeOK, ProposerTypeOK, Post
  <1>4. ASSUME NEW i \in Nodes, NEW j \in Nodes,
               \/ FinishAnswers \/ Alarm(i) \/ Handoff(i) \/ Resolve(i)
               \/ Crash(i) \/ Deliver(i, j) \/ LosePost(i, j) \/ UNCHANGED vars
        PROVE  UNCHANGED <<prop, proposals>>
    BY <1>4 DEF FinishAnswers, Alarm, Handoff, Resolve, HandlePrePrepare,
         HandlePrepareQuorum, HandlePrepareWait, HandleCommitQuorum,
         HandleCommitWait, HandleReplies, FinishPrepare, FinishCommit,
         FinishReply, Crash, Deliver, LosePost, proposerVars, vars
  <1>5. QED
    BY <1>1, <1>2, <1>3, <1>4, NodesAssumption DEF Next

\* A prefix, position by position.
LEMMA PrefixPointwise ==
    ASSUME NEW s \in Seq(Blocks), NEW t \in Seq(Blocks)
    PROVE  IsPrefix(s, t) <=>
              Len(s) <= Len(t) /\ \A k \in 1..Len(s) : s[k] = t[k]
  <1>1. ASSUME Len(s) <= Len(t)
        PROVE  /\ SubSeq(t, 1, Len(s)) \in Seq(Blocks)
               /\ Len(SubSeq(t, 1, Len(s))) = Len(s)
               /\ \A k \in 1..Len(s) : SubSeq(t, 1, Len(s))[k] = t[k]
    BY <1>1
  <1>2. SubSeq(s, 1, Len(s)) = s
    OBVIOUS
  <1>3. QED
    BY <1>1, <1>2 DEF IsPrefix

LEMMA PrefixOfLonger ==
    ASSUME NEW s \in Seq(Blocks), NEW t \in Seq(Blocks), NEW b \in Blocks
    PROVE  /\ IsPrefix(s, s)
           /\ IsPrefix(s, t) => IsPrefix(s, Append(t, b))
  <1>1. Append(t, b) \in Seq(Blocks)
    OBVIOUS
  <1>2. IsPrefix(s, s)
    BY PrefixPointwise
  <1>3. ASSUME IsPrefix(s, t) PROVE IsPrefix(s, Append(t, b))
    <2>1. Len(s) <= Len(t) /\ \A k \in 1..Len(s) : s[k] = t[k]
      BY <1>3, PrefixPointwise
    <2>2. /\ Len(Append(t, b)) = Len(t) + 1
          /\ \A k \in 1..Len(t) : Append(t, b)[k] = t[k]
      OBVIOUS
    <2>3. \A k \in 1..Len(s) : s[k] = Append(t, b)[k]
      BY <2>1, <2>2
    <2>4. Len(s) <= Len(Append(t, b))
      BY <2>1, <2>2
    <2>5. QED
      BY <1>1, <2>3, <2>4, PrefixPointwise
  <1>4. QED
    BY <1>2, <1>3

LEMMA TruthfulInFlight ==
    RepliesTruthful <=> \A m : InFlight(m) => Sound(m)
  <1>1. ASSUME RepliesTruthful, NEW m, InFlight(m) PROVE Sound(m)
    BY <1>1 DEF RepliesTruthful, InFlight
  <1>2. ASSUME \A m : InFlight(m) => Sound(m) PROVE RepliesTruthful
    <2>1. ASSUME NEW i \in Nodes
          PROVE  /\ \A t \in MsgType : \A m \in pool[i][t] : Sound(m)
                 /\ \A m \in ToSet(disp[i]) \cup ToSet(work[i]) : Sound(m)
                 /\ out[i] # NoPost => Sound(out[i].msg)
      BY <1>2 DEF InFlight
    <2>2. prop # NoPost => Sound(prop.msg)
      BY <1>2 DEF InFlight
    <2>3. QED
      BY <2>1, <2>2 DEF RepliesTruthful
  <1>3. QED
    BY <1>1, <1>2

\* What was sound stays sound: rounds are only started, blocks only executed.
LEMMA SoundKept ==
    ASSUME TypeOK, [Next]_vars, NEW m \in Msg, Sound(m)
    PROVE  Sound(m)'
  <1>1. m.seq <= proposals'
    <2>1. m.seq \in Int /\ proposals \in Int /\ m.seq <= proposals
      BY MsgFields, BoundsAssumption
         DEF Sound, TypeOK, ProposerTypeOK, Blocks
    <2>2. proposals' = proposals \/ proposals' = proposals + 1
      BY PropStep
    <2>3. QED
      BY <2>1, <2>2
  <1>2. ASSUME IsPrefix(m.history, executed[m.from])
        PROVE  IsPrefix(m.history, executed'[m.from])
    <2>1. /\ m.from \in Nodes /\ m.history \in Seq(Blocks)
          /\ executed \in [Nodes -> Seq(Blocks)]
      BY MsgFields DEF TypeOK, ConsensusTypeOK
    <2>2. ASSUME NEW i \in Nodes, NEW b \in Blocks,
                 executed' = [executed EXCEPT ![i] = Append(@, b)]
          PROVE  IsPrefix(m.history, executed'[m.from])
      <3>1. CASE m.from = i
        BY <1>2, <2>1, <2>2, <3>1, PrefixOfLonger
      <3>2. CASE m.from # i
        BY <1>2, <2>1, <2>2, <3>2
      <3>3. QED
        BY <3>1, <3>2
    <2>3. QED
      BY <1>2, <2>2, ExecuteStep
  <1>3. QED
    BY <1>1, <1>2 DEF Sound

LEMMA TruthfulStep == TypeOK /\ RepliesTruthful /\ [Next]_vars => RepliesTruthful'
  <1> SUFFICES ASSUME TypeOK, RepliesTruthful, [Next]_vars
               PROVE  RepliesTruthful'
    OBVIOUS
  <1>1. \A m : InFlight(m) => m \in Msg /\ Sound(m)
    <2> SUFFICES ASSUME NEW m, InFlight(m) PROVE m \in Msg
      BY TruthfulInFlight
    <2>1. ASSUME NEW i \in Nodes, NEW t \in MsgType, m \in pool[i][t]
          PROVE  m \in Msg
      BY <2>1 DEF TypeOK, BufferTypeOK
    <2>2. ASSUME NEW i \in Nodes, m \in ToSet(disp[i]) \/ m \in ToSet(work[i])
          PROVE  m \in Msg
      BY <2>2 DEF ToSet, TypeOK, BufferTypeOK, ResolverTypeOK
    <2>3. ASSUME NEW i \in Nodes, out[i] # NoPost, m = out[i].msg
          PROVE  m \in Msg
      BY <2>3 DEF TypeOK, ResolverTypeOK, Post
    <2>4. ASSUME prop # NoPost, m = prop.msg PROVE m \in Msg
      BY <2>4 DEF TypeOK, ProposerTypeOK, Post
    <2>5. QED
      BY <2>1, <2>2, <2>3, <2>4 DEF InFlight
  <1>2. \A m : InFlight(m) => Sound(m)'
    BY <1>1, SoundKept
  <1>3. ASSUME NEW i \in Nodes, NEW t \in MsgType, NEW m \in pool'[i][t]
        PROVE  Sound(m)'
    BY <1>2, PoolStep
  <1>4. ASSUME NEW i \in Nodes, NEW m \in ToSet(disp'[i]) \cup ToSet(work'[i])
        PROVE  Sound(m)'
    BY <1>2, <1>4, BatchStep
  <1>5. ASSUME NEW i \in Nodes, NEW k \in DOMAIN work[i]
        PROVE  work[i][k].seq <= proposals'
    <2>1. work[i][k] \in ToSet(work[i])
      BY DEF ToSet
    <2>2. InFlight(work[i][k])
      BY <2>1 DEF InFlight
    <2>3. QED
      BY <1>2, <2>2 DEF Sound
  <1>6. ASSUME NEW i \in Nodes, out'[i] # NoPost
        PROVE  Sound(out[i].msg)'
    <2>1. CASE out[i] # NoPost /\ out'[i].msg = out[i].msg
      <3>1. InFlight(out[i].msg)
        BY <2>1 DEF InFlight
      <3>2. QED
        BY <1>2, <2>1, <3>1 DEF Sound
    <2>2. ASSUME NEW k \in DOMAIN work[i], out'[i].msg.type # "reply",
                 out'[i].msg.seq = work[i][k].seq
          PROVE  Sound(out[i].msg)'
      BY <1>5, <2>2 DEF Sound
    <2>3. ASSUME NEW b \in Blocks, NEW k \in DOMAIN work[i],
                 out'[i].msg = ReplyMsg(i, b), work[i][k].seq = b,
                 executed' = [executed EXCEPT ![i] = Append(@, b)]
          PROVE  Sound(out[i].msg)'
      <3> DEFINE h == Append(executed[i], b)
      <3>1. executed[i] \in Seq(Blocks) /\ executed'[i] = h
        BY <2>3 DEF TypeOK, ConsensusTypeOK
      <3>2. h \in Seq(Blocks) /\ h # <<>> /\ h[Len(h)] = b
        BY <3>1
      <3>3. IsPrefix(h, h)
        BY <3>2, PrefixOfLonger
      <3>4. /\ out'[i].msg.from = i /\ out'[i].msg.history = h
            /\ out'[i].msg.seq = b
        BY <2>3 DEF ReplyMsg
      <3>5. QED
        BY <1>5, <2>3, <3>1, <3>2, <3>3, <3>4 DEF Sound
    <2>4. QED
      BY <1>6, <2>1, <2>2, <2>3, OutStep
  <1>7. prop' # NoPost => Sound(prop.msg)'
    <2>1. CASE prop # NoPost /\ prop'.msg = prop.msg
      <3>1. InFlight(prop.msg)
        BY <2>1 DEF InFlight
      <3>2. QED
        BY <1>2, <2>1, <3>1 DEF Sound
    <2>2. CASE /\ prop'.msg = PrePrepareMsg(proposals + 1)
               /\ proposals' = proposals + 1
      BY <2>2 DEF PrePrepareMsg, Sound, TypeOK, ProposerTypeOK
    <2>3. QED
      BY <2>1, <2>2, PropStep
  <1>8. QED
    BY <1>3, <1>4, <1>6, <1>7 DEF RepliesTruthful, NoPost

\* However late a reply is counted, it tells of a history its sender went
\* through (Commit computes it before the post, resolveReplyMsg reads it).
THEOREM TruthfulReplies == Spec => []RepliesTruthful
  <1>1. Init => RepliesTruthful
    BY DEF Init, RepliesTruthful, ToSet
  <1>2. QED
    BY <1>1, TruthfulStep, TypeCorrect, PTL DEF Spec

-----------------------------------------------------------------------------
(* What the client is told. With TypeOK and RepliesTruthful, AnswersBacked *)
(* is inductive: each result the primary confirms has f + 1 histories      *)
(* behind it, and a history is only extended.                              *)

\* The nodes that have executed block b, the k-th of node i, after the same
\* history, are finitely many.
LEMMA AgreeingFinite ==
    ASSUME NEW h, NEW e
    PROVE  IsFiniteSet({j \in Nodes : IsPrefix(h, e[j])})
  BY FS_Subset, NodesAssumption

\* A set that contains as many nodes as a quorum is a quorum.
LEMMA QuorumGrows ==
    ASSUME NEW S, IsFiniteSet(S), NEW R \in SUBSET S, Cardinality(R) > f
    PROVE  Cardinality(S) > f
  BY FS_Subset, FS_CardinalityType, BoundsAssumption

\* The first k blocks of a history that h is equal to.
LEMMA HistoryOfPrefix ==
    ASSUME NEW h \in Seq(Blocks), NEW e \in Seq(Blocks), IsPrefix(h, e),
           h # <<>>
    PROVE  /\ Len(h) \in DOMAIN e
           /\ e[Len(h)] = h[Len(h)]
           /\ SubSeq(e, 1, Len(h)) = h
  <1>1. Len(h) \in Nat /\ Len(h) > 0
    OBVIOUS
  <1>2. Len(h) <= Len(e) /\ \A k \in 1..Len(h) : h[k] = e[k]
    BY PrefixPointwise
  <1>3. SubSeq(h, 1, Len(h)) = h
    OBVIOUS
  <1>4. SubSeq(e, 1, Len(h)) = h
    BY <1>3 DEF IsPrefix
  <1>5. QED
    BY <1>1, <1>2, <1>4

\* resolveReplyMsg confirms a result of block b only when f + 1 nodes have
\* executed b.
LEMMA ConfirmedBacked ==
    ASSUME TypeOK, RepliesTruthful, NEW i \in Nodes, HandleReplies(i),
           NEW b \in Blocks, Confirmed(work[i], b) # {}
    PROVE  Backed(b) /\ b <= proposals
  <1>1. PICK k \in DOMAIN work[i] :
          /\ work[i][k].seq = b
          /\ Cardinality(Supporters(work[i], work[i][k].history)) >= f + 1
    BY DEF Confirmed, Results
  <1> DEFINE h == work[i][k].history
             n == work[i][k].from
  <1>2. \A x \in DOMAIN work[i] :
          /\ work[i][x] \in Msg /\ work[i][x].type = "reply"
          /\ Sound(work[i][x])
    BY BatchType DEF HandleReplies, TypeOK, ResolverTypeOK, Only,
                     RepliesTruthful, ToSet
  <1>3. /\ h \in Seq(Blocks) /\ n \in Nodes /\ h # <<>> /\ h[Len(h)] = b
        /\ IsPrefix(h, executed[n]) /\ b <= proposals
    BY <1>1, <1>2, MsgFields DEF Sound
  <1>4. executed[n] \in Seq(Blocks)
    BY <1>3 DEF TypeOK, ConsensusTypeOK
  <1>5. /\ Len(h) \in DOMAIN executed[n] /\ executed[n][Len(h)] = b
        /\ SubSeq(executed[n], 1, Len(h)) = h
    BY <1>3, <1>4, HistoryOfPrefix
  <1> DEFINE S == {j \in Nodes : IsPrefix(h, executed[j])}
  <1>6. Supporters(work[i], h) \in SUBSET S
    BY <1>2 DEF Supporters, Sound
  <1>7. Cardinality(Supporters(work[i], h)) > f
    <2>1. IsFiniteSet(S)
      BY AgreeingFinite
    <2>2. IsFiniteSet(Supporters(work[i], h))
      BY <1>6, <2>1, FS_Subset, Zenon
    <2>3. Cardinality(Supporters(work[i], h)) \in Nat
      BY <2>2, FS_CardinalityType, Zenon
    <2>4. QED
      BY <1>1, <2>3, BoundsAssumption
  <1>8. Cardinality(S) > f
    BY <1>6, <1>7, AgreeingFinite, QuorumGrows
  <1>9. QED
    BY <1>3, <1>5, <1>8 DEF Backed

\* A block that is backed stays so.
LEMMA BackedKept ==
    ASSUME TypeOK, [Next]_vars, NEW b \in Blocks, Backed(b)
    PROVE  Backed(b)'
  <1>0. PICK i \in Nodes : \E k \in DOMAIN executed[i] :
          /\ executed[i][k] = b
          /\ Cardinality({j \in Nodes :
                 IsPrefix(SubSeq(executed[i], 1, k), executed[j])}) > f
    BY DEF Backed
  <1>1. PICK k \in DOMAIN executed[i] :
          /\ executed[i][k] = b
          /\ Cardinality({j \in Nodes :
                 IsPrefix(SubSeq(executed[i], 1, k), executed[j])}) > f
    BY <1>0
  <1> DEFINE h == SubSeq(executed[i], 1, k)
             S == {j \in Nodes : IsPrefix(h, executed[j])}
             T == {j \in Nodes : IsPrefix(h, executed'[j])}
  <1>2. executed \in [Nodes -> Seq(Blocks)] /\ h \in Seq(Blocks)
    BY <1>1 DEF TypeOK, ConsensusTypeOK
  <1>3. ASSUME NEW j \in Nodes
        PROVE  \/ executed'[j] = executed[j]
               \/ \E c \in Blocks : executed'[j] = Append(executed[j], c)
    BY <1>2, ExecuteStep
  <1>4. S \in SUBSET T
    <2>1. ASSUME NEW j \in Nodes, IsPrefix(h, executed[j])
          PROVE  IsPrefix(h, executed'[j])
      <3>1. h \in Seq(Blocks) /\ executed[j] \in Seq(Blocks)
        BY <1>2
      <3>2. ASSUME NEW c \in Blocks
            PROVE  IsPrefix(h, Append(executed[j], c))
        BY <2>1, <3>1, PrefixOfLonger
      <3>3. QED
        BY <1>3, <2>1, <3>2
    <2>2. QED
      BY <2>1
  <1>5. Cardinality(T) > f
    BY <1>1, <1>4, AgreeingFinite, QuorumGrows
  <1>6. /\ k \in DOMAIN executed'[i] /\ executed'[i][k] = b
        /\ SubSeq(executed'[i], 1, k) = h
    <2>1. CASE executed'[i] = executed[i]
      BY <1>1, <2>1
    <2>2. ASSUME NEW c \in Blocks, executed'[i] = Append(executed[i], c)
          PROVE  /\ k \in DOMAIN executed'[i] /\ executed'[i][k] = b
                 /\ SubSeq(executed'[i], 1, k) = h
      BY <1>1, <1>2, <2>2
    <2>3. QED
      BY <1>3, <2>1, <2>2
  <1>7. QED
    BY <1>5, <1>6 DEF Backed

\* The client hears of a block when the primary handles replies.
LEMMA AnswerStep ==
    ASSUME TypeOK, [Next]_vars
    PROVE  \/ UNCHANGED answers
           \/ \E i \in Nodes :
                 /\ HandleReplies(i)
                 /\ \A b \in Blocks : answers'[b] > 0 <=>
                       (answers[b] > 0 \/ Confirmed(work[i], b) # {})
  <1>1. ASSUME NEW i \in Nodes, HandleReplies(i), NEW b \in Blocks
        PROVE  answers'[b] > 0 <=>
                  (answers[b] > 0 \/ Confirmed(work[i], b) # {})
    <2>1. answers'[b] = answers[b] + Cardinality(Confirmed(work[i], b))
      BY <1>1 DEF HandleReplies
    <2>2. IsFiniteSet(Confirmed(work[i], b))
      <3>1. IsFiniteSet(Results(work[i], b))
        BY ResultsFinite DEF TypeOK, ResolverTypeOK
      <3>2. Confirmed(work[i], b) \in SUBSET Results(work[i], b)
        BY DEF Confirmed
      <3>3. QED
        BY <3>1, <3>2, FS_Subset, Zenon
    <2>3. /\ Cardinality(Confirmed(work[i], b)) \in Nat
          /\ Cardinality(Confirmed(work[i], b)) = 0
                <=> Confirmed(work[i], b) = {}
      BY <2>2, FS_CardinalityType, FS_EmptySet, Zenon
    <2>4. answers[b] \in Nat
      BY DEF TypeOK, ClientTypeOK
    <2>5. QED
      BY <2>1, <2>3, <2>4
  <1>2. ASSUME NEW i \in Nodes, NEW j \in Nodes,
               \/ Propose \/ FinishProposal \/ FinishAnswers
               \/ Alarm(i) \/ Handoff(i)
               \/ HandlePrePrepare(i) \/ HandlePrepareQuorum(i)
               \/ HandlePrepareWait(i) \/ HandleCommitQuorum(i)
               \/ HandleCommitWait(i) \/ FinishPrepare(i) \/ FinishCommit(i)
               \/ FinishReply(i) \/ DeliverProposal(i) \/ LoseProposal(i)
               \/ Crash(i) \/ Deliver(i, j) \/ LosePost(i, j) \/ UNCHANGED vars
        PROVE  UNCHANGED answers
    BY <1>2 DEF Propose, FinishProposal, FinishAnswers, Alarm, Handoff,
         HandlePrePrepare, HandlePrepareQuorum, HandlePrepareWait,
         HandleCommitQuorum, HandleCommitWait, FinishPrepare, FinishCommit,
         FinishReply, DeliverProposal, LoseProposal, Crash, Deliver, LosePost,
         clientVars, vars
  <1>3. QED
    BY <1>1, <1>2, NodesAssumption DEF Next, Resolve

LEMMA BackedStep ==
    TypeOK /\ RepliesTruthful /\ AnswersBacked /\ [Next]_vars => AnswersBacked'
  <1> SUFFICES ASSUME TypeOK, RepliesTruthful, AnswersBacked, [Next]_vars,
                      NEW b \in Blocks, answers'[b] > 0
               PROVE  Backed(b)'
    BY DEF AnswersBacked
  <1>1. Backed(b)
    BY AnswerStep, ConfirmedBacked DEF AnswersBacked
  <1>2. QED
    BY <1>1, BackedKept

\* The client is told that a block succeeded only if f + 1 nodes executed it
\* with the same result, whatever stale replies are counted (resolveReplyMsg).
THEOREM BackedAnswers == Spec => []AnswersBacked
  <1>1. Init => AnswersBacked
    BY DEF Init, AnswersBacked
  <1>2. QED
    BY <1>1, BackedStep, TypeCorrect, TruthfulReplies, PTL DEF Spec

-----------------------------------------------------------------------------
(* Refinement. Each step of the cluster maps to a step of ReplicatedLog or *)
(* to a stutter.                                                           *)

\* The histories of a cluster and of ReplicatedLog support the same answers.
LEMMA BackedConfirmable ==
    ASSUME TypeOK, NEW b \in Blocks, Backed(b)
    PROVE  Log!Confirmable(b)
  <1>0. PICK i \in Nodes : \E k \in DOMAIN executed[i] :
          /\ executed[i][k] = b
          /\ Cardinality({j \in Nodes :
                 IsPrefix(SubSeq(executed[i], 1, k), executed[j])}) > f
    BY DEF Backed
  <1>1. PICK k \in DOMAIN executed[i] :
          /\ executed[i][k] = b
          /\ Cardinality({j \in Nodes :
                 IsPrefix(SubSeq(executed[i], 1, k), executed[j])}) > f
    BY <1>0
  <1> DEFINE h == SubSeq(executed[i], 1, k)
             g == [x \in 1..k |-> executed[i][x]]
  <1>2. /\ executed \in [Nodes -> Seq(Blocks)] /\ k \in 1..Len(executed[i])
        /\ h \in Seq(Blocks)
    BY DEF TypeOK, ConsensusTypeOK
  <1>3. h = g
    BY <1>2
  <1>4. ASSUME NEW j \in Nodes
        PROVE  IsPrefix(h, executed[j]) <=>
                  /\ Len(g) <= Len(executed[j])
                  /\ \A x \in 1..Len(g) : executed[j][x] = g[x]
    <2>1. executed[j] \in Seq(Blocks)
      BY <1>2
    <2>2. IsPrefix(h, executed[j]) <=>
             /\ Len(h) <= Len(executed[j])
             /\ \A x \in 1..Len(h) : h[x] = executed[j][x]
      BY <1>2, <2>1, PrefixPointwise
    <2>3. QED
      BY <1>3, <2>2
  <1>5. {j \in Nodes : IsPrefix(h, executed[j])} = Log!Agreeing(g)
    BY <1>4 DEF Log!Agreeing
  <1>6. Cardinality(Log!Agreeing(g)) >= f + 1
    <2>1. IsFiniteSet({j \in Nodes : IsPrefix(h, executed[j])})
      BY AgreeingFinite
    <2>2. Cardinality(Log!Agreeing(g)) \in Nat
      BY <1>5, <2>1, FS_CardinalityType
    <2>3. Cardinality(Log!Agreeing(g)) > f
      BY <1>1, <1>5
    <2>4. QED
      BY <2>2, <2>3, BoundsAssumption
  <1> HIDE DEF g
  <1>7. \E n \in Nodes : \E x \in 1..Len(executed[n]) :
          /\ executed[n][x] = b
          /\ Cardinality(Log!Agreeing([y \in 1..x |-> executed[n][y]])) >= f + 1
    BY <1>1, <1>2, <1>6 DEF g
  <1>8. QED
    BY <1>7, Zenon DEF Log!Confirmable, Log!Cardinality, Cardinality

LEMMA RefinementStep ==
    TypeOK /\ ExecOrdered /\ RepliesTruthful /\ [Next]_vars
        => [Log!Next]_(Log!vars)
  <1> SUFFICES ASSUME TypeOK, ExecOrdered, RepliesTruthful, [Next]_vars
               PROVE  Log!Next \/ UNCHANGED <<proposals, executed,
                                              {b \in Blocks : answers[b] > 0}>>
    BY DEF Log!vars
  <1>1. CASE Propose
    <2>1. UNCHANGED <<executed, answers>>
      BY <1>1 DEF Propose, clientVars
    <2>2. QED
      BY <1>1, <2>1 DEF Propose, Log!Propose, Log!Next
  <1>2. ASSUME NEW i \in Nodes, HandleCommitQuorum(i) PROVE Log!Next
    <2>1. UNCHANGED <<proposals, answers>>
      BY <1>2 DEF HandleCommitQuorum, proposerVars, clientVars
    <2>2. PICK k \in Signed(i) : Execute(i, work[i][k].seq)
      BY <1>2 DEF HandleCommitQuorum
    <2>3. /\ k \in DOMAIN work[i] /\ work[i][k] \in Msg
          /\ last[i] < work[i][k].seq
      BY DEF Signed, Fresh, TypeOK, ResolverTypeOK
    <2>4. work[i][k].seq <= proposals
      BY <2>3 DEF RepliesTruthful, Sound, ToSet
    <2>5. work[i][k].seq \in 1..proposals
      BY <2>3, <2>4, MsgFields DEF Blocks, TypeOK, ProposerTypeOK
    <2>6. last[i] = Log!Newest(executed[i])
      BY DEF ExecOrdered, Log!Newest
    <2>7. work[i][k].seq > Log!Newest(executed[i])
      BY <2>3, <2>5, <2>6 DEF TypeOK, ConsensusTypeOK
    <2>8. QED
      BY <2>1, <2>2, <2>5, <2>7 DEF Execute, Log!Execute, Log!Next
  <1>3. ASSUME NEW i \in Nodes, HandleReplies(i),
               \A b \in Blocks : answers'[b] > 0 <=>
                  (answers[b] > 0 \/ Confirmed(work[i], b) # {})
        PROVE  Log!Next
    <2> DEFINE B == {b \in Blocks : Confirmed(work[i], b) # {}}
    <2>1. UNCHANGED <<proposals, executed>>
      BY <1>3 DEF HandleReplies, proposerVars, consensusVars
    <2>2. \A b \in B : b <= proposals /\ Log!Confirmable(b)
      BY <1>3, ConfirmedBacked, BackedConfirmable
    <2>3. B \in SUBSET (1..proposals)
      BY <2>2 DEF Blocks, TypeOK, ProposerTypeOK
    <2>4. {b \in Blocks : answers'[b] > 0}
            = {b \in Blocks : answers[b] > 0} \cup B
      BY <1>3
    <2>5. Log!Confirm
      BY <2>1, <2>2, <2>3, <2>4 DEF Log!Confirm
    <2>6. QED
      BY <2>5 DEF Log!Next
  <1>4. CASE UNCHANGED <<proposals, executed, answers>>
    BY <1>4
  <1>5. ASSUME NEW i \in Nodes, NEW j \in Nodes,
               \/ FinishProposal \/ FinishAnswers \/ Alarm(i) \/ Handoff(i)
               \/ HandlePrePrepare(i) \/ HandlePrepareQuorum(i)
               \/ HandlePrepareWait(i) \/ HandleCommitWait(i)
               \/ FinishPrepare(i) \/ FinishCommit(i)
               \/ FinishReply(i) \/ DeliverProposal(i) \/ LoseProposal(i)
               \/ Crash(i) \/ Deliver(i, j) \/ LosePost(i, j) \/ UNCHANGED vars
        PROVE  UNCHANGED <<proposals, executed, answers>>
    BY <1>5 DEF FinishProposal, FinishAnswers, Alarm, Handoff,
         HandlePrePrepare, HandlePrepareQuorum, HandlePrepareWait,
         HandleCommitWait, FinishPrepare, FinishCommit, FinishReply,
         DeliverProposal, LoseProposal, Crash, Deliver, LosePost,
         clientVars, consensusVars, proposerVars, vars
  <1>6. ASSUME NEW i \in Nodes, HandleReplies(i)
        PROVE  Log!Next \/ UNCHANGED <<proposals, executed, answers>>
    <2>1. UNCHANGED <<proposals, executed>>
      BY <1>6 DEF HandleReplies, proposerVars, consensusVars
    <2>2. QED
      BY <1>3, <2>1, AnswerStep
  <1>7. QED
    BY <1>1, <1>2, <1>4, <1>5, <1>6, NodesAssumption DEF Next, Resolve

\* The cluster implements ReplicatedLog: its client sees one log of blocks,
\* each executed in order and confirmed by f + 1 equal histories.
THEOREM ImplementsLog == Spec => Refinement
  <1>1. Init => Log!Init
    BY DEF Init, Log!Init
  <1>2. QED
    BY <1>1, RefinementStep, TypeCorrect, OrderedExecution, TruthfulReplies,
       PTL DEF Spec, Refinement, Log!Spec
=============================================================================
