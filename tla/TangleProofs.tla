---------------------------- MODULE TangleProofs ----------------------------
(***************************************************************************)
(* Theorems about Tangle, for every limit of the node and every bound.     *)
(***************************************************************************)
EXTENDS Tangle, FiniteSetTheorems, TLAPS

USE LimitsAssumption, MaximaAssumption

-----------------------------------------------------------------------------
(* Types.                                                                  *)

\* The chosen transactions to approve are among the previous ones.
LEMMA ChoicesType ==
    ASSUME NEW P, NEW S \in ApproveChoices(P)
    PROVE  S \subseteq P
  BY DEF ApproveChoices, kSubset

\* Sets of transactions are finite.
LEMMA FiniteTxs ==
    ASSUME NEW S \in SUBSET Txs
    PROVE  IsFiniteSet(S) /\ Cardinality(S) \in Nat
  <1>1. IsFiniteSet(Txs)
    BY FS_Interval DEF Txs
  <1>2. IsFiniteSet(S)
    BY <1>1, FS_Subset, Zenon
  <1>3. QED
    BY <1>2, FS_CardinalityType, Zenon

\* The size of the union of disjoint sets.
LEMMA DisjointUnion ==
    ASSUME NEW S, NEW T, IsFiniteSet(S), IsFiniteSet(T), S \cap T = {}
    PROVE  Cardinality(S \cup T) = Cardinality(S) + Cardinality(T)
  <1>1. Cardinality(S) \in Nat /\ Cardinality(T) \in Nat
    BY FS_CardinalityType, Zenon
  <1>2. Cardinality(S \cap T) = 0
    BY FS_EmptySet, Zenon
  <1>3. Cardinality(S \cup T)
            = Cardinality(S) + Cardinality(T) - Cardinality(S \cap T)
    BY FS_Union, Zenon
  <1>4. QED
    BY <1>1, <1>2, <1>3

LEMMA SupportersType ==
    ASSUME TypeOK, NEW S \in SUBSET Txs, NEW t
    PROVE  Cardinality(Supporters(t, S)) \in Nat /\ IsFiniteSet(Supporters(t, S))
  <1>1. Supporters(t, S) \in SUBSET Txs
    BY DEF Supporters
  <1>2. QED
    BY <1>1, FiniteTxs

LEMMA PlacesInTxs ==
    ASSUME TypeOK
    PROVE  /\ 0..created \subseteq Txs /\ 1..created \subseteq Txs
           /\ created \in Nat
           /\ stored \subseteq Txs /\ candidates \subseteq Txs /\ tips \subseteq Txs
  BY DEF TypeOK, Txs

LEMMA TypeInit == Init => TypeOK
  <1> SUFFICES ASSUME Init PROVE TypeOK
    OBVIOUS
  <1>1. /\ previous \in [Txs -> SUBSET Txs] /\ approved \in [Txs -> SUBSET Txs]
        /\ depth \in [Txs -> Nat] /\ age \in [Txs -> Nat]
    BY DEF Init
  <1>2. /\ tips \subseteq stored /\ stored \subseteq 0..created /\ Genesis \in stored
        /\ candidates \subseteq 1..created /\ selecting \subseteq 1..created
        /\ broadcasting \subseteq 1..created /\ created \in 0..MaxTx
        /\ txCount \in Nat /\ phase \in 0..(TipExpire - 1)
    BY DEF Init, Genesis
  <1>3. /\ cycleDue \in BOOLEAN /\ expireDue \in BOOLEAN
        /\ cancelled \in BOOLEAN /\ updating \in BOOLEAN
    BY DEF Init
  <1>4. QED
    BY <1>1, <1>2, <1>3, Zenon DEF TypeOK

LEMMA TypeTick == TypeOK /\ Tick => TypeOK'
  <1> SUFFICES ASSUME TypeOK, Tick PROVE TypeOK'
    OBVIOUS
  <1>1. age' \in [Txs -> Nat]
    BY DEF TypeOK, Tick
  <1>2. phase' \in 0..(TipExpire - 1)
    BY DEF TypeOK, Tick
  <1>3. QED
    BY <1>1, <1>2 DEF TypeOK, Tick, graphVars, callVars, runVars

LEMMA TypePublish ==
    ASSUME TypeOK, ReadTips \/ \E t \in Txs : Approve(t) \/ AddCandidate(t)
    PROVE  TypeOK'
  <1>1. CASE ReadTips
    <2>1. created + 1 \in Txs /\ created' = created + 1 /\ created \in Nat
      BY <1>1 DEF ReadTips, TypeOK, Txs
    <2>2. previous' \in [Txs -> SUBSET Txs]
      BY <1>1, PlacesInTxs DEF ReadTips, TypeOK, TipsRead
    <2>3. created' \in 0..MaxTx
      BY <1>1, <2>1 DEF Txs
    <2>4. QED
      BY <1>1, <2>1, <2>2, <2>3
      DEF ReadTips, TypeOK, timerVars, runVars
  <1>2. ASSUME NEW t \in Txs, Approve(t)
        PROVE  TypeOK'
    <2>1. approved' \in [Txs -> SUBSET Txs]
      <3>1. PICK S \in ApproveChoices(previous[t]) :
                approved' = [approved EXCEPT ![t] = S]
        BY <1>2 DEF Approve
      <3>2. S \in SUBSET Txs
        BY <3>1, ChoicesType, Zenon DEF TypeOK
      <3>3. QED
        BY <3>1, <3>2 DEF TypeOK
    <2>2. QED
      BY <1>2, <2>1 DEF Approve, TypeOK, timerVars, runVars
  <1>3. ASSUME NEW t \in Txs, AddCandidate(t)
        PROVE  TypeOK'
    BY <1>3 DEF AddCandidate, TypeOK, graphVars, timerVars, runVars
  <1>4. QED
    BY <1>1, <1>2, <1>3

LEMMA TypeConfirm == TypeOK /\ Confirm => TypeOK'
  <1> SUFFICES ASSUME TypeOK, Confirm PROVE TypeOK'
    OBVIOUS
  <1>1. PICK S \in SUBSET candidates :
            /\ tips' = Promoted(S)
            /\ candidates' = Remaining(S)
            /\ stored' = stored \cup S
            /\ age' = [t \in Txs |-> IF t \in S THEN 0 ELSE age[t]]
            /\ depth' = [t \in Txs |-> (IF t \in S THEN 0 ELSE depth[t])
                                       + Cardinality(Supporters(t, S))]
            /\ txCount' = txCount + Cardinality(S)
    BY DEF Confirm
  <1>2. S \in SUBSET Txs /\ IsFiniteSet(S) /\ Cardinality(S) \in Nat
    BY PlacesInTxs, FiniteTxs
  <1>3. \A t \in Txs : Cardinality(Supporters(t, S)) \in Nat
    BY <1>2, SupportersType
  <1>4. depth' \in [Txs -> Nat]
    BY <1>1, <1>3 DEF TypeOK
  <1>5. age' \in [Txs -> Nat]
    BY <1>1 DEF TypeOK
  <1>6. txCount' \in Nat
    BY <1>1, <1>2 DEF TypeOK
  <1>7. /\ tips' \subseteq stored' /\ stored' \subseteq 0..created'
        /\ Genesis \in stored' /\ candidates' \subseteq 1..created'
    BY <1>1 DEF TypeOK, Confirm, Promoted, Remaining, callVars
  <1>8. QED
    BY <1>4, <1>5, <1>6, <1>7 DEF TypeOK, Confirm, callVars, runVars

LEMMA TypeRest == TypeOK /\ (SkipCycle \/ Expire \/ Cancel \/ Quit) => TypeOK'
  <1>1. TypeOK /\ SkipCycle => TypeOK'
    BY DEF TypeOK, SkipCycle, graphVars, callVars, runVars
  <1>2. TypeOK /\ Expire => TypeOK'
    <2> SUFFICES ASSUME TypeOK, Expire PROVE TypeOK'
      OBVIOUS
    <2>1. age' \in [Txs -> Nat] /\ tips' \subseteq tips
      BY DEF TypeOK, Expire
    <2>2. QED
      BY <2>1 DEF TypeOK, Expire, graphVars, callVars, runVars
  <1>3. TypeOK /\ (Cancel \/ Quit) => TypeOK'
    BY DEF TypeOK, Cancel, Quit, graphVars, callVars, timerVars
  <1>4. QED
    BY <1>1, <1>2, <1>3

\* The type invariant holds in every reachable state.
THEOREM TypeCorrect == Spec => []TypeOK
  <1>1. TypeOK /\ [Next]_vars => TypeOK'
    <2> SUFFICES ASSUME TypeOK, [Next]_vars PROVE TypeOK'
      OBVIOUS
    <2>1. CASE UNCHANGED vars
      BY <2>1 DEF vars, TypeOK
    <2>2. CASE Next
      BY <2>2, TypeTick, TypePublish, TypeConfirm, TypeRest DEF Next
    <2>3. QED
      BY <2>1, <2>2
  <1>2. QED
    BY <1>1, TypeInit, PTL DEF Spec

-----------------------------------------------------------------------------
(* Where a transaction is.                                                 *)

LEMMA CountedInit == Init => CountedOnce
  <1> SUFFICES ASSUME Init PROVE CountedOnce
    OBVIOUS
  <1>1. stored \ {Genesis} = {}
    BY DEF Init
  <1>2. QED
    BY <1>1, FS_EmptySet DEF Init, CountedOnce, OnePlace, Genesis

\* The steps of a call move its transaction on.
LEMMA PlacePublish ==
    ASSUME TypeOK, OnePlace,
           ReadTips \/ \E t \in Txs : Approve(t) \/ AddCandidate(t)
    PROVE  OnePlace'
  <1>1. CASE ReadTips
    <2>1. created' = created + 1 /\ 0..(created + 1) = (0..created) \cup {created + 1}
      BY <1>1, PlacesInTxs DEF ReadTips
    <2>2. created + 1 \notin 0..created
      BY PlacesInTxs
    <2>3. QED
      BY <1>1, <2>1, <2>2 DEF ReadTips, OnePlace
  <1>2. ASSUME NEW t \in Txs, Approve(t)
        PROVE  OnePlace'
    BY <1>2 DEF Approve, OnePlace
  <1>3. ASSUME NEW t \in Txs, AddCandidate(t)
        PROVE  OnePlace'
    BY <1>3 DEF AddCandidate, OnePlace, graphVars
  <1>4. QED
    BY <1>1, <1>2, <1>3

\* What a confirmation does to a batch that is no longer hidden under \E.
Batch(S) ==
    /\ S \subseteq candidates
    /\ tips' = tips \cup S
    /\ candidates' = candidates \ S
    /\ stored' = stored \cup S
    /\ depth' = [t \in Txs |-> (IF t \in S THEN 0 ELSE depth[t])
                               + Cardinality(Supporters(t, S))]
    /\ txCount' = txCount + Cardinality(S)
    /\ UNCHANGED <<previous, approved, created, selecting, broadcasting>>

LEMMA ConfirmBatch == Confirm => \E S : Batch(S)
  BY DEF Confirm, Batch, Promoted, Remaining, callVars

LEMMA CountedConfirm ==
    ASSUME TypeOK, CountedOnce, Confirm
    PROVE  CountedOnce'
  <1>1. PICK S : Batch(S)
    BY ConfirmBatch
  <1>2. OnePlace'
    BY <1>1 DEF Batch, CountedOnce, OnePlace
  <1>3. S \in SUBSET Txs /\ stored \ {Genesis} \in SUBSET Txs
    BY <1>1, PlacesInTxs DEF Batch
  <1>4. /\ IsFiniteSet(S) /\ Cardinality(S) \in Nat
        /\ IsFiniteSet(stored \ {Genesis}) /\ Cardinality(stored \ {Genesis}) \in Nat
    BY <1>3, FiniteTxs, Zenon
  <1>5. Genesis \notin S
    BY <1>1 DEF Batch, TypeOK, Genesis
  <1>6. /\ stored' \ {Genesis} = (stored \ {Genesis}) \cup S
        /\ (stored \ {Genesis}) \cap S = {}
    BY <1>1, <1>5 DEF Batch, CountedOnce, OnePlace
  <1>7. Cardinality(stored' \ {Genesis}) = Cardinality(stored \ {Genesis}) + Cardinality(S)
    BY <1>4, <1>6, DisjointUnion, Zenon
  <1>8. QED
    BY <1>1, <1>2, <1>7 DEF Batch, CountedOnce

LEMMA CountedStep == TypeOK /\ CountedOnce /\ [Next]_vars => CountedOnce'
  <1> SUFFICES ASSUME TypeOK, CountedOnce, [Next]_vars PROVE CountedOnce'
    OBVIOUS
  <1>1. CASE ReadTips \/ \E t \in Txs : Approve(t) \/ AddCandidate(t)
    <2>1. txCount' = txCount /\ stored' = stored
      BY <1>1 DEF ReadTips, Approve, AddCandidate, graphVars
    <2>2. QED
      BY <1>1, <2>1, PlacePublish DEF CountedOnce
  <1>2. CASE Confirm
    BY <1>2, CountedConfirm
  <1>3. CASE Tick \/ SkipCycle \/ Expire \/ Cancel \/ Quit \/ UNCHANGED vars
    <2>1. UNCHANGED <<candidates, stored, created, selecting, broadcasting, txCount>>
      BY <1>3 DEF Tick, SkipCycle, Expire, Cancel, Quit, vars, graphVars, callVars
    <2>2. QED
      BY <2>1 DEF CountedOnce, OnePlace
  <1>4. QED
    BY <1>1, <1>2, <1>3 DEF Next

\* No transaction is lost, confirmed twice or counted twice.
THEOREM ConfirmedOnce == Spec => []CountedOnce
  BY CountedInit, CountedStep, TypeCorrect, PTL DEF Spec

-----------------------------------------------------------------------------
(* The parents of a transaction.                                           *)

\* A number that no call has taken yet has no parents.
Unborn == \A t \in Txs : t > created => previous[t] = {}

ParentsInv == ParentsStored /\ Unborn

LEMMA ParentsStep ==
    ASSUME TypeOK, ParentsInv, [Next]_vars
    PROVE  ParentsInv'
  <1>1. CASE ReadTips
    <2>1. created + 1 \in Txs /\ created \in Nat
      BY <1>1 DEF ReadTips, TypeOK, Txs
    <2>2. /\ previous' = [previous EXCEPT ![created + 1] = tips]
          /\ created' = created + 1
          /\ UNCHANGED <<approved, stored>>
      BY <1>1 DEF ReadTips, TipsRead
    <2>3. approved[created + 1] = {}
      BY <2>1 DEF ParentsInv, ParentsStored, Unborn, Txs
    <2>4. ParentsStored'
      BY <2>1, <2>2, <2>3 DEF ParentsInv, ParentsStored, TypeOK
    <2>5. Unborn'
      BY <2>1, <2>2 DEF ParentsInv, Unborn, TypeOK, Txs
    <2>6. QED
      BY <2>4, <2>5 DEF ParentsInv
  <1>2. ASSUME NEW t \in Txs, Approve(t)
        PROVE  ParentsInv'
    <2>1. PICK S \in ApproveChoices(previous[t]) :
              approved' = [approved EXCEPT ![t] = S]
      BY <1>2 DEF Approve
    <2>2. S \subseteq previous[t]
      BY <2>1, ChoicesType, Zenon
    <2>3. UNCHANGED <<previous, stored, created>>
      BY <1>2 DEF Approve
    <2>4. ParentsStored'
      BY <2>1, <2>2, <2>3 DEF ParentsInv, ParentsStored, TypeOK
    <2>5. QED
      BY <2>3, <2>4 DEF ParentsInv, Unborn
  <1>3. CASE Confirm
    <2>1. PICK S : Batch(S)
      BY <1>3, ConfirmBatch
    <2>2. QED
      BY <2>1 DEF Batch, ParentsInv, ParentsStored, Unborn
  <1>4. CASE \/ \E t \in Txs : AddCandidate(t)
             \/ Tick \/ SkipCycle \/ Expire \/ Cancel \/ Quit \/ UNCHANGED vars
    <2>1. UNCHANGED <<previous, approved, stored, created>>
      BY <1>4 DEF AddCandidate, Tick, SkipCycle, Expire, Cancel, Quit, vars,
                  graphVars, callVars
    <2>2. QED
      BY <2>1 DEF ParentsInv, ParentsStored, Unborn
  <1>5. QED
    BY <1>1, <1>2, <1>3, <1>4 DEF Next

LEMMA ParentsAlways == Spec => []ParentsInv
  <1>1. Init => ParentsInv
    BY DEF Init, ParentsInv, ParentsStored, Unborn
  <1>2. QED
    BY <1>1, ParentsStep, TypeCorrect, PTL DEF Spec

\* What a transaction builds on is in the Database from the start.
THEOREM BuildsOnStored == Spec => []ParentsStored
  <1>1. ParentsInv => ParentsStored
    BY DEF ParentsInv
  <1>2. QED
    BY <1>1, ParentsAlways, PTL

-----------------------------------------------------------------------------
(* Depths.                                                                 *)

LEMMA DepthConfirm ==
    ASSUME TypeOK, CountedOnce, ParentsStored, DepthCounts, Confirm
    PROVE  DepthCounts'
  <1>1. PICK S : Batch(S)
    BY ConfirmBatch
  <1> SUFFICES ASSUME NEW t \in stored'
               PROVE  depth'[t] = Cardinality({x \in stored' : t \in previous'[x]})
    BY DEF DepthCounts
  <1> DEFINE Old == {x \in stored : t \in previous[x]}
  <1>2. S \in SUBSET Txs /\ t \in Txs /\ stored \subseteq Txs
    BY <1>1, PlacesInTxs DEF Batch
  <1>3. {x \in stored' : t \in previous'[x]} = Old \cup Supporters(t, S)
    BY <1>1 DEF Batch, Supporters
  <1>4. Old \cap Supporters(t, S) = {}
    BY <1>1 DEF Batch, Supporters, CountedOnce, OnePlace
  <1>5. Old \in SUBSET Txs /\ Supporters(t, S) \in SUBSET Txs
    BY <1>2 DEF Supporters
  <1>6. /\ IsFiniteSet(Old) /\ Cardinality(Old) \in Nat
        /\ IsFiniteSet(Supporters(t, S)) /\ Cardinality(Supporters(t, S)) \in Nat
    BY <1>5, FiniteTxs, Zenon
  <1>7. Cardinality(Old \cup Supporters(t, S))
            = Cardinality(Old) + Cardinality(Supporters(t, S))
    BY <1>4, <1>6, DisjointUnion, Zenon
  <1>8. depth'[t] = (IF t \in S THEN 0 ELSE depth[t]) + Cardinality(Supporters(t, S))
    BY <1>1, <1>2 DEF Batch
  <1>9. CASE t \in S
    <2>1. t \notin stored
      BY <1>1, <1>9 DEF Batch, CountedOnce, OnePlace
    <2>2. Old = {}
      BY <1>2, <2>1 DEF ParentsStored
    <2>3. Cardinality(Old) = 0
      BY <2>2, FS_EmptySet
    <2>4. QED
      BY <1>3, <1>6, <1>7, <1>8, <1>9, <2>3
  <1>10. CASE t \notin S
    <2>1. t \in stored
      BY <1>1, <1>10 DEF Batch
    <2>2. depth[t] = Cardinality(Old)
      BY <2>1 DEF DepthCounts
    <2>3. QED
      BY <1>3, <1>7, <1>8, <1>10, <2>2
  <1>11. QED
    BY <1>9, <1>10

LEMMA DepthStep ==
    ASSUME TypeOK, CountedOnce, ParentsStored, DepthCounts, [Next]_vars
    PROVE  DepthCounts'
  <1>1. CASE ReadTips
    <2>1. /\ previous' = [previous EXCEPT ![created + 1] = TipsRead]
          /\ UNCHANGED <<stored, depth>>
      BY <1>1 DEF ReadTips
    <2>2. \A x \in stored : previous'[x] = previous[x]
      BY <2>1, PlacesInTxs DEF TypeOK
    <2>3. \A t : {x \in stored' : t \in previous'[x]} = {x \in stored : t \in previous[x]}
      BY <2>1, <2>2
    <2>4. QED
      BY <2>1, <2>3 DEF DepthCounts
  <1>2. CASE Confirm
    BY <1>2, DepthConfirm
  <1>3. CASE \/ \E t \in Txs : Approve(t) \/ AddCandidate(t)
             \/ Tick \/ SkipCycle \/ Expire \/ Cancel \/ Quit \/ UNCHANGED vars
    <2>1. UNCHANGED <<previous, stored, depth>>
      BY <1>3 DEF Approve, AddCandidate, Tick, SkipCycle, Expire, Cancel, Quit,
                  vars, graphVars
    <2>2. QED
      BY <2>1 DEF DepthCounts
  <1>4. QED
    BY <1>1, <1>2, <1>3 DEF Next

LEMMA DepthInit == Init => DepthCounts
  <1> SUFFICES ASSUME Init, NEW t \in stored
               PROVE  depth[t] = Cardinality({x \in stored : t \in previous[x]})
    BY DEF DepthCounts
  <1>1. {x \in stored : t \in previous[x]} = {}
    BY DEF Init, Txs, Genesis
  <1>2. depth[t] = 0
    BY DEF Init, Txs, Genesis
  <1>3. QED
    BY <1>1, <1>2, FS_EmptySet

\* What UpdatePreviousTx keeps in Depth, for any transaction at any time: the
\* number of confirmed transactions that saw it as a tip. It is the length of
\* no path and not the number of approvals.
THEOREM DepthIsCount == Spec => []DepthCounts
  BY DepthInit, DepthStep, TypeCorrect, ConfirmedOnce, BuildsOnStored, PTL DEF Spec

-----------------------------------------------------------------------------
(* The ledger.                                                             *)

LEMMA LedgerStep ==
    ASSUME TypeOK, CountedOnce, ParentsStored, [Next]_vars
    PROVE  [Ledger!Extend]_[t \in stored |-> previous[t]]
  <1>1. CASE Confirm
    <2>1. PICK S : Batch(S)
      BY <1>1, ConfirmBatch
    <2> DEFINE links == [t \in S |-> previous[t]]
    <2>2. S \in SUBSET (Txs \ stored)
      BY <2>1, PlacesInTxs DEF Batch, CountedOnce, OnePlace
    <2>3. links \in [S -> SUBSET stored]
      BY <2>2 DEF ParentsStored
    <2>4. [t \in stored' |-> previous'[t]]
              = [t \in stored \cup S |-> IF t \in S THEN links[t]
                                        ELSE [x \in stored |-> previous[x]][t]]
      BY <2>1 DEF Batch
    <2>5. QED
      BY <2>2, <2>3, <2>4 DEF Ledger!Extend, Ledger!Confirmed
  <1>2. CASE ReadTips
    <2>1. /\ previous' = [previous EXCEPT ![created + 1] = TipsRead]
          /\ stored' = stored
      BY <1>2 DEF ReadTips
    <2>2. \A x \in stored : previous'[x] = previous[x]
      BY <2>1, PlacesInTxs DEF TypeOK
    <2>3. QED
      BY <2>1, <2>2
  <1>3. CASE \/ \E t \in Txs : Approve(t) \/ AddCandidate(t)
             \/ Tick \/ SkipCycle \/ Expire \/ Cancel \/ Quit \/ UNCHANGED vars
    <2>1. UNCHANGED <<previous, stored>>
      BY <1>3 DEF Approve, AddCandidate, Tick, SkipCycle, Expire, Cancel, Quit,
                  vars, graphVars
    <2>2. QED
      BY <2>1
  <1>4. QED
    BY <1>1, <1>2, <1>3 DEF Next

\* The confirmed transactions of a node form a growing acyclic graph.
THEOREM ImplementsLedger == Spec => Refinement
  <1>1. Init => Ledger!Init
    BY DEF Init, Ledger!Init, Txs, Genesis
  <1>2. QED
    BY <1>1, LedgerStep, TypeCorrect, ConfirmedOnce, BuildsOnStored,
       PTL DEF Spec, Refinement, Ledger!Spec

\* An abstract batch is linked to what is there only: a set that meets the
\* confirmed ones has a first one among them, any other lies in the batch,
\* where no transaction is the parent of another.
LEMMA AcyclicExtend ==
    ASSUME Ledger!Acyclic, Ledger!Extend
    PROVE  Ledger!Acyclic'
  <1> DEFINE old == [t \in stored |-> previous[t]]
             new == [t \in stored' |-> previous'[t]]
  <1>0. PICK batch \in SUBSET (Txs \ stored) : \E links \in [batch -> SUBSET stored] :
            new = [t \in stored \cup batch |-> IF t \in batch THEN links[t] ELSE old[t]]
    BY DEF Ledger!Extend, Ledger!Confirmed
  <1>1. PICK links \in [batch -> SUBSET stored] :
            new = [t \in stored \cup batch |-> IF t \in batch THEN links[t] ELSE old[t]]
    BY <1>0
  <1>2. /\ \A t \in stored : previous[t] \subseteq stored
        /\ \A S \in (SUBSET stored) \ {{}} : \E t \in S : previous[t] \cap S = {}
    BY DEF Ledger!Acyclic, Ledger!Closed, Ledger!WellFounded, Ledger!Confirmed
  <1>3. /\ stored' = stored \cup batch
        /\ \A t \in stored : previous'[t] = previous[t]
        /\ \A t \in batch : previous'[t] \subseteq stored
    <2>1. stored' = stored \cup batch
      <3>1. DOMAIN new = stored'
        OBVIOUS
      <3>2. QED
        BY <1>1, <3>1
    <2>2. \A t \in stored \cup batch : new[t] = previous'[t]
      BY <2>1
    <2>3. \A t \in stored : new[t] = previous[t]
      BY <1>1
    <2>4. \A t \in batch : new[t] = links[t] /\ links[t] \subseteq stored
      BY <1>1
    <2>5. QED
      BY <2>1, <2>2, <2>3, <2>4
  <1> HIDE DEF old, new
  <1>4. \A t \in stored' : previous'[t] \subseteq stored'
    BY <1>2, <1>3
  <1>5. ASSUME NEW S \in (SUBSET stored') \ {{}}
        PROVE  \E t \in S : previous'[t] \cap S = {}
    <2>1. CASE S \cap stored = {}
      BY <1>3, <1>5, <2>1
    <2>2. CASE S \cap stored # {}
      <3>1. PICK t \in S \cap stored : previous[t] \cap (S \cap stored) = {}
        BY <1>2, <2>2
      <3>2. QED
        BY <1>2, <1>3, <3>1
    <2>3. QED
      BY <2>1, <2>2
  <1>6. QED
    BY <1>4, <1>5 DEF Ledger!Acyclic, Ledger!Closed, Ledger!WellFounded, Ledger!Confirmed

\* Since a node implements DagLedger, its confirmed transactions always form
\* an acyclic graph closed under parents.
THEOREM GraphAcyclic == Spec => []Acyclic
  <1>1. ASSUME Init PROVE Acyclic
    <2>1. \A t \in stored : previous[t] = {}
      BY <1>1, MaximaAssumption DEF Init, Txs, Genesis
    <2>2. QED
      BY <2>1 DEF Acyclic, Ledger!Acyclic, Ledger!Closed, Ledger!WellFounded,
                  Ledger!Confirmed
  <1>2. TypeOK /\ CountedOnce /\ ParentsStored /\ Acyclic /\ [Next]_vars => Acyclic'
    <2> SUFFICES ASSUME TypeOK, CountedOnce, ParentsStored, Acyclic, [Next]_vars
                 PROVE  Acyclic'
      OBVIOUS
    <2>1. CASE Ledger!Extend
      BY <2>1, AcyclicExtend DEF Acyclic
    <2>2. CASE UNCHANGED [t \in stored |-> previous[t]]
      BY <2>2 DEF Acyclic, Ledger!Acyclic, Ledger!Closed, Ledger!WellFounded,
                  Ledger!Confirmed
    <2>3. QED
      BY <2>1, <2>2, LedgerStep
  <1>3. QED
    BY <1>1, <1>2, TypeCorrect, ConfirmedOnce, BuildsOnStored, PTL DEF Spec
=============================================================================
