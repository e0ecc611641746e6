-------------------------- MODULE PbftRequestsProofs --------------------------
(***************************************************************************)
(* Theorems about PbftRequests, for every set of requests and every bound. *)
(***************************************************************************)
EXTENDS PbftRequests, FiniteSetTheorems, TLAPS

USE RequestsAssumption, NumbersAssumption

-----------------------------------------------------------------------------
(* Types.                                                                  *)

LEMMA InitTyped == Init => TypeOK
  <1> SUFFICES ASSUME Init PROVE TypeOK
    OBVIOUS
  <1>1. slips \in 0..MaxSlips
    BY DEF Init
  <1>2. QED
    BY <1>1 DEF Init, TypeOK, Tx

\* A slip is counted within its bound.
LEMMA SlipTyped ==
    ASSUME TypeOK, NEW early \in BOOLEAN, Slip(early)
    PROVE  /\ slips' \in 0..MaxSlips
           /\ slips' = 0 => slips = 0 /\ ~early
  BY DEF TypeOK, Slip

\* What AppendTx adds.
LEMMA AppendTyped ==
    ASSUME TypeOK, NEW r \in Request, AppendTx(r)
    PROVE  /\ made' \in [Request -> Nat]
           /\ made'[r] = made[r] + 1 /\ made[r] \in Nat
           /\ \A q \in Request \ {r} : made'[q] = made[q]
           /\ waiting' = waiting \cup {<<r, made[r] + 1>>}
           /\ <<r, made[r] + 1>> \in Tx
           /\ current' = r /\ r \in work
  BY DEF TypeOK, AppendTx, Tx

LEMMA NextTyped == TypeOK /\ [Next]_vars => TypeOK'
  <1> SUFFICES ASSUME TypeOK, [Next]_vars PROVE TypeOK'
    OBVIOUS
  <1>1. ASSUME NEW r \in Request, Accept(r) PROVE TypeOK'
    BY <1>1 DEF TypeOK, Accept, workVars, roundVars
  <1>2. CASE Alarm
    <2>1. slips' \in 0..MaxSlips
      BY <1>2, SlipTyped DEF Alarm, ResolverRuns
    <2>2. QED
      BY <1>2, <2>1 DEF TypeOK, Alarm, workVars, roundVars
  <1>3. ASSUME NEW r \in Request, Drain(r) PROVE TypeOK'
    BY <1>3 DEF TypeOK, Drain, workVars, roundVars
  <1>4. CASE HandOver
    BY <1>4 DEF TypeOK, HandOver, workVars, roundVars
  <1>5. ASSUME NEW r \in Request, AppendTx(r) PROVE TypeOK'
    <2>1. r \in accepted /\ work' \subseteq accepted /\ current' = r
      BY <1>5 DEF TypeOK, AppendTx
    <2>2. waiting \subseteq Tx
      BY DEF TypeOK
    <2>3. waiting' \subseteq Tx
      BY <1>5, <2>2, AppendTyped, Zenon
    <2>4. made' \in [Request -> Nat]
      BY <1>5, AppendTyped
    <2>5. QED
      BY <1>5, <2>1, <2>3, <2>4 DEF TypeOK, AppendTx, dispVars, roundVars
  <1>6. CASE DelReq
    BY <1>6 DEF TypeOK, DelReq, roundVars
  <1>7. CASE Test
    BY <1>7 DEF TypeOK, Test, dispVars, workVars
  <1>8. CASE Start
    BY <1>8 DEF TypeOK, Start, dispVars, workVars
  <1>9. CASE FinishBroadcast
    BY <1>9 DEF TypeOK, FinishBroadcast, dispVars, workVars
  <1>10. CASE EndRound
    <2>1. slips' \in 0..MaxSlips
      BY <1>10, SlipTyped DEF EndRound
    <2>2. QED
      BY <1>10, <2>1 DEF TypeOK, EndRound, dispVars, workVars
  <1>11. CASE Elapse
    BY <1>11 DEF TypeOK, Elapse, dispVars, workVars
  <1>12. CASE UNCHANGED vars
    BY <1>12 DEF TypeOK, vars, dispVars, workVars, roundVars
  <1>13. QED
    BY <1>1, <1>2, <1>3, <1>4, <1>5, <1>6, <1>7, <1>8, <1>9, <1>10, <1>11, <1>12
       DEF Next, Progress

\* Every variable keeps its type.
THEOREM TypeCorrect == Spec => []TypeOK
  BY InitTyped, NextTyped, PTL DEF Spec

-----------------------------------------------------------------------------
(* No request is lost.                                                     *)

LostInv == NoneLost /\ ResetsProposed /\ CurrentPlaced

LEMMA InitKept == Init => LostInv
  BY DEF Init, LostInv, NoneLost, ResetsProposed, CurrentPlaced

\* A step that leaves the batches and places alone keeps the invariant.
LEMMA SamePlaces ==
    ASSUME LostInv, UNCHANGED <<accepted, pool, work, current, Placed>>,
           batch \subseteq batch', ResetsProposed'
    PROVE  LostInv'
  BY DEF LostInv, NoneLost, CurrentPlaced

LEMMA NextKept == TypeOK /\ LostInv /\ [Next]_vars => LostInv'
  <1> SUFFICES ASSUME TypeOK, LostInv, [Next]_vars PROVE LostInv'
    OBVIOUS
  <1>1. ASSUME NEW r \in Request, Accept(r) PROVE LostInv'
    BY <1>1 DEF LostInv, NoneLost, ResetsProposed, CurrentPlaced, Placed, Accept,
                workVars, roundVars
  <1>2. CASE Alarm
    <2>1. batch = {}
      BY <1>2 DEF TypeOK, Alarm
    <2>2. QED
      BY <1>2, <2>1, SamePlaces DEF Alarm, LostInv, ResetsProposed, Placed, workVars, roundVars
  <1>3. ASSUME NEW r \in Request, Drain(r) PROVE LostInv'
    <2>1. pool' \cup batch' \cup work' = pool \cup batch \cup work
      BY <1>3 DEF TypeOK, Drain, workVars
    <2>2. QED
      BY <1>3, <2>1 DEF LostInv, NoneLost, ResetsProposed, CurrentPlaced, Placed, Drain,
                        workVars, roundVars
  <1>4. CASE HandOver
    <2>1. pool' \cup batch' \cup work' = pool \cup batch \cup work
      BY <1>4 DEF HandOver, ResolverFree
    <2>2. QED
      BY <1>4, <2>1 DEF LostInv, NoneLost, ResetsProposed, CurrentPlaced, Placed, HandOver,
                        roundVars
  <1>5. ASSUME NEW r \in Request, AppendTx(r) PROVE LostInv'
    <2>1. Placed' = Placed \cup {<<r, made[r] + 1>>}
      BY <1>5, AppendTyped DEF Placed, AppendTx, roundVars
    <2>2. /\ UNCHANGED <<accepted, pool, batch, tc>>
          /\ tc # "broadcasting" /\ work' = work \ {r} /\ current' = r
      BY <1>5 DEF AppendTx, dispVars, roundVars
    <2>3. \E t \in Placed' : t[1] = r
      <3>1. <<r, made[r] + 1>> \in Placed' /\ <<r, made[r] + 1>>[1] = r
        BY <2>1
      <3>2. QED
        BY <3>1, Zenon
    <2>4. ASSUME NEW q \in accepted
          PROVE  q \in pool' \cup batch' \cup work' \/ \E t \in Placed' : t[1] = q
      BY <2>1, <2>2, <2>3 DEF LostInv, NoneLost
    <2>5. QED
      BY <2>2, <2>3, <2>4 DEF LostInv, NoneLost, ResetsProposed, CurrentPlaced
  <1>6. CASE DelReq
    <2>1. \E t \in Placed : t[1] = current
      BY <1>6 DEF DelReq, LostInv, CurrentPlaced
    <2>2. UNCHANGED <<accepted, batch, work, Placed, tc, waiting, blocks>>
      BY <1>6 DEF DelReq, Placed, roundVars
    <2>3. NoneLost'
      BY <1>6, <2>1, <2>2 DEF DelReq, LostInv, NoneLost
    <2>4. QED
      BY <1>6, <2>2, <2>3 DEF DelReq, LostInv, ResetsProposed, CurrentPlaced
  <1>7. CASE Test
    BY <1>7, SamePlaces DEF Test, ResetsProposed, Placed, dispVars, workVars
  <1>8. CASE Start
    <2>1. Placed' = Placed
      BY <1>8 DEF Start, Placed
    <2>2. QED
      BY <1>8, <2>1, SamePlaces DEF Start, ResetsProposed, dispVars, workVars
  <1>9. CASE FinishBroadcast
    <2>1. waiting \in blocks
      BY <1>9 DEF FinishBroadcast, LostInv, ResetsProposed
    <2>2. Placed' = Placed
      BY <1>9, <2>1 DEF FinishBroadcast, Placed
    <2>3. QED
      BY <1>9, <2>2, SamePlaces DEF FinishBroadcast, ResetsProposed, dispVars, workVars
  <1>10. CASE EndRound
    BY <1>10, SamePlaces DEF EndRound, LostInv, ResetsProposed, Placed, dispVars, workVars
  <1>11. CASE Elapse
    BY <1>11, SamePlaces DEF Elapse, LostInv, ResetsProposed, Placed, dispVars, workVars
  <1>12. CASE UNCHANGED vars
    BY <1>12, SamePlaces DEF LostInv, ResetsProposed, Placed, vars, dispVars, workVars, roundVars
  <1>13. QED
    BY <1>1, <1>2, <1>3, <1>4, <1>5, <1>6, <1>7, <1>8, <1>9, <1>10, <1>11, <1>12
       DEF Next, Progress

\* The half drained pool and the reset of the waiting transactions lose nothing.
THEOREM NothingLost == Spec => []NoneLost
  <1>1. Spec => []LostInv
    BY TypeCorrect, InitKept, NextKept, PTL DEF Spec
  <1>2. LostInv => NoneLost
    BY DEF LostInv
  <1>3. QED
    BY <1>1, <1>2, PTL

-----------------------------------------------------------------------------
(* No transaction is in two blocks.                                        *)

LEMMA InitNumbered == Init => Numbered /\ InOneBlock
  BY DEF Init, Numbered, InOneBlock, Placed

LEMMA NextNumbered ==
    TypeOK /\ Numbered /\ InOneBlock /\ [Next]_vars => (Numbered /\ InOneBlock)'
  <1> SUFFICES ASSUME TypeOK, Numbered, InOneBlock, [Next]_vars
               PROVE  (Numbered /\ InOneBlock)'
    OBVIOUS
  <1>1. CASE UNCHANGED <<made, waiting, blocks, tc>>
    BY <1>1 DEF Numbered, InOneBlock, Placed
  <1>2. ASSUME NEW r \in Request, AppendTx(r) PROVE (Numbered /\ InOneBlock)'
    <2> DEFINE t == <<r, made[r] + 1>>
    <2>1. waiting' = waiting \cup {t} /\ blocks' = blocks /\ tc' = tc /\ tc # "broadcasting"
      BY <1>2, AppendTyped DEF AppendTx, roundVars
    <2>2. Placed' = Placed \cup {t} /\ Placed \subseteq Tx
      BY <2>1 DEF TypeOK, Placed
    <2>3. t[1] = r /\ t[2] = made[r] + 1 /\ made[r] \in Nat /\ made'[r] = made[r] + 1
      BY <1>2, AppendTyped
    <2>4. t \notin Placed
      <3>1. ~(made[r] + 1 <= made[r])
        BY <2>3
      <3>2. QED
        BY <2>3, <3>1 DEF Numbered
    <2>5. InOneBlock'
      BY <2>1, <2>4 DEF InOneBlock, Placed
    <2>6. ASSUME NEW x \in Placed' PROVE x[2] <= made'[x[1]]
      <3>1. CASE x = t
        BY <2>3, <3>1
      <3>2. CASE x \in Placed
        <4>1. x[1] \in Request /\ x[2] \in Nat /\ x[2] <= made[x[1]]
          BY <2>2, <3>2 DEF Numbered, Tx
        <4>2. ASSUME NEW q \in Request
              PROVE  made[q] \in Nat /\ made'[q] \in Nat /\ made[q] <= made'[q]
          <5>1. made[q] \in Nat /\ (made'[q] = made[q] \/ made'[q] = made[q] + 1)
            BY <1>2, AppendTyped DEF TypeOK
          <5>2. QED
            BY <5>1
        <4>3. QED
          BY <4>1, <4>2
      <3>3. QED
        BY <2>2, <3>1, <3>2
    <2>7. QED
      BY <2>5, <2>6 DEF Numbered
  <1>3. CASE Test
    BY <1>3 DEF Test, Numbered, InOneBlock, Placed, workVars
  <1>4. CASE Start
    <2>1. Placed' = Placed /\ made' = made
      BY <1>4 DEF Start, Placed, workVars
    <2>2. waiting \cap UNION blocks = {} /\ tc' = "broadcasting"
          /\ blocks' = blocks \cup {waiting}
      BY <1>4 DEF Start, InOneBlock
    <2>3. InOneBlock'
      BY <2>2 DEF InOneBlock
    <2>4. QED
      BY <2>1, <2>3 DEF Numbered
  <1>5. CASE FinishBroadcast
    <2>1. Placed' \subseteq Placed /\ made' = made
      BY <1>5 DEF FinishBroadcast, Placed, workVars
    <2>2. QED
      BY <1>5, <2>1 DEF FinishBroadcast, Numbered, InOneBlock
  <1>6. QED
    BY <1>1, <1>2, <1>3, <1>4, <1>5
       DEF Next, Progress, Accept, Alarm, Drain, HandOver, DelReq, EndRound, Elapse,
           vars, workVars, roundVars

\* A block has transactions that no other block has, and that no longer wait.
THEOREM NotTwice == Spec => []InOneBlock
  <1>1. Spec => [](Numbered /\ InOneBlock)
    BY TypeCorrect, InitNumbered, NextNumbered, PTL DEF Spec
  <1>2. QED
    BY <1>1, PTL

-----------------------------------------------------------------------------
(* A request becomes one transaction.                                      *)

OnceInv == HandedOnce /\ MadeOnce

LEMMA InitOnce == Init => OnceInv
  BY DEF Init, OnceInv, HandedOnce, MadeOnce, ResolverFree

LEMMA NextOnce == TypeOK /\ OnceInv /\ [Next]_vars => OnceInv'
  <1> SUFFICES ASSUME TypeOK, OnceInv, [Next]_vars PROVE OnceInv'
    OBVIOUS
  <1>1. ASSUME NEW r \in Request, Accept(r) PROVE OnceInv'
    BY <1>1 DEF OnceInv, HandedOnce, MadeOnce, ResolverFree, Accept, workVars, roundVars
  <1>2. CASE Alarm
    <2>1. slips' = 0 => slips = 0 /\ ~ResolverRuns
      BY <1>2, SlipTyped DEF Alarm, ResolverRuns
    <2>2. slips' = 0 => ResolverFree
      BY <1>2, <2>1 DEF Alarm, ResolverRuns, ResolverFree, OnceInv, HandedOnce
    <2>3. UNCHANGED <<accepted, pool, work, current, made, tc, stage>> /\ batch' = pool
      BY <1>2 DEF Alarm, workVars, roundVars
    <2>4. None \notin pool
      BY DEF TypeOK
    <2>5. slips' = 0 => \A r \in pool : made[r] = 0
      BY <2>1, <2>2, <2>4 DEF OnceInv, HandedOnce, ResolverFree
    <2>6. QED
      BY <2>1, <2>2, <2>3, <2>5 DEF OnceInv, HandedOnce, MadeOnce, ResolverFree
  <1>3. ASSUME NEW r \in Request, Drain(r) PROVE OnceInv'
    BY <1>3 DEF OnceInv, HandedOnce, MadeOnce, ResolverFree, Drain, workVars, roundVars
  <1>4. CASE HandOver
    BY <1>4 DEF OnceInv, HandedOnce, MadeOnce, ResolverFree, HandOver, roundVars
  <1>5. ASSUME NEW r \in Request, AppendTx(r) PROVE OnceInv'
    <2>1. /\ UNCHANGED <<accepted, pool, disp, batch, tc, stage, slips>>
          /\ current = None /\ r \in work /\ work' = work \ {r} /\ current' = r
      BY <1>5 DEF AppendTx, dispVars, roundVars
    <2>2. /\ made'[r] = made[r] + 1
          /\ \A q \in Request \ {r} : made'[q] = made[q]
      BY <1>5, AppendTyped
    <2>3. r \in accepted /\ pool \subseteq Request /\ batch \subseteq Request
          /\ work \subseteq Request /\ None \notin pool
      BY <2>1 DEF TypeOK
    <2>4. slips = 0 => disp # "draining" /\ batch = {} /\ made[r] = 0
      BY <2>1 DEF TypeOK, OnceInv, HandedOnce, ResolverFree
    <2>5. HandedOnce'
      BY <2>1, <2>2, <2>3, <2>4 DEF OnceInv, HandedOnce
    <2>6. MadeOnce'
      BY <2>1, <2>2, <2>4 DEF OnceInv, MadeOnce
    <2>7. QED
      BY <2>5, <2>6 DEF OnceInv
  <1>6. CASE DelReq
    <2>1. pool' \ {current'} \subseteq pool \ {current}
      BY <1>6 DEF DelReq
    <2>2. slips = 0 => disp # "draining"
      BY <1>6 DEF DelReq, OnceInv, HandedOnce, ResolverFree
    <2>3. QED
      BY <1>6, <2>1, <2>2 DEF DelReq, OnceInv, HandedOnce, MadeOnce, roundVars
  <1>7. CASE Test
    BY <1>7 DEF OnceInv, HandedOnce, MadeOnce, ResolverFree, Test, dispVars, workVars
  <1>8. CASE Start
    BY <1>8 DEF OnceInv, HandedOnce, MadeOnce, ResolverFree, Start, dispVars, workVars
  <1>9. CASE FinishBroadcast
    BY <1>9 DEF OnceInv, HandedOnce, MadeOnce, ResolverFree, FinishBroadcast, dispVars, workVars
  <1>10. CASE EndRound
    <2>1. slips' = 0 => slips = 0 /\ tc # "broadcasting"
      BY <1>10, SlipTyped DEF EndRound
    <2>2. QED
      BY <1>10, <2>1 DEF OnceInv, HandedOnce, MadeOnce, ResolverFree, EndRound,
                         dispVars, workVars
  <1>11. CASE Elapse
    BY <1>11 DEF OnceInv, HandedOnce, MadeOnce, ResolverFree, Elapse, dispVars, workVars
  <1>12. CASE UNCHANGED vars
    BY <1>12 DEF OnceInv, HandedOnce, MadeOnce, ResolverFree, vars, dispVars, workVars, roundVars
  <1>13. QED
    BY <1>1, <1>2, <1>3, <1>4, <1>5, <1>6, <1>7, <1>8, <1>9, <1>10, <1>11, <1>12
       DEF Next, Progress

\* As long as no alarm finds the resolver at work, no request is executed twice.
THEOREM OneTransaction == Spec => []MadeOnce
  <1>1. Spec => []OnceInv
    BY TypeCorrect, InitOnce, NextOnce, PTL DEF Spec
  <1>2. OnceInv => MadeOnce
    BY DEF OnceInv
  <1>3. QED
    BY <1>1, <1>2, PTL

-----------------------------------------------------------------------------
(* Blocks are proposed when they are due.                                  *)

\* A set that grows stays as large as it has to be.
LEMMA GrowsLarge ==
    ASSUME NEW S, IsFiniteSet(S), NEW x
    PROVE  /\ IsFiniteSet(S \cup {x})
           /\ Cardinality(S \cup {x}) \in Nat /\ Cardinality(S) \in Nat
           /\ Cardinality(S) <= Cardinality(S \cup {x})
  <1>1. IsFiniteSet(S \cup {x})
    BY FS_AddElement, Zenon
  <1>2. S \subseteq S \cup {x}
    OBVIOUS
  <1>3. QED
    BY <1>1, <1>2, FS_Subset, FS_CardinalityType, Zenon

LEMMA EmptyNotDue == ASSUME waiting = {} PROVE ~Due
  <1>1. Cardinality(waiting) = 0
    BY FS_EmptySet, Zenon
  <1>2. QED
    BY <1>1 DEF Due

LEMMA InitDue == Init => DueStays /\ BlocksDue
  <1> SUFFICES ASSUME Init PROVE DueStays /\ BlocksDue
    OBVIOUS
  <1>1. IsFiniteSet(waiting)
    BY FS_EmptySet, Zenon DEF Init
  <1>2. QED
    BY <1>1 DEF Init, DueStays, BlocksDue

LEMMA NextDue == DueStays /\ BlocksDue /\ [Next]_vars => (DueStays /\ BlocksDue)'
  <1> SUFFICES ASSUME DueStays, BlocksDue, [Next]_vars PROVE (DueStays /\ BlocksDue)'
    OBVIOUS
  <1>1. CASE UNCHANGED <<waiting, blocks, tc, overdue>>
    BY <1>1 DEF DueStays, BlocksDue, Due
  <1>2. ASSUME NEW r \in Request, AppendTx(r) PROVE (DueStays /\ BlocksDue)'
    <2>1. PICK t : waiting' = waiting \cup {t}
      BY <1>2 DEF AppendTx
    <2>2. UNCHANGED <<blocks, tc, overdue>>
      BY <1>2 DEF AppendTx, roundVars
    <2>3. /\ IsFiniteSet(waiting')
          /\ Cardinality(waiting') \in Nat /\ Cardinality(waiting) \in Nat
          /\ Cardinality(waiting) <= Cardinality(waiting')
      BY <2>1, GrowsLarge DEF DueStays
    <2>4. Due => Due'
      BY <2>1, <2>2, <2>3 DEF Due
    <2>5. QED
      BY <2>2, <2>3, <2>4 DEF DueStays, BlocksDue
  <1>3. CASE Test
    BY <1>3 DEF Test, DueStays, BlocksDue, Due
  <1>4. CASE Start
    <2>1. Due /\ waiting # {}
      BY <1>4, EmptyNotDue DEF Start, DueStays
    <2>2. blocks' = blocks \cup {waiting} /\ UNCHANGED <<waiting, overdue>>
          /\ tc' = "broadcasting"
      BY <1>4 DEF Start
    <2>3. QED
      BY <2>1, <2>2 DEF Due, DueStays, BlocksDue
  <1>5. CASE FinishBroadcast
    <2>1. IsFiniteSet(waiting')
      BY <1>5, FS_EmptySet, Zenon DEF FinishBroadcast
    <2>2. QED
      BY <1>5, <2>1 DEF FinishBroadcast, DueStays, BlocksDue
  <1>6. CASE Elapse
    BY <1>6 DEF Elapse, DueStays, BlocksDue, Due
  <1>7. QED
    BY <1>1, <1>2, <1>3, <1>4, <1>5, <1>6
       DEF Next, Progress, Accept, Alarm, Drain, HandOver, DelReq, EndRound, vars, roundVars

\* No block is empty, and a small one is proposed after MaxWaitingTx only.
THEOREM DueBlocks == Spec => []BlocksDue
  <1>1. Spec => [](DueStays /\ BlocksDue)
    BY InitDue, NextDue, PTL DEF Spec
  <1>2. QED
    BY <1>1, PTL

-----------------------------------------------------------------------------
(* No deadlock.                                                            *)

LEMMA InitDrains == Init => DrainsCopy
  BY DEF Init, DrainsCopy

LEMMA NextDrains == DrainsCopy /\ [Next]_vars => DrainsCopy'
  BY DEF DrainsCopy, Next, Progress, Accept, Alarm, Drain, HandOver, AppendTx, DelReq,
         Test, Start, FinishBroadcast, EndRound, Elapse, vars, dispVars, workVars

\* A drain loop that has passed its whole copy stops.
LEMMA DrainEnds ==
    ASSUME TypeOK, DrainsCopy, disp = "draining", ahead = {}
    PROVE  ~DrainOn
  <1>1. IsFiniteSet(batch)
    BY FS_Subset, Zenon DEF TypeOK
  <1>2. /\ Cardinality(pool) <= Cardinality(batch)
        /\ Cardinality(pool) \in Nat /\ Cardinality(batch) \in Nat
    BY <1>1, FS_Subset, FS_CardinalityType, Zenon DEF DrainsCopy
  <1>3. batch \ ahead = batch
    OBVIOUS
  <1>4. QED
    BY <1>2, <1>3 DEF DrainOn

\* Whoever waits at MsgDelivery or at the mutex waits for one that goes on; when
\* all are at rest, the request is in the pool or among the transactions.
LEMMA SomethingMoves == TypeOK /\ NoneLost /\ DrainsCopy => NotStuck
  <1> SUFFICES ASSUME TypeOK, NoneLost, DrainsCopy, overdue, NEW r \in Unproposed, ~GoesOn
               PROVE  FALSE
    BY DEF NotStuck
  <1>1. tc = "watching"
    BY DEF GoesOn
  <1>2. current = None /\ work = {}
    BY <1>1 DEF GoesOn, ResolverRuns
  <1>3. ResolverFree
    BY <1>2 DEF ResolverFree
  <1>4. disp = "ready"
    <2>1. CASE disp = "draining"
      <3>1. DrainOn /\ ahead = {}
        BY <1>3, <2>1 DEF GoesOn
      <3>2. QED
        BY <2>1, <3>1, DrainEnds
    <2>2. QED
      BY <2>1 DEF TypeOK
  <1>5. stage = "Idle"
    BY <1>3, <1>4 DEF GoesOn, TypeOK
  <1>6. pool = {} /\ batch = {}
    BY <1>1, <1>2, <1>4, <1>5 DEF GoesOn, ResolverRuns, TypeOK
  <1>7. r \in accepted /\ \A t \in UNION blocks : t[1] # r
    BY DEF Unproposed
  <1>8. waiting # {}
    BY <1>2, <1>6, <1>7 DEF NoneLost, Placed
  <1>9. Due
    BY <1>8 DEF Due
  <1>10. QED
    BY <1>5, <1>9 DEF GoesOn

\* The intake never deadlocks: the dispatcher waits for the resolver and the
\* resolver for a broadcast, but not the other way round (node.go:511, 253).
THEOREM NoDeadlock == Spec => []NotStuck
  <1>1. Spec => []DrainsCopy
    BY InitDrains, NextDrains, PTL DEF Spec
  <1>2. QED
    BY <1>1, SomethingMoves, TypeCorrect, NothingLost, PTL
=============================================================================
