-------------------------- MODULE RaftFrontEndProofs --------------------------
(***************************************************************************)
(* Theorems about RaftFrontEnd, for every set of nodes and transactions,   *)
(* every size of a batch and every bound.                                  *)
(***************************************************************************)
EXTENDS RaftFrontEnd, FiniteSetTheorems, SequenceTheorems, TLAPS

USE SetsAssumption, NumbersAssumption

-----------------------------------------------------------------------------
(* Lemmas on sequences.                                                    *)

LEMMA PrefixPointwise ==
    ASSUME NEW s \in Seq(Tx), NEW t \in Seq(Tx)
    PROVE  IsPrefix(s, t) <=> Len(s) <= Len(t) /\ \A i \in 1..Len(s) : s[i] = t[i]
  <1>1. SUFFICES ASSUME Len(s) <= Len(t)
                 PROVE  (SubSeq(s, 1, Len(s)) = SubSeq(t, 1, Len(s)))
                          <=> \A i \in 1..Len(s) : s[i] = t[i]
    BY DEF IsPrefix
  <1>2. SubSeq(s, 1, Len(s)) = [i \in 1..Len(s) |-> s[i]]
    OBVIOUS
  <1>3. SubSeq(t, 1, Len(s)) = [i \in 1..Len(s) |-> t[i]]
    OBVIOUS
  <1>4. QED
    BY <1>2, <1>3

LEMMA ToSetAppend ==
    ASSUME NEW S, NEW s \in Seq(S), NEW x \in S
    PROVE  ToSet(Append(s, x)) = ToSet(s) \cup {x}
  <1>1. DOMAIN Append(s, x) = DOMAIN s \cup {Len(s) + 1}
    OBVIOUS
  <1>2. \A i \in DOMAIN s : Append(s, x)[i] = s[i]
    OBVIOUS
  <1>3. Append(s, x)[Len(s) + 1] = x
    OBVIOUS
  <1>4. QED
    BY <1>1, <1>2, <1>3, Zenon DEF ToSet

LEMMA InjectiveAppend ==
    ASSUME NEW S, NEW s \in Seq(S), NEW x \in S, IsInjective(s), x \notin ToSet(s)
    PROVE  IsInjective(Append(s, x))
  BY DEF IsInjective, ToSet

LEMMA ToSetTail ==
    ASSUME NEW S, NEW s \in Seq(S), s # <<>>
    PROVE  Head(s) \in ToSet(s) /\ ToSet(s) = {Head(s)} \cup ToSet(Tail(s))
  <1>1. Head(s) = s[1] /\ 1 \in DOMAIN s
    OBVIOUS
  <1>2. \A i \in DOMAIN Tail(s) : i + 1 \in DOMAIN s /\ Tail(s)[i] = s[i + 1]
    OBVIOUS
  <1>3. \A i \in DOMAIN s : i = 1 \/ (i - 1 \in DOMAIN Tail(s) /\ Tail(s)[i - 1] = s[i])
    OBVIOUS
  <1>4. ToSet(s) \subseteq {Head(s)} \cup ToSet(Tail(s))
    <2> SUFFICES ASSUME NEW i \in DOMAIN s
                 PROVE  s[i] \in {Head(s)} \cup ToSet(Tail(s))
      BY DEF ToSet
    <2>1. QED
      BY <1>1, <1>3 DEF ToSet
  <1>5. QED
    BY <1>1, <1>2, <1>4 DEF ToSet

LEMMA InjectiveTail ==
    ASSUME NEW S, NEW s \in Seq(S), s # <<>>, IsInjective(s)
    PROVE  IsInjective(Tail(s)) /\ Head(s) \notin ToSet(Tail(s))
  BY DEF IsInjective, ToSet

\* A sequence made of a set of transactions repeats none.
LEMMA OrderedSet ==
    ASSUME NEW T \in SUBSET Tx, NEW q \in SetToSeqs(T)
    PROVE  q \in Seq(Tx) /\ IsInjective(q) /\ ToSet(q) \subseteq T
  <1>1. IsFiniteSet(T)
    BY FS_Subset, Zenon
  <1>2. Cardinality(T) \in Nat
    BY <1>1, FS_CardinalityType, Zenon
  <1>3. q \in [1..Cardinality(T) -> T]
    BY DEF SetToSeqs
  <1>4. q \in Seq(T)
    BY <1>2, <1>3, IsASeq
  <1>5. QED
    BY <1>3, <1>4, <1>2 DEF SetToSeqs, IsInjective, ToSet

-----------------------------------------------------------------------------
(* Types.                                                                  *)

LEMMA TypeInit == Init => TypeOK
  BY DEF Init, TypeOK, HandlersTyped, LogTyped, DataTyped, MutexHeld, Step, Fate, Boot, NoIndex

LEMMA LostType ==
    ASSUME HandlersTyped, NEW T \in SUBSET Tx
    PROVE  Lost(T) \in [Tx -> Fate]
  BY DEF HandlersTyped, Lost, Fate

LEMMA LogKept == LogTyped /\ UNCHANGED logVars => LogTyped'
  BY DEF LogTyped, logVars

LEMMA DataKept == DataTyped /\ UNCHANGED <<fsmVars, snapVars>> => DataTyped'
  BY DEF DataTyped, fsmVars, snapVars

\* Leaving the leadership keeps the types of the log.
LEMMA AbandonType ==
    ASSUME LogTyped, NEW n \in Node, Abandon(n), rlog' = rlog
    PROVE  LogTyped'
  <1>1. ToSet(queue) \subseteq Tx
    BY DEF LogTyped, ToSet
  <1>2. CASE n = leader
    BY <1>1, <1>2 DEF LogTyped, Abandon
  <1>3. CASE n # leader
    BY <1>3 DEF LogTyped, Abandon
  <1>4. QED
    BY <1>2, <1>3

\* What the submission of x by t does to the handlers.
LEMMA SubmitEffects ==
    ASSUME HandlersTyped, NEW t \in Tx, NEW x \in todo[t], Submit(t, x)
    PROVE  /\ x \in Tx /\ at[t] \in Node /\ UNCHANGED <<at, step, locked>>
           /\ step[t] = "draining" /\ awaited[t] = None
           /\ pool' = [pool EXCEPT ![at[t]] = @ \ {x}]
           /\ future'[x] \in {"pending", "rejected"}
           /\ \A y \in Tx \ {x} : future'[y] = future[y]
           /\ \A u \in Tx \ {t} : todo'[u] = todo[u] /\ awaited'[u] = awaited[u]
           /\ \/ awaited'[t] = x /\ todo'[t] = todo[t]
              \/ awaited'[t] = None /\ todo'[t] = todo[t] \ {x}
  <1>1. x \in Tx /\ at[t] \in Node
    BY DEF HandlersTyped
  <1>2. /\ UNCHANGED <<at, step, locked>> /\ step[t] = "draining" /\ awaited[t] = None
        /\ pool' = [pool EXCEPT ![at[t]] = @ \ {x}]
    BY DEF Submit, Without
  <1>3. CASE awaited' = [awaited EXCEPT ![t] = x] /\ UNCHANGED todo
             /\ future' = [future EXCEPT ![x] = "pending"]
    BY <1>1, <1>2, <1>3 DEF HandlersTyped
  <1>4. CASE todo' = [todo EXCEPT ![t] = @ \ {x}] /\ UNCHANGED awaited
             /\ future' = [future EXCEPT ![x] = "rejected"]
    BY <1>1, <1>2, <1>4 DEF HandlersTyped
  <1>5. QED
    BY <1>3, <1>4 DEF Submit

LEMMA HandlerType ==
    ASSUME TypeOK, NEW t \in Tx, Handler(t)
    PROVE  TypeOK'
  <1>1. CASE Arrive(t)
    <2>1. HandlersTyped'
      BY <1>1 DEF Arrive, TypeOK, HandlersTyped, Load, Step, poolVars
    <2>2. awaited[t] = None
      BY <1>1 DEF Arrive, TypeOK, MutexHeld
    <2>3. MutexHeld'
      BY <1>1, <2>2 DEF Arrive, TypeOK, HandlersTyped, MutexHeld, poolVars
    <2>4. QED
      BY <1>1, <2>1, <2>3, LogKept, DataKept DEF Arrive, TypeOK
  <1>2. CASE Add(t)
    <2>1. HandlersTyped' /\ MutexHeld'
      BY <1>2 DEF Add, TypeOK, HandlersTyped, MutexHeld, Step
    <2>2. QED
      BY <1>2, <2>1, LogKept, DataKept DEF Add, TypeOK
  <1>3. CASE Test(t)
    <2>1. HandlersTyped' /\ MutexHeld'
      BY <1>3 DEF Test, TypeOK, HandlersTyped, MutexHeld, Step, poolVars
    <2>2. QED
      BY <1>3, <2>1, LogKept, DataKept DEF Test, TypeOK
  <1>4. CASE Collect(t)
    <2>1. HandlersTyped'
      BY <1>4 DEF Collect, Collected, TypeOK, HandlersTyped, Step
    <2>2. awaited[t] = None
      BY <1>4 DEF Collect, TypeOK, MutexHeld
    <2>3. MutexHeld'
      BY <1>4, <2>2 DEF Collect, Collected, MutexFree, TypeOK, HandlersTyped, MutexHeld
    <2>4. QED
      BY <1>4, <2>1, <2>3, LogKept, DataKept DEF Collect, TypeOK
  <1>5. CASE \E x \in todo[t] : Submit(t, x)
    <2>1. PICK x \in todo[t] : Submit(t, x)
      BY <1>5
    <2>2. x \in Tx
      BY DEF TypeOK, HandlersTyped
    <2>3. HandlersTyped' /\ MutexHeld'
      <3>1. HandlersTyped'
        BY <2>1, <2>2 DEF Submit, Without, TypeOK, HandlersTyped, Fate
      <3>2. /\ UNCHANGED <<at, step, locked>> /\ step[t] = "draining"
            /\ \A u \in Tx \ {t} : todo'[u] = todo[u] /\ awaited'[u] = awaited[u]
            /\ awaited'[t] # None => awaited'[t] \in todo'[t]
        BY <2>1, SubmitEffects DEF TypeOK
      <3>3. MutexHeld'
        BY <3>2 DEF TypeOK, MutexHeld
      <3>4. QED
        BY <3>1, <3>3
    <2>4. LogTyped'
      <3>1. CASE UNCHANGED <<queue, doubt>>
        BY <2>1, <3>1, LogKept DEF Submit, TypeOK, logVars
      <3>2. CASE at[t] = leader /\ queue' = Append(queue, x) /\ UNCHANGED doubt
        BY <2>1, <2>2, <3>2 DEF Submit, TypeOK, HandlersTyped, LogTyped
      <3>3. CASE doubt' = doubt \cup {x} /\ UNCHANGED queue
        BY <2>1, <2>2, <3>3 DEF Submit, TypeOK, LogTyped
      <3>4. QED
        BY <2>1, <3>1, <3>2, <3>3 DEF Submit
    <2>5. QED
      BY <2>1, <2>3, <2>4, DataKept DEF Submit, TypeOK
  <1>6. CASE Finish(t)
    <2>1. HandlersTyped' /\ MutexHeld'
      BY <1>6 DEF Finish, TypeOK, HandlersTyped, MutexHeld, poolVars
    <2>2. QED
      BY <1>6, <2>1, LogKept, DataKept DEF Finish, TypeOK
  <1>7. CASE Answer(t)
    <2>1. HandlersTyped' /\ MutexHeld'
      BY <1>7 DEF Answer, Unlocked, TypeOK, HandlersTyped, MutexHeld, Step
    <2>2. QED
      BY <1>7, <2>1, LogKept, DataKept DEF Answer, TypeOK
  <1>8. QED
    BY <1>1, <1>2, <1>3, <1>4, <1>5, <1>6, <1>7 DEF Handler

\* The handlers' variables keep their types if only futures and the bounded
\* counter change.
LEMMA HandlersKept ==
    ASSUME TypeOK, UNCHANGED <<at, step, todo, awaited, poolVars>>,
           future' \in [Tx -> Fate], load' \in Nat
    PROVE  HandlersTyped' /\ MutexHeld'
  BY DEF TypeOK, HandlersTyped, MutexHeld, poolVars

LEMMA RaftType ==
    ASSUME TypeOK, NEW n \in Node, Raft(n)
    PROVE  TypeOK'
  <1> USE DEF TypeOK
  <1>0. /\ future \in [Tx -> Fate] /\ load \in Nat
        /\ Load => load' \in Nat
    BY DEF HandlersTyped, Load
  <1>1. CASE Elect(n)
    <2>1. PICK kept \in SUBSET (doubt \cup ToSet(queue)) : \E q \in SetToSeqs(kept) :
              queue' = q /\ doubt' = (doubt \cup ToSet(queue)) \ ToSet(q)
      BY <1>1 DEF Elect
    <2>2. kept \in SUBSET Tx /\ doubt' \subseteq Tx
      BY <2>1 DEF LogTyped, ToSet
    <2>3. queue' \in Seq(Tx)
      BY <2>1, <2>2, OrderedSet
    <2>4. LogTyped'
      BY <1>1, <2>2, <2>3 DEF Elect, LogTyped
    <2>5. HandlersTyped' /\ MutexHeld'
      BY <1>0, <1>1, HandlersKept DEF Elect, handlerVars
    <2>6. QED
      BY <1>1, <2>4, <2>5, DataKept DEF Elect
  <1>2. CASE StepDown(n)
    <2>1. future' \in [Tx -> Fate]
      BY <1>2, LostType DEF StepDown, Owed
    <2>2. QED
      BY <1>0, <1>2, <2>1, AbandonType, HandlersKept, DataKept DEF StepDown
  <1>3. CASE ApplyNext(n)
    <2>1. rlog[applied[n] + 1] \in Tx
      BY <1>3 DEF ApplyNext, LogTyped, DataTyped
    <2>2. applied[n] \in Nat /\ db[n] \in Seq(Tx)
      BY DEF DataTyped
    <2>3. DataTyped'
      BY <1>3, <2>1, <2>2 DEF ApplyNext, FsmApply, DataTyped, snapVars
    <2>4. future' \in [Tx -> Fate]
      BY <1>0, <1>3 DEF ApplyNext, Fate
    <2>5. QED
      BY <1>0, <1>3, <2>3, <2>4, LogKept, HandlersKept DEF ApplyNext
  <1>4. CASE Snapshot(n)
    <2>1. DataTyped'
      BY <1>4 DEF Snapshot, DataTyped, fsmVars
    <2>2. QED
      BY <1>0, <1>4, <2>1, LogKept, HandlersKept DEF Snapshot, handlerVars
  <1>5. CASE Persist(n)
    <2>1. snapping[n] \in Nat /\ db[n] \in Seq(Tx)
      BY <1>5 DEF Persist, DataTyped
    <2>2. DataTyped'
      BY <1>5, <2>1 DEF Persist, Persisted, DataTyped, fsmVars
    <2>3. QED
      BY <1>0, <1>5, <2>2, LogKept, HandlersKept DEF Persist, handlerVars
  <1>6. CASE InstallSnapshot(n)
    <2>1. snap[leader] \in [index : Nat, data : Seq(Tx)]
      BY <1>6 DEF InstallSnapshot, LogTyped, DataTyped
    <2>2. snap[leader].index \in Nat
      BY <2>1
    <2>3. DataTyped'
      BY <1>6, <2>1, <2>2 DEF InstallSnapshot, Restore, DataTyped, Boot
    <2>4. QED
      BY <1>0, <1>6, <2>3, LogKept, HandlersKept DEF InstallSnapshot, handlerVars
  <1>7. CASE Restart(n)
    <2>1. future' \in [Tx -> Fate]
      BY <1>7, LostType DEF Restart, Owed
    <2>2. HandlersTyped'
      BY <1>0, <1>7, <2>1 DEF Restart, HandlersTyped, Step
    <2>3. MutexHeld'
      BY <1>7 DEF Restart, MutexHeld, HandlersTyped
    <2>4. snap[n].index \in Nat
      BY DEF DataTyped
    <2>5. DataTyped'
      BY <1>7, <2>4 DEF Restart, DataTyped, Restore, NewDatabase, Boot
    <2>6. QED
      BY <1>7, <2>2, <2>3, <2>5, AbandonType DEF Restart
  <1>8. QED
    BY <1>1, <1>2, <1>3, <1>4, <1>5, <1>6, <1>7 DEF Raft

LEMMA CommitType == TypeOK /\ Commit => TypeOK'
  <1> SUFFICES ASSUME TypeOK, Commit PROVE TypeOK'
    OBVIOUS
  <1>1. LogTyped'
    BY DEF Commit, TypeOK, LogTyped
  <1>2. future' \in [Tx -> Fate] /\ load' \in Nat
    BY DEF Commit, TypeOK, HandlersTyped, Fate
  <1>3. QED
    BY <1>1, <1>2, HandlersKept, DataKept DEF Commit, TypeOK

LEMMA TypeStep == TypeOK /\ [Next]_vars => TypeOK'
  <1>1. ASSUME TypeOK, UNCHANGED vars PROVE TypeOK'
    BY <1>1, LogKept, DataKept DEF TypeOK, HandlersTyped, MutexHeld, vars, handlerVars, poolVars
  <1>2. QED
    BY <1>1, HandlerType, RaftType, CommitType DEF Next

\* Every variable has its type; a mutex is held by a handler at work.
THEOREM TypeCorrect == Spec => []TypeOK
  BY TypeInit, TypeStep, PTL DEF Spec

-----------------------------------------------------------------------------
(* Who works on what.                                                      *)

LEMMA WorkInit == Init => WorkOwned
  BY DEF Init, WorkOwned, Unborn, PoolFresh, DrainsPool, DirectAlone

\* What only completes or fails pending futures leaves the work alone.
LEMMA WorkKept ==
    ASSUME HandlersTyped, WorkOwned, UNCHANGED <<at, step, todo, awaited, poolVars>>,
           \A t \in Tx : future[t] = "none" => future'[t] = "none"
    PROVE  WorkOwned'
  <1>1. Unborn'
    BY DEF WorkOwned, Unborn
  <1>2. PoolFresh'
    BY DEF WorkOwned, PoolFresh, poolVars, HandlersTyped
  <1>3. DrainsPool' /\ DirectAlone'
    BY DEF WorkOwned, DrainsPool, DirectAlone, poolVars
  <1>4. QED
    BY <1>1, <1>2, <1>3 DEF WorkOwned

\* Neither the pools nor what handlers have left change with a handler's step
\* from one state to another that is not draining.
LEMMA WorkMoved ==
    ASSUME HandlersTyped, WorkOwned, NEW t \in Tx, step[t] # "draining",
           UNCHANGED <<at, todo, awaited, future, poolVars>>,
           NEW s \in {"testing", "locking", "done"},
           step' = [step EXCEPT ![t] = s], s # "done" => t \notin Direct
    PROVE  WorkOwned'
  BY DEF WorkOwned, Unborn, PoolFresh, DrainsPool, DirectAlone, poolVars, HandlersTyped

LEMMA WorkArrive ==
    ASSUME TypeOK, WorkOwned, NEW t \in Tx, Arrive(t)
    PROVE  WorkOwned'
  <1>1. future[t] = "none" /\ awaited[t] = None /\ HandlersTyped
    BY DEF Arrive, WorkOwned, Unborn, MutexHeld, TypeOK
  <1>2. /\ UNCHANGED <<at, awaited, future, pool, locked>>
        /\ \A u \in Tx \ {t} : step'[u] = step[u] /\ todo'[u] = todo[u]
        /\ IF t \in Direct THEN step'[t] = "draining" /\ todo'[t] = {t}
                           ELSE step'[t] = "adding"
    BY <1>1 DEF Arrive, HandlersTyped, poolVars
  <1>3. Unborn'
    BY <1>1, <1>2 DEF WorkOwned, Unborn
  <1>4. PoolFresh'
    <2>1. \A n \in Node : t \notin pool[n]
      BY DEF WorkOwned, PoolFresh, Arrive
    <2>2. QED
      BY <1>1, <1>2, <2>1 DEF WorkOwned, PoolFresh, HandlersTyped
  <1>5. DrainsPool' /\ DirectAlone'
    BY <1>1, <1>2 DEF WorkOwned, DrainsPool, DirectAlone
  <1>6. QED
    BY <1>3, <1>4, <1>5 DEF WorkOwned

LEMMA WorkAdd ==
    ASSUME TypeOK, WorkOwned, NEW t \in Tx, Add(t)
    PROVE  WorkOwned'
  <1>1. /\ t \notin Direct /\ future[t] = "none" /\ locked[at[t]] = None
        /\ at[t] \in Node /\ HandlersTyped
    BY DEF Add, MutexFree, WorkOwned, Unborn, TypeOK, HandlersTyped
  <1>2. /\ UNCHANGED <<at, todo, awaited, future, locked>>
        /\ pool' = [pool EXCEPT ![at[t]] = @ \cup {t}]
        /\ step' = [step EXCEPT ![t] = "testing"]
    BY DEF Add
  <1>3. Unborn'
    BY <1>1, <1>2 DEF WorkOwned, Unborn, HandlersTyped
  <1>4. PoolFresh'
    BY <1>1, <1>2 DEF WorkOwned, PoolFresh, HandlersTyped
  <1>5. DrainsPool'
    <2> SUFFICES ASSUME NEW u \in Tx \ Direct, step'[u] = "draining"
                 PROVE  locked[at[u]] = u /\ todo[u] \ {awaited[u]} = pool'[at[u]]
      BY <1>2 DEF DrainsPool
    <2>1. u # t /\ step[u] = "draining"
      BY <1>1, <1>2 DEF HandlersTyped
    <2>2. locked[at[u]] = u /\ todo[u] \ {awaited[u]} = pool[at[u]]
      BY <2>1 DEF WorkOwned, DrainsPool
    <2>3. at[u] # at[t] /\ at[u] \in Node
      BY <1>1, <2>2 DEF HandlersTyped
    <2>4. QED
      BY <1>1, <1>2, <2>2, <2>3 DEF HandlersTyped
  <1>6. DirectAlone'
    BY <1>1, <1>2 DEF WorkOwned, DirectAlone, HandlersTyped
  <1>7. QED
    BY <1>3, <1>4, <1>5, <1>6 DEF WorkOwned

LEMMA WorkCollect ==
    ASSUME TypeOK, WorkOwned, NEW t \in Tx, Collect(t)
    PROVE  WorkOwned'
  <1>1. /\ t \notin Direct /\ locked[at[t]] = None /\ awaited[t] = None
        /\ at[t] \in Node /\ HandlersTyped
    BY DEF Collect, MutexFree, WorkOwned, Unborn, TypeOK, HandlersTyped, MutexHeld
  <1>2. /\ UNCHANGED <<at, awaited, future, pool>>
        /\ step' = [step EXCEPT ![t] = "draining"]
        /\ locked' = [locked EXCEPT ![at[t]] = t]
        /\ todo' = [todo EXCEPT ![t] = pool[at[t]]]
    BY DEF Collect, Collected
  <1>3. Unborn' /\ PoolFresh'
    BY <1>1, <1>2 DEF WorkOwned, Unborn, PoolFresh, HandlersTyped
  <1>4. DrainsPool'
    <2> SUFFICES ASSUME NEW u \in Tx \ Direct, step'[u] = "draining"
                 PROVE  locked'[at[u]] = u /\ todo'[u] \ {awaited[u]} = pool[at[u]]
      BY <1>2 DEF DrainsPool
    <2>1. CASE u = t
      <3>1. todo'[u] = pool[at[u]] /\ locked'[at[u]] = u
        BY <1>1, <1>2, <2>1 DEF HandlersTyped
      <3>2. pool[at[u]] \subseteq Tx
        BY <1>1, <2>1 DEF HandlersTyped
      <3>3. QED
        BY <1>1, <2>1, <3>1, <3>2
    <2>2. CASE u # t
      <3>1. locked[at[u]] = u /\ todo[u] \ {awaited[u]} = pool[at[u]]
        BY <1>1, <1>2, <2>2 DEF WorkOwned, DrainsPool, HandlersTyped
      <3>2. at[u] # at[t] /\ at[u] \in Node
        BY <1>1, <3>1 DEF HandlersTyped
      <3>3. QED
        BY <1>1, <1>2, <2>2, <3>1, <3>2 DEF HandlersTyped
    <2>3. QED
      BY <2>1, <2>2
  <1>5. DirectAlone'
    BY <1>1, <1>2 DEF WorkOwned, DirectAlone, HandlersTyped
  <1>6. QED
    BY <1>3, <1>4, <1>5 DEF WorkOwned

\* What is submitted is fresh, and no other handler has it left to do.
LEMMA SubmitOwned ==
    ASSUME TypeOK, WorkOwned, NEW t \in Tx, NEW x \in todo[t], Submit(t, x)
    PROVE  /\ x \in Tx /\ at[t] \in Node /\ at[x] = at[t]
           /\ future[x] = "none" /\ step[x] \notin {"new", "adding"}
           /\ t \in Direct => x = t
           /\ t \notin Direct => x \in pool[at[t]] /\ x \notin Direct
  <1>1. x \in Tx /\ at[t] \in Node
    BY DEF TypeOK, HandlersTyped
  <1>2. step[t] = "draining" /\ awaited[t] = None
    BY DEF Submit
  <1>3. CASE t \in Direct
    BY <1>1, <1>2, <1>3 DEF WorkOwned, DirectAlone
  <1>4. CASE t \notin Direct
    <2>1. todo[t] \ {awaited[t]} = pool[at[t]]
      BY <1>2, <1>4 DEF WorkOwned, DrainsPool
    <2>2. x \in pool[at[t]]
      BY <1>1, <1>2, <2>1
    <2>3. QED
      BY <1>1, <1>4, <2>2 DEF WorkOwned, PoolFresh
  <1>5. QED
    BY <1>3, <1>4

LEMMA WorkSubmit ==
    ASSUME TypeOK, WorkOwned, NEW t \in Tx, NEW x \in todo[t], Submit(t, x)
    PROVE  WorkOwned'
  <1>1. /\ x \in Tx /\ at[t] \in Node /\ at[x] = at[t]
        /\ future[x] = "none" /\ step[x] \notin {"new", "adding"}
        /\ t \in Direct => x = t
        /\ t \notin Direct => x \in pool[at[t]] /\ x \notin Direct
    BY SubmitOwned
  <1>2. /\ UNCHANGED <<at, step, locked>> /\ step[t] = "draining" /\ awaited[t] = None
        /\ pool' = [pool EXCEPT ![at[t]] = @ \ {x}]
        /\ \A y \in Tx \ {x} : future'[y] = future[y]
        /\ \A u \in Tx \ {t} : todo'[u] = todo[u] /\ awaited'[u] = awaited[u]
        /\ \/ awaited'[t] = x /\ todo'[t] = todo[t]
           \/ awaited'[t] = None /\ todo'[t] = todo[t] \ {x}
    BY SubmitEffects DEF TypeOK
  <1>3. HandlersTyped
    BY DEF TypeOK
  <1>4. Unborn'
    BY <1>1, <1>2 DEF WorkOwned, Unborn
  <1>5. PoolFresh'
    <2> SUFFICES ASSUME NEW n \in Node, NEW y \in pool'[n]
                 PROVE  /\ y \notin Direct /\ at[y] = n /\ future'[y] = "none"
                        /\ step[y] \notin {"new", "adding"}
      BY <1>2 DEF PoolFresh
    <2>1. y \in pool[n] /\ y \in Tx
      BY <1>1, <1>2, <1>3 DEF HandlersTyped
    <2>2. y \notin Direct /\ at[y] = n /\ future[y] = "none" /\ step[y] \notin {"new", "adding"}
      BY <2>1 DEF WorkOwned, PoolFresh
    <2>3. y # x
      BY <1>1, <1>2, <1>3, <2>2 DEF HandlersTyped
    <2>4. QED
      BY <1>2, <2>1, <2>2, <2>3
  <1>6. DrainsPool'
    <2> SUFFICES ASSUME NEW u \in Tx \ Direct, step[u] = "draining"
                 PROVE  locked[at[u]] = u /\ todo'[u] \ {awaited'[u]} = pool'[at[u]]
      BY <1>2 DEF DrainsPool
    <2>1. locked[at[u]] = u /\ todo[u] \ {awaited[u]} = pool[at[u]] /\ at[u] \in Node
      BY <1>3 DEF WorkOwned, DrainsPool, HandlersTyped
    <2>2. CASE u = t
      <3>1. pool'[at[u]] = pool[at[u]] \ {x}
        BY <1>2, <1>3, <2>1, <2>2 DEF HandlersTyped
      <3>2. None \notin todo[u]
        BY <1>3 DEF HandlersTyped
      <3>3. todo[u] = pool[at[u]]
        <4>1. awaited[u] = None
          BY <1>2, <2>2
        <4>2. todo[u] \ {None} = pool[at[u]]
          BY <2>1, <4>1
        <4>3. todo[u] \ {None} = todo[u]
          BY <3>2
        <4>4. QED
          BY <4>2, <4>3
      <3>4. QED
        BY <1>2, <2>1, <2>2, <3>1, <3>2, <3>3
    <2>3. CASE u # t /\ t \notin Direct
      <3>1. at[u] # at[t]
        BY <1>2, <2>1, <2>3 DEF WorkOwned, DrainsPool
      <3>2. QED
        BY <1>2, <1>3, <2>1, <2>3, <3>1 DEF HandlersTyped
    <2>4. CASE u # t /\ t \in Direct
      <3>1. x \notin pool[at[u]]
        BY <1>1, <2>1, <2>4 DEF WorkOwned, PoolFresh
      <3>2. pool'[at[u]] = pool[at[u]]
        BY <1>2, <1>3, <2>1, <3>1 DEF HandlersTyped
      <3>3. QED
        BY <1>2, <2>1, <2>4, <3>2
    <2>5. QED
      BY <2>2, <2>3, <2>4
  <1>7. DirectAlone'
    BY <1>1, <1>2 DEF WorkOwned, DirectAlone
  <1>8. QED
    BY <1>4, <1>5, <1>6, <1>7 DEF WorkOwned

LEMMA WorkHandler ==
    ASSUME TypeOK, WorkOwned, NEW t \in Tx, Handler(t)
    PROVE  WorkOwned'
  <1>0. HandlersTyped
    BY DEF TypeOK
  <1>1. CASE Test(t)
    <2>1. t \notin Direct
      BY <1>1 DEF Test, WorkOwned, Unborn
    <2>2. QED
      BY <1>0, <1>1, <2>1, WorkMoved DEF Test
  <1>2. CASE Finish(t)
    <2>1. /\ UNCHANGED <<at, step, future, pool, locked>>
          /\ \A u \in Tx \ {t} : todo'[u] = todo[u] /\ awaited'[u] = awaited[u]
          /\ todo'[t] = todo[t] \ {awaited[t]} /\ awaited'[t] = None
          /\ awaited[t] \in todo[t]
      BY <1>0, <1>2 DEF Finish, HandlersTyped, poolVars, TypeOK, MutexHeld
    <2>2. Unborn' /\ PoolFresh'
      BY <2>1 DEF WorkOwned, Unborn, PoolFresh
    <2>3. \A u \in Tx : todo'[u] \ {awaited'[u]} = todo[u] \ {awaited[u]}
      BY <1>0, <2>1 DEF HandlersTyped
    <2>4. DrainsPool'
      BY <2>1, <2>3 DEF WorkOwned, DrainsPool
    <2>5. DirectAlone'
      BY <1>2, <2>1 DEF WorkOwned, DirectAlone, Finish
    <2>6. QED
      BY <2>2, <2>4, <2>5 DEF WorkOwned
  <1>3. CASE Answer(t)
    <2>1. /\ UNCHANGED <<at, todo, awaited, future, pool>>
          /\ step' = [step EXCEPT ![t] = "done"] /\ step[t] = "draining"
          /\ \A n \in Node : locked[n] # t => locked'[n] = locked[n]
      BY <1>3 DEF Answer, Unlocked
    <2>2. Unborn' /\ PoolFresh' /\ DirectAlone'
      BY <1>0, <2>1 DEF WorkOwned, Unborn, PoolFresh, DirectAlone, HandlersTyped
    <2>3. DrainsPool'
      BY <1>0, <2>1 DEF WorkOwned, DrainsPool, HandlersTyped
    <2>4. QED
      BY <2>2, <2>3 DEF WorkOwned
  <1>4. QED
    BY <1>1, <1>2, <1>3, WorkArrive, WorkAdd, WorkCollect, WorkSubmit DEF Handler

\* Nothing submitted is forgotten by what raft does to the futures.
LEMMA RaftFutures ==
    ASSUME HandlersTyped, NEW n \in Node, Raft(n)
    PROVE  \A t \in Tx : \/ future'[t] = future[t]
                         \/ future[t] \in {"pending", "committed"}
                            /\ future'[t] = "lost"
                         \/ future[t] = "committed" /\ future'[t] = "ok"
                            /\ ApplyNext(n) /\ t = rlog[applied[n] + 1]
  <1>1. CASE StepDown(n) \/ Restart(n)
    BY <1>1 DEF StepDown, Restart, Lost, Owed, HandlersTyped
  <1>2. CASE ApplyNext(n)
    BY <1>2 DEF ApplyNext, Owed, HandlersTyped
  <1>3. CASE UNCHANGED future
    BY <1>3
  <1>4. QED
    BY <1>1, <1>2, <1>3 DEF Raft, Elect, Snapshot, Persist, InstallSnapshot, handlerVars

LEMMA WorkRaft ==
    ASSUME TypeOK, WorkOwned, NEW n \in Node, Raft(n)
    PROVE  WorkOwned'
  <1>1. HandlersTyped /\ \A t \in Tx : future[t] = "none" => future'[t] = "none"
    BY RaftFutures DEF TypeOK
  <1>2. CASE Restart(n)
    <2>1. /\ UNCHANGED <<at, todo, awaited>>
          /\ \A t \in Tx : step'[t] = IF at[t] = n /\ step[t] \notin {"new", "done"}
                                        THEN "dead" ELSE step[t]
          /\ pool' = [pool EXCEPT ![n] = {}]
          /\ locked' = [locked EXCEPT ![n] = None]
      BY <1>2 DEF Restart
    <2>2. Unborn'
      BY <1>1, <2>1 DEF WorkOwned, Unborn
    <2>3. PoolFresh'
      <3> SUFFICES ASSUME NEW m \in Node, NEW x \in pool'[m]
                   PROVE  /\ x \notin Direct /\ at[x] = m /\ future'[x] = "none"
                          /\ step'[x] \notin {"new", "adding"}
        BY <2>1 DEF PoolFresh
      <3>1. m # n /\ x \in pool[m] /\ x \in Tx
        BY <1>1, <2>1 DEF HandlersTyped
      <3>2. QED
        BY <1>1, <2>1, <3>1 DEF WorkOwned, PoolFresh
    <2>4. DrainsPool'
      BY <1>1, <2>1 DEF WorkOwned, DrainsPool, HandlersTyped
    <2>5. DirectAlone'
      BY <1>1, <2>1 DEF WorkOwned, DirectAlone, HandlersTyped
    <2>6. QED
      BY <2>2, <2>3, <2>4, <2>5 DEF WorkOwned
  <1>3. CASE UNCHANGED <<at, step, todo, awaited, poolVars>>
    BY <1>1, <1>3, WorkKept
  <1>4. QED
    BY <1>2, <1>3 DEF Raft, Elect, StepDown, ApplyNext, Snapshot, Persist,
                      InstallSnapshot, handlerVars

LEMMA WorkStep == TypeOK /\ WorkOwned /\ [Next]_vars => WorkOwned'
  <1> SUFFICES ASSUME TypeOK, WorkOwned, [Next]_vars PROVE WorkOwned'
    OBVIOUS
  <1>1. CASE Commit
    <2>1. \A t \in Tx : future[t] = "none" => future'[t] = "none"
      BY <1>1 DEF Commit, Owed
    <2>2. QED
      BY <1>1, <2>1, WorkKept DEF Commit, TypeOK
  <1>2. CASE UNCHANGED vars
    BY <1>2, WorkKept DEF vars, handlerVars, TypeOK
  <1>3. QED
    BY <1>1, <1>2, WorkHandler, WorkRaft DEF Next

LEMMA WorkAlways == Spec => []WorkOwned
  BY WorkInit, WorkStep, TypeCorrect, PTL DEF Spec

-----------------------------------------------------------------------------
(* The pool.                                                               *)

LEMMA ForgottenInit == Init => NoneForgotten
  BY DEF Init, NoneForgotten

LEMMA ForgottenStep ==
    ASSUME TypeOK, WorkOwned, NoneForgotten, [Next]_vars
    PROVE  NoneForgotten'
  <1>0. HandlersTyped /\ DataTyped
    BY DEF TypeOK
  <1> SUFFICES ASSUME NEW y \in Tx \ Direct,
                      step'[y] \in {"testing", "locking", "draining", "done"},
                      boot'[at'[y]] = "first"
               PROVE  y \in pool'[at'[y]] <=> future'[y] = "none"
    BY DEF NoneForgotten
  <1> DEFINE Kept == /\ at[y] \in Node
                     /\ step[y] \in {"testing", "locking", "draining", "done"}
                          /\ boot[at[y]] = "first"
                        => (y \in pool[at[y]] <=> future[y] = "none")
  <1>1. Kept
    BY <1>0 DEF NoneForgotten, HandlersTyped
  <1>2. ASSUME NEW t \in Tx, Handler(t) PROVE y \in pool'[at'[y]] <=> future'[y] = "none"
    <2>1. CASE Add(t)
      <3>1. CASE y = t
        BY <1>0, <1>1, <2>1, <3>1 DEF Add, WorkOwned, Unborn, HandlersTyped
      <3>2. CASE y # t
        BY <1>0, <1>1, <2>1, <3>2 DEF Add, HandlersTyped, fsmVars
      <3>3. QED
        BY <3>1, <3>2
    <2>2. CASE \E x \in todo[t] : Submit(t, x)
      <3>1. PICK x \in todo[t] : Submit(t, x)
        BY <2>2
      <3>2. /\ x \in Tx /\ at[t] \in Node /\ UNCHANGED <<at, step>>
            /\ pool' = [pool EXCEPT ![at[t]] = @ \ {x}]
            /\ future'[x] \in {"pending", "rejected"}
            /\ \A z \in Tx \ {x} : future'[z] = future[z]
            /\ at[x] = at[t]
        BY <1>0, <3>1, SubmitEffects, SubmitOwned
      <3>3. UNCHANGED boot
        BY <3>1 DEF Submit, fsmVars
      <3>4. QED
        BY <1>0, <1>1, <3>2, <3>3 DEF HandlersTyped
    <2>3. CASE Arrive(t) \/ Test(t) \/ Collect(t) \/ Finish(t) \/ Answer(t)
      <3>1. UNCHANGED <<at, future, pool, boot>>
        BY <2>3 DEF Arrive, Test, Collect, Finish, Answer, fsmVars, poolVars
      <3>2. step[y] \in {"testing", "locking", "draining", "done"}
        BY <1>0, <2>3 DEF Arrive, Test, Collect, Finish, Answer, HandlersTyped
      <3>3. QED
        BY <1>1, <3>1, <3>2
    <2>4. QED
      BY <1>2, <2>1, <2>2, <2>3 DEF Handler
  <1>3. ASSUME NEW n \in Node, Raft(n) PROVE y \in pool'[at'[y]] <=> future'[y] = "none"
    <2>1. future[y] = "none" <=> future'[y] = "none"
      BY <1>0, <1>3, RaftFutures
    <2>2. CASE Restart(n)
      <3>1. at[y] # n
        BY <1>0, <1>1, <2>2 DEF Restart, DataTyped, Boot
      <3>2. UNCHANGED at /\ pool'[at[y]] = pool[at[y]] /\ step'[y] = step[y]
            /\ boot'[at[y]] = boot[at[y]]
        BY <1>0, <1>1, <2>2, <3>1 DEF Restart, HandlersTyped, DataTyped
      <3>3. QED
        BY <1>1, <2>1, <3>2
    <2>3. CASE InstallSnapshot(n)
      BY <1>0, <1>1, <2>1, <2>3 DEF InstallSnapshot, DataTyped, handlerVars, poolVars
    <2>4. CASE UNCHANGED <<at, step, pool, boot>>
      BY <1>1, <2>1, <2>4
    <2>5. QED
      BY <1>3, <2>2, <2>3, <2>4 DEF Raft, Elect, StepDown, ApplyNext, Snapshot, Persist,
                                    handlerVars, poolVars, fsmVars
  <1>4. CASE Commit
    <2>1. UNCHANGED <<at, step, pool, boot>> /\ (future[y] = "none" <=> future'[y] = "none")
      BY <1>4 DEF Commit, Owed, poolVars, fsmVars
    <2>2. QED
      BY <1>1, <2>1
  <1>5. CASE UNCHANGED vars
    BY <1>1, <1>5 DEF vars, handlerVars, poolVars, fsmVars
  <1>6. QED
    BY <1>2, <1>3, <1>4, <1>5 DEF Next

\* A transaction that has been added is in the pool until it is submitted.
THEOREM PoolForgetsNone == Spec => []NoneForgotten
  BY ForgottenInit, ForgottenStep, TypeCorrect, WorkAlways, PTL DEF Spec

LEMMA PoolFinite ==
    ASSUME HandlersTyped, NEW n \in Node, NEW S \in SUBSET pool[n]
    PROVE  /\ Cardinality(S) \in Nat /\ Cardinality(pool[n]) \in Nat
           /\ Cardinality(S) <= Cardinality(pool[n])
  <1>1. IsFiniteSet(pool[n])
    <2>1. pool[n] \in SUBSET Tx
      BY DEF HandlersTyped
    <2>2. QED
      BY <2>1, FS_Subset, Zenon
  <1>2. S \subseteq pool[n]
    OBVIOUS
  <1>3. IsFiniteSet(S) /\ Cardinality(S) <= Cardinality(pool[n])
    BY <1>1, <1>2, FS_Subset, Zenon
  <1>4. QED
    BY <1>1, <1>3, FS_CardinalityType, Zenon

LEMMA ServedInit == Init => FullPoolServed
  <1>1. Cardinality({}) = 0
    BY FS_EmptySet, Zenon
  <1>2. QED
    BY <1>1 DEF Init, FullPoolServed

\* A pool grows by a handler that goes on to test it, and a handler leaves it
\* only when it is too small or empty.
LEMMA ServedStep ==
    ASSUME TypeOK, WorkOwned, FullPoolServed, [Next]_vars
    PROVE  FullPoolServed'
  <1> DEFINE Serving == {"testing", "locking", "draining"}
  <1>0. HandlersTyped /\ Cardinality({}) = 0
    BY FS_EmptySet, Zenon DEF TypeOK
  <1> SUFFICES ASSUME NEW m \in Node, Cardinality(pool'[m]) >= MinBatch
               PROVE  \E u \in Tx \ Direct : at'[u] = m /\ step'[u] \in Serving
    BY DEF FullPoolServed
  <1> DEFINE Served2 == \E u \in Tx \ Direct : at'[u] = m /\ step'[u] \in Serving
  <1>1. Cardinality(pool[m]) >= MinBatch =>
            \E u \in Tx \ Direct : at[u] = m /\ step[u] \in Serving
    BY DEF FullPoolServed
  <1>2. ASSUME NEW S \in SUBSET pool[m], pool'[m] = S, at' = at,
               \A u \in Tx \ Direct : at[u] = m /\ step[u] \in Serving => step'[u] \in Serving
        PROVE  Served2
    <2>1. Cardinality(pool[m]) >= MinBatch
      BY <1>0, <1>2, PoolFinite
    <2>2. QED
      BY <1>1, <1>2, <2>1
  <1>3. ASSUME NEW t \in Tx, Handler(t) PROVE Served2
    <2>1. CASE Add(t)
      <3>1. CASE at[t] = m
        BY <1>0, <2>1, <3>1 DEF Add, WorkOwned, Unborn, HandlersTyped
      <3>2. CASE at[t] # m
        BY <1>0, <1>2, <2>1, <3>2 DEF Add, HandlersTyped
      <3>3. QED
        BY <3>1, <3>2
    <2>2. CASE \E x \in todo[t] : Submit(t, x)
      <3>1. /\ UNCHANGED <<at, step>> /\ at[t] \in Node
            /\ \E x \in Tx : pool' = [pool EXCEPT ![at[t]] = @ \ {x}]
        BY <1>0, <2>2, SubmitEffects
      <3>2. pool'[m] \in SUBSET pool[m]
        BY <1>0, <3>1 DEF HandlersTyped
      <3>3. QED
        BY <1>2, <3>1, <3>2
    <2>3. CASE Test(t)
      <3>1. UNCHANGED <<at, pool>>
            /\ step' = [step EXCEPT ![t] = IF Enough(at[t]) THEN "locking" ELSE "done"]
        BY <2>3 DEF Test, poolVars
      <3>2. at[t] = m => Enough(at[t])
        BY <3>1 DEF Enough
      <3>3. QED
        BY <1>0, <1>2, <3>1, <3>2 DEF HandlersTyped
    <2>4. CASE Answer(t)
      <3>1. UNCHANGED <<at, pool>> /\ step' = [step EXCEPT ![t] = "done"]
            /\ step[t] = "draining" /\ todo[t] = {}
        BY <2>4 DEF Answer
      <3>2. t \notin Direct => at[t] # m
        <4> SUFFICES ASSUME t \notin Direct, at[t] = m PROVE FALSE
          OBVIOUS
        <4>1. pool[m] = {}
          BY <3>1 DEF WorkOwned, DrainsPool
        <4>2. QED
          BY <1>0, <3>1, <4>1
      <3>3. QED
        BY <1>0, <1>2, <3>1, <3>2 DEF HandlersTyped
    <2>5. CASE Arrive(t) \/ Collect(t) \/ Finish(t)
      <3>1. UNCHANGED <<at, pool>>
            /\ \A u \in Tx : step[u] \in Serving => step'[u] \in Serving
        BY <1>0, <2>5 DEF Arrive, Collect, Finish, HandlersTyped, poolVars
      <3>2. QED
        BY <1>2, <3>1
    <2>6. QED
      BY <1>3, <2>1, <2>2, <2>3, <2>4, <2>5 DEF Handler
  <1>4. ASSUME NEW n \in Node, Raft(n) PROVE Served2
    <2>1. CASE Restart(n)
      <3>1. m # n
        BY <1>0, <2>1 DEF Restart, HandlersTyped
      <3>2. QED
        BY <1>0, <1>2, <2>1, <3>1 DEF Restart, HandlersTyped
    <2>2. CASE UNCHANGED <<at, step, pool>>
      BY <1>2, <2>2
    <2>3. QED
      BY <1>4, <2>1, <2>2 DEF Raft, Elect, StepDown, ApplyNext, Snapshot, Persist,
                              InstallSnapshot, handlerVars, poolVars
  <1>5. CASE Commit \/ UNCHANGED vars
    BY <1>2, <1>5 DEF Commit, vars, handlerVars, poolVars
  <1>6. QED
    BY <1>3, <1>4, <1>5 DEF Next

\* No full pool is without a handler that will drain it.
THEOREM PoolServed == Spec => []FullPoolServed
  BY ServedInit, ServedStep, TypeCorrect, WorkAlways, PTL DEF Spec

-----------------------------------------------------------------------------
(* The log.                                                                *)

LEMMA LoggedInit == Init => AppliedOnce /\ NotLogged
  BY DEF Init, AppliedOnce, NotLogged, IsInjective, ToSet

\* Entries that lose their leader are neither lost from sight nor doubled.
LEMMA AbandonedOnce ==
    ASSUME LogTyped, AppliedOnce, NEW n, Abandon(n), rlog' = rlog
    PROVE  /\ AppliedOnce'
           /\ ToSet(queue') \cup doubt' \subseteq ToSet(queue) \cup doubt
  <1>1. CASE n = leader
    <2>1. queue' = <<>> /\ doubt' = doubt \cup ToSet(queue)
      BY <1>1 DEF Abandon
    <2>2. IsInjective(queue') /\ ToSet(queue') = {}
      BY <2>1 DEF IsInjective, ToSet
    <2>3. QED
      BY <2>1, <2>2 DEF AppliedOnce
  <1>2. CASE n # leader
    BY <1>2 DEF Abandon, AppliedOnce
  <1>3. QED
    BY <1>1, <1>2

LEMMA LoggedStep ==
    ASSUME TypeOK, WorkOwned, AppliedOnce, NotLogged, [Next]_vars
    PROVE  AppliedOnce' /\ NotLogged'
  <1> DEFINE Logged == ToSet(rlog) \cup ToSet(queue) \cup doubt
  <1>0. HandlersTyped /\ LogTyped
    BY DEF TypeOK
  <1>1. ASSUME UNCHANGED <<queue, doubt, rlog>>,
               \A t \in Tx : future'[t] \in {"none", "rejected"}
                             => future[t] \in {"none", "rejected"}
        PROVE  AppliedOnce' /\ NotLogged'
    BY <1>1 DEF AppliedOnce, NotLogged
  <1>2. ASSUME NEW t \in Tx, NEW x \in todo[t], Submit(t, x)
        PROVE  AppliedOnce' /\ NotLogged'
    <2>1. /\ x \in Tx /\ future[x] = "none"
          /\ \A y \in Tx \ {x} : future'[y] = future[y]
      BY <1>0, <1>2, SubmitEffects, SubmitOwned
    <2>2. x \notin Logged
      BY <2>1 DEF NotLogged
    <2>3. CASE queue' = Append(queue, x) /\ UNCHANGED doubt /\ future'[x] = "pending"
      <3>1. ToSet(queue') = ToSet(queue) \cup {x}
        BY <1>0, <2>1, <2>3, ToSetAppend DEF LogTyped
      <3>2. IsInjective(queue')
        BY <1>0, <2>1, <2>2, <2>3, InjectiveAppend DEF LogTyped, AppliedOnce
      <3>3. QED
        BY <1>2, <2>1, <2>2, <2>3, <3>1, <3>2 DEF AppliedOnce, NotLogged, Submit
    <2>4. CASE doubt' = doubt \cup {x} /\ UNCHANGED queue /\ future'[x] = "pending"
      BY <1>2, <2>1, <2>2, <2>4 DEF AppliedOnce, NotLogged, Submit
    <2>5. CASE UNCHANGED <<queue, doubt>>
      BY <1>1, <1>2, <2>1, <2>5 DEF Submit
    <2>6. QED
      BY <1>0, <1>2, <2>1, <2>3, <2>4, <2>5 DEF Submit, HandlersTyped
  <1>3. ASSUME NEW n \in Node, Elect(n)
        PROVE  AppliedOnce' /\ NotLogged'
    <2>1. PICK kept \in SUBSET (doubt \cup ToSet(queue)) : \E q \in SetToSeqs(kept) :
              queue' = q /\ doubt' = (doubt \cup ToSet(queue)) \ ToSet(q)
      BY <1>3 DEF Elect
    <2>2. kept \in SUBSET Tx
      BY <1>0, <2>1 DEF LogTyped, ToSet
    <2>3. IsInjective(queue') /\ ToSet(queue') \subseteq kept
      BY <2>1, <2>2, OrderedSet
    <2>4. UNCHANGED <<rlog, future>>
      BY <1>3 DEF Elect, handlerVars
    <2>5. doubt' = (doubt \cup ToSet(queue)) \ ToSet(queue')
      BY <2>1
    <2>6. AppliedOnce'
      BY <2>1, <2>3, <2>4, <2>5 DEF AppliedOnce
    <2>7. NotLogged'
      BY <2>1, <2>3, <2>4, <2>5 DEF NotLogged
    <2>8. QED
      BY <2>6, <2>7
  <1>4. ASSUME NEW n \in Node, StepDown(n) \/ Restart(n)
        PROVE  AppliedOnce' /\ NotLogged'
    <2>1. Abandon(n) /\ UNCHANGED rlog
      BY <1>4 DEF StepDown, Restart
    <2>2. AppliedOnce' /\ ToSet(queue') \cup doubt' \subseteq ToSet(queue) \cup doubt
      BY <1>0, <2>1, AbandonedOnce
    <2>3. \A t \in Tx : future'[t] \in {"none", "rejected"} => future'[t] = future[t]
      BY <1>0, <1>4, RaftFutures DEF Raft
    <2>4. NotLogged'
      BY <2>1, <2>2, <2>3 DEF NotLogged
    <2>5. QED
      BY <2>2, <2>4
  <1>5. ASSUME Commit PROVE AppliedOnce' /\ NotLogged'
    <2>1. /\ queue # <<>> /\ queue' = Tail(queue) /\ rlog' = Append(rlog, Head(queue))
          /\ UNCHANGED doubt
      BY <1>5 DEF Commit
    <2>2. /\ Head(queue) \in Tx
          /\ ToSet(queue) = {Head(queue)} \cup ToSet(queue')
          /\ IsInjective(queue') /\ Head(queue) \notin ToSet(queue')
      BY <1>0, <2>1, ToSetTail, InjectiveTail DEF LogTyped, AppliedOnce
    <2>3. /\ ToSet(rlog') = ToSet(rlog) \cup {Head(queue)}
          /\ Head(queue) \notin ToSet(rlog)
      BY <1>0, <2>1, <2>2, ToSetAppend DEF LogTyped, AppliedOnce
    <2>4. IsInjective(rlog')
      BY <1>0, <2>1, <2>2, <2>3, InjectiveAppend DEF LogTyped, AppliedOnce
    <2>5. \A t \in Tx : future'[t] \in {"none", "rejected"} => future'[t] = future[t]
      BY <1>5 DEF Commit
    <2>6. QED
      BY <2>1, <2>2, <2>3, <2>4, <2>5 DEF AppliedOnce, NotLogged
  <1>6. ASSUME NEW n \in Node, Raft(n) PROVE AppliedOnce' /\ NotLogged'
    <2>1. \A t \in Tx : future'[t] \in {"none", "rejected"} => future'[t] = future[t]
      BY <1>0, <1>6, RaftFutures
    <2>2. CASE UNCHANGED <<queue, doubt, rlog>>
      BY <1>1, <2>1, <2>2
    <2>3. QED
      BY <1>3, <1>4, <1>6, <2>2 DEF Raft, ApplyNext, Snapshot, Persist,
                                    InstallSnapshot, logVars
  <1>7. ASSUME NEW t \in Tx, Handler(t) PROVE AppliedOnce' /\ NotLogged'
    <2>1. CASE UNCHANGED <<queue, doubt, rlog, future>>
      BY <1>1, <2>1
    <2>2. QED
      BY <1>2, <1>7, <2>1 DEF Handler, Arrive, Add, Test, Collect, Finish, Answer, logVars
  <1>8. CASE UNCHANGED vars
    BY <1>1, <1>8 DEF vars, handlerVars, logVars
  <1>9. QED
    BY <1>5, <1>6, <1>7, <1>8 DEF Next

LEMMA LoggedAlways == Spec => [](AppliedOnce /\ NotLogged)
  BY LoggedInit, LoggedStep, TypeCorrect, WorkAlways, PTL DEF Spec

\* No transaction is submitted, or executed, twice.
THEOREM NothingTwice == Spec => []AppliedOnce
  BY LoggedAlways, PTL

-----------------------------------------------------------------------------
(* Databases and snapshots.                                                *)

LEMMA DataInit == Init => IndicesKept /\ StateMachineSafety /\ SnapshotCovers
  BY DEF Init, IndicesKept, StateMachineSafety, SnapshotCovers, NoIndex, IsPrefix

\* A prefix of the log stays one when the log grows.
LEMMA PrefixGrows ==
    ASSUME NEW s \in Seq(Tx), NEW l \in Seq(Tx), NEW x \in Tx, IsPrefix(s, l)
    PROVE  IsPrefix(s, Append(l, x))
  <1>1. Len(s) <= Len(l) /\ \A i \in 1..Len(s) : s[i] = l[i]
    BY PrefixPointwise
  <1>2. Append(l, x) \in Seq(Tx) /\ Len(Append(l, x)) = Len(l) + 1
        /\ \A i \in 1..Len(l) : Append(l, x)[i] = l[i]
    OBVIOUS
  <1>3. Len(s) \in Nat /\ Len(l) \in Nat
    OBVIOUS
  <1> DEFINE e == Append(l, x)
  <1>4. e \in Seq(Tx) /\ Len(s) <= Len(e) /\ \A i \in 1..Len(s) : s[i] = e[i]
    BY <1>1, <1>2, <1>3
  <1> HIDE DEF e
  <1>5. IsPrefix(s, e)
    BY <1>4, PrefixPointwise
  <1>6. QED
    BY <1>5 DEF e

\* Applying the next entry extends a prefix of the log.
LEMMA PrefixNext ==
    ASSUME NEW s \in Seq(Tx), NEW l \in Seq(Tx), IsPrefix(s, l), Len(s) < Len(l)
    PROVE  LET e == Append(s, l[Len(s) + 1])
           IN  e \in Seq(Tx) /\ Len(e) = Len(s) + 1 /\ IsPrefix(e, l)
  <1> DEFINE e == Append(s, l[Len(s) + 1])
  <1>1. Len(s) <= Len(l) /\ \A i \in 1..Len(s) : s[i] = l[i]
    BY PrefixPointwise
  <1>2. e \in Seq(Tx) /\ Len(e) = Len(s) + 1
        /\ \A i \in 1..Len(s) : e[i] = s[i]
    OBVIOUS
  <1>3. e[Len(s) + 1] = l[Len(s) + 1]
    OBVIOUS
  <1>4. \A i \in 1..Len(e) : e[i] = l[i]
    BY <1>1, <1>2, <1>3
  <1>5. Len(e) <= Len(l)
    BY <1>2
  <1> HIDE DEF e
  <1>6. IsPrefix(e, l)
    BY <1>2, <1>4, <1>5, PrefixPointwise
  <1>7. QED
    BY <1>2, <1>6 DEF e

LEMMA DataStep ==
    ASSUME TypeOK, IndicesKept, StateMachineSafety, SnapshotCovers, [Next]_vars
    PROVE  IndicesKept' /\ StateMachineSafety' /\ SnapshotCovers'
  <1>0. LogTyped /\ DataTyped
    BY DEF TypeOK
  <1> DEFINE Good(n) ==
               /\ applied[n] <= Len(rlog) /\ snap[n].index <= Len(rlog)
               /\ snapping[n] # NoIndex => 0 < snapping[n] /\ snapping[n] <= applied[n]
               /\ boot[n] = "restored" => snap[n].index > 0
               /\ boot[n] # "restored" =>
                      /\ Len(db[n]) = applied[n] /\ IsPrefix(db[n], rlog)
                      /\ snap[n].index <= Len(snap[n].data) /\ IsPrefix(snap[n].data, rlog)
  <1> SUFFICES ASSUME NEW m \in Node PROVE Good(m)'
    BY DEF IndicesKept, StateMachineSafety, SnapshotCovers
  <1>1. /\ Good(m)
        /\ applied[m] \in Nat /\ db[m] \in Seq(Tx) /\ boot[m] \in Boot
        /\ snapping[m] \in Nat \cup {NoIndex} /\ snap[m].index \in Nat
        /\ snap[m].data \in Seq(Tx) /\ rlog \in Seq(Tx) /\ Len(rlog) \in Nat
    BY <1>0 DEF IndicesKept, StateMachineSafety, SnapshotCovers, LogTyped, DataTyped
  <1>2. CASE Commit
    <2>1. /\ UNCHANGED <<applied, db, boot, snapping, snap>>
          /\ rlog' = Append(rlog, Head(queue)) /\ Head(queue) \in Tx
      BY <1>0, <1>2 DEF Commit, LogTyped, fsmVars, snapVars
    <2>2. Len(rlog') = Len(rlog) + 1
      BY <1>1, <2>1
    <2>3. \A s \in Seq(Tx) : IsPrefix(s, rlog) => IsPrefix(s, rlog')
      BY <1>1, <2>1, PrefixGrows
    <2>4. QED
      BY <1>1, <2>1, <2>2, <2>3
  <1>3. ASSUME NEW n \in Node, ApplyNext(n) PROVE Good(m)'
    <2>1. /\ UNCHANGED <<rlog, boot, snapping, snap>>
          /\ applied' = [applied EXCEPT ![n] = @ + 1]
          /\ db' = [db EXCEPT ![n] = Append(@, rlog[applied[n] + 1])]
          /\ applied[n] < Len(rlog)
      BY <1>3 DEF ApplyNext, FsmApply, logVars, snapVars
    <2>2. CASE m # n
      BY <1>0, <1>1, <2>1, <2>2 DEF DataTyped
    <2>3. CASE m = n
      <3>1. applied'[m] = applied[m] + 1 /\ db'[m] = Append(db[m], rlog[applied[m] + 1])
        BY <1>0, <2>1, <2>3 DEF DataTyped
      <3>2. boot[m] # "restored" => Len(db'[m]) = applied'[m] /\ IsPrefix(db'[m], rlog)
        BY <1>1, <2>1, <2>3, <3>1, PrefixNext
      <3>3. snapping[m] # NoIndex => snapping[m] <= applied'[m]
        BY <1>1, <3>1 DEF NoIndex
      <3>4. applied'[m] <= Len(rlog)
        BY <1>1, <2>1, <2>3, <3>1
      <3>5. QED
        BY <1>1, <2>1, <3>1, <3>2, <3>3, <3>4
    <2>4. QED
      BY <2>2, <2>3
  <1>4. ASSUME NEW n \in Node, Snapshot(n) PROVE Good(m)'
    <2>1. UNCHANGED <<rlog, applied, db, boot, snap>>
          /\ snapping' = [snapping EXCEPT ![n] = applied[n]]
          /\ applied[n] > snap[n].index
      BY <1>4 DEF Snapshot, logVars, fsmVars
    <2>2. snapping'[m] = snapping[m] \/ (snapping'[m] = applied[m] /\ applied[m] > 0)
      BY <1>0, <1>1, <2>1 DEF DataTyped
    <2>3. QED
      BY <1>1, <2>1, <2>2
  <1>5. ASSUME NEW n \in Node, Persist(n) PROVE Good(m)'
    <2>1. /\ UNCHANGED <<rlog, applied, db, boot>> /\ snapping[n] # NoIndex
          /\ snap' = [snap EXCEPT ![n] = [index |-> snapping[n], data |-> db[n]]]
          /\ snapping' = [snapping EXCEPT ![n] = NoIndex]
      BY <1>5 DEF Persist, Persisted, logVars, fsmVars
    <2>2. CASE m # n
      BY <1>0, <1>1, <2>1, <2>2 DEF DataTyped
    <2>3. CASE m = n
      <3>1. /\ snapping'[m] = NoIndex
            /\ snap'[m].index = snapping[m] /\ snap'[m].data = db[m]
        BY <1>0, <2>1, <2>3 DEF DataTyped
      <3>2. 0 < snapping[m] /\ snapping[m] <= applied[m] /\ snapping[m] \in Nat
        BY <1>1, <2>1, <2>3
      <3>3. QED
        BY <1>1, <2>1, <3>1, <3>2
    <2>4. QED
      BY <2>2, <2>3
  <1>6. ASSUME NEW n \in Node, InstallSnapshot(n) PROVE Good(m)'
    <2>1. /\ UNCHANGED <<rlog, snapping>>
          /\ leader \in Node /\ snap[leader].index > applied[n]
          /\ snap' = [snap EXCEPT ![n] = snap[leader]]
          /\ applied' = [applied EXCEPT ![n] = snap[leader].index]
          /\ boot' = [boot EXCEPT ![n] = "restored"]
          /\ db' = [db EXCEPT ![n] = @]
      BY <1>0, <1>6 DEF InstallSnapshot, Restore, LogTyped, logVars
    <2>2. snap[leader].index \in Nat /\ snap[leader].index <= Len(rlog)
      BY <1>0, <2>1 DEF DataTyped, IndicesKept
    <2>3. CASE m # n
      BY <1>0, <1>1, <2>1, <2>3 DEF DataTyped
    <2>4. CASE m = n
      <3>1. snap'[m] = snap[leader] /\ applied'[m] = snap[leader].index
            /\ boot'[m] = "restored"
        BY <1>0, <2>1, <2>4 DEF DataTyped
      <3>2. snapping[m] # NoIndex => snapping[m] <= applied'[m]
        BY <1>1, <2>1, <2>2, <2>4, <3>1 DEF NoIndex
      <3>3. QED
        BY <1>1, <2>1, <2>2, <2>4, <3>1, <3>2
    <2>5. QED
      BY <2>3, <2>4
  <1>7. ASSUME NEW n \in Node, Restart(n) PROVE Good(m)'
    <2>1. /\ UNCHANGED <<rlog, snap>>
          /\ applied' = [applied EXCEPT ![n] = snap[n].index]
          /\ db' = [db EXCEPT ![n] = <<>>]
          /\ boot' = [boot EXCEPT ![n] = IF snap[n].index = 0 THEN "replayed" ELSE "restored"]
          /\ snapping' = [snapping EXCEPT ![n] = NoIndex]
      BY <1>7 DEF Restart, Restore, NewDatabase
    <2>2. CASE m # n
      BY <1>0, <1>1, <2>1, <2>2 DEF DataTyped
    <2>3. CASE m = n
      <3>1. /\ applied'[m] = snap[m].index /\ db'[m] = <<>> /\ snapping'[m] = NoIndex
            /\ boot'[m] = IF snap[m].index = 0 THEN "replayed" ELSE "restored"
        BY <1>0, <2>1, <2>3 DEF DataTyped
      <3>2. Len(<<>>) = 0 /\ IsPrefix(<<>>, rlog)
        BY <1>1 DEF IsPrefix
      <3>3. QED
        BY <1>1, <2>1, <3>1, <3>2
    <2>4. QED
      BY <2>2, <2>3
  <1>8. CASE UNCHANGED <<rlog, fsmVars, snapVars>>
    BY <1>1, <1>8 DEF fsmVars, snapVars
  <1>9. ASSUME NEW n \in Node, Raft(n) PROVE Good(m)'
    BY <1>3, <1>4, <1>5, <1>6, <1>7, <1>8, <1>9 DEF Raft, Elect, StepDown, logVars
  <1>10. ASSUME NEW t \in Tx, Handler(t) PROVE Good(m)'
    <2>1. UNCHANGED <<rlog, fsmVars, snapVars>>
      BY <1>10 DEF Handler, Arrive, Add, Test, Collect, Submit, Finish, Answer, logVars
    <2>2. QED
      BY <1>8, <2>1
  <1>11. CASE UNCHANGED vars
    BY <1>8, <1>11 DEF vars, logVars
  <1>12. QED
    BY <1>2, <1>9, <1>10, <1>11 DEF Next

LEMMA DataAlways == Spec => [](IndicesKept /\ StateMachineSafety /\ SnapshotCovers)
  BY DataInit, DataStep, TypeCorrect, PTL DEF Spec

\* Until a snapshot is restored, a database is the log applied so far.
THEOREM StateMachinesAgree == Spec => []StateMachineSafety
  BY DataAlways, PTL

\* A snapshot holds at least the entries it stands for.
THEOREM SnapshotsCover == Spec => []SnapshotCovers
  BY DataAlways, PTL

LEMMA ReadableInit == Init => AnsweredReadable
  BY DEF Init, AnsweredReadable

LEMMA ReadableStep ==
    ASSUME TypeOK, AnsweredReadable, [Next]_vars
    PROVE  AnsweredReadable'
  <1>0. HandlersTyped /\ LogTyped /\ DataTyped
    BY DEF TypeOK
  <1> SUFFICES ASSUME NEW y \in Tx, future'[y] = "ok", boot'[at'[y]] = "first"
               PROVE  y \in ToSet(db'[at'[y]])
    BY DEF AnsweredReadable
  <1> DEFINE Found == y \in ToSet(db'[at'[y]])
  <1>1. at[y] \in Node /\ (future[y] = "ok" /\ boot[at[y]] = "first" => y \in ToSet(db[at[y]]))
    BY <1>0 DEF HandlersTyped, AnsweredReadable
  <1>2. CASE UNCHANGED <<at, fsmVars>> /\ (future'[y] = "ok" => future[y] = "ok")
    BY <1>1, <1>2 DEF fsmVars
  <1>3. ASSUME NEW t \in Tx, Handler(t) PROVE Found
    <2>1. CASE \E x \in todo[t] : Submit(t, x)
      <3>1. future'[y] = "ok" => future[y] = "ok"
        BY <1>0, <2>1, SubmitEffects
      <3>2. UNCHANGED <<at, fsmVars>>
        BY <2>1 DEF Submit
      <3>3. QED
        BY <1>2, <3>1, <3>2
    <2>2. CASE UNCHANGED <<at, future, fsmVars>>
      BY <1>2, <2>2
    <2>3. QED
      BY <1>3, <2>1, <2>2 DEF Handler, Arrive, Add, Test, Collect, Finish, Answer
  <1>4. ASSUME NEW n \in Node, ApplyNext(n) PROVE Found
    <2>1. /\ UNCHANGED <<at, boot>> /\ rlog[applied[n] + 1] \in Tx
          /\ db' = [db EXCEPT ![n] = Append(@, rlog[applied[n] + 1])]
          /\ \A x \in Tx : future'[x] = IF x = rlog[applied[n] + 1]
                                           /\ x \in Owed(n, "committed")
                                          THEN "ok" ELSE future[x]
      BY <1>0, <1>4 DEF ApplyNext, FsmApply, LogTyped, DataTyped
    <2>2. db[n] \in Seq(Tx)
      BY <1>0 DEF DataTyped
    <2>3. ToSet(db'[n]) = ToSet(db[n]) \cup {rlog[applied[n] + 1]}
      BY <1>0, <2>1, <2>2, ToSetAppend DEF DataTyped
    <2>4. CASE future[y] = "ok"
      BY <1>0, <1>1, <2>1, <2>3, <2>4 DEF DataTyped
    <2>5. CASE future[y] # "ok"
      <3>1. y = rlog[applied[n] + 1] /\ at[y] = n
        BY <2>1, <2>5 DEF Owed
      <3>2. QED
        BY <2>1, <2>3, <3>1
    <2>6. QED
      BY <2>4, <2>5
  <1>5. ASSUME NEW n \in Node, Restart(n) \/ InstallSnapshot(n) PROVE Found
    <2>1. UNCHANGED at /\ future'[y] = future[y]
      BY <1>0, <1>5 DEF Restart, InstallSnapshot, Lost, HandlersTyped, handlerVars
    <2>2. at[y] # n
      BY <1>0, <1>5, <2>1 DEF Restart, InstallSnapshot, DataTyped
    <2>3. db'[at[y]] = db[at[y]] /\ boot'[at[y]] = boot[at[y]]
      BY <1>0, <1>1, <1>5, <2>2 DEF Restart, InstallSnapshot, DataTyped
    <2>4. QED
      BY <1>1, <2>1, <2>3
  <1>6. ASSUME NEW n \in Node, Raft(n) PROVE Found
    <2>1. CASE Elect(n) \/ StepDown(n) \/ Snapshot(n) \/ Persist(n)
      <3>1. UNCHANGED <<at, fsmVars>>
        BY <2>1 DEF Elect, StepDown, Snapshot, Persist, handlerVars
      <3>2. future'[y] = "ok" => future[y] = "ok"
        BY <1>0, <2>1 DEF Elect, StepDown, Snapshot, Persist, Lost, HandlersTyped, handlerVars
      <3>3. QED
        BY <1>2, <3>1, <3>2
    <2>2. QED
      BY <1>4, <1>5, <1>6, <2>1 DEF Raft
  <1>7. CASE Commit
    BY <1>2, <1>7 DEF Commit
  <1>8. CASE UNCHANGED vars
    BY <1>2, <1>8 DEF vars, handlerVars
  <1>9. QED
    BY <1>3, <1>6, <1>7, <1>8 DEF Next

\* A write answered with success is read back on its node until that restarts.
THEOREM SuccessReadable == Spec => []AnsweredReadable
  BY ReadableInit, ReadableStep, TypeCorrect, PTL DEF Spec

-----------------------------------------------------------------------------
(* The ledger.                                                             *)

LEMMA LedgerInit == Init => Ledger!Init
  BY DEF Init, Ledger!Init

LEMMA LedgerStep ==
    ASSUME TypeOK, WorkOwned, AppliedOnce, NotLogged, [Next]_vars
    PROVE  [Ledger!Next]_Ledger!vars
  <1> DEFINE Accepted == {t \in Tx : step[t] # "new"}
             Confirmed == {t \in Tx : future[t] = "ok"}
             Refused == {t \in Tx : future[t] = "rejected"}
  <1> USE DEF Ledger!Next, Ledger!vars
  <1>0. HandlersTyped /\ LogTyped /\ DataTyped
    BY DEF TypeOK
  <1>1. ASSUME rlog' = rlog,
               \A x \in Tx : (step'[x] # "new" <=> step[x] # "new")
                          /\ (future'[x] = "ok" <=> future[x] = "ok")
                          /\ (future'[x] = "rejected" <=> future[x] = "rejected")
        PROVE  UNCHANGED Ledger!vars
    BY <1>1
  <1>2. ASSUME NEW t \in Tx, Handler(t) PROVE [Ledger!Next]_Ledger!vars
    <2>1. CASE Arrive(t)
      <3>1. /\ t \notin Accepted /\ Accepted' = Accepted \cup {t}
            /\ UNCHANGED <<rlog, future>>
        BY <1>0, <2>1 DEF Arrive, HandlersTyped, logVars
      <3>2. QED
        BY <3>1 DEF Ledger!Accept
    <2>2. CASE \E x \in todo[t] : Submit(t, x)
      <3>1. PICK x \in todo[t] : Submit(t, x)
        BY <2>2
      <3>2. /\ x \in Tx /\ UNCHANGED <<rlog, step>> /\ future[x] = "none" /\ step[x] # "new"
            /\ future'[x] \in {"pending", "rejected"}
            /\ \A y \in Tx \ {x} : future'[y] = future[y]
        <4>1. UNCHANGED rlog
          BY <3>1 DEF Submit
        <4>2. QED
          BY <1>0, <3>1, <4>1, SubmitEffects, SubmitOwned
      <3>3. CASE future'[x] = "pending"
        BY <1>1, <3>2, <3>3
      <3>4. CASE future'[x] = "rejected"
        <4>1. x \in Accepted \ ToSet(rlog)
          BY <3>2 DEF NotLogged
        <4>2. Accepted' = Accepted /\ Confirmed' = Confirmed /\ Refused' = Refused \cup {x}
          BY <3>2, <3>4
        <4>3. Ledger!Refuse(x)
          BY <3>2, <4>1, <4>2 DEF Ledger!Refuse, Ledger!ToSet, ToSet
        <4>4. QED
          BY <3>2, <4>3
      <3>5. QED
        BY <3>2, <3>3, <3>4
    <2>3. CASE Add(t) \/ Test(t) \/ Collect(t) \/ Finish(t) \/ Answer(t)
      <3>1. UNCHANGED <<rlog, future>>
        BY <2>3 DEF Add, Test, Collect, Finish, Answer, logVars
      <3>2. \A x \in Tx : step'[x] # "new" <=> step[x] # "new"
        BY <1>0, <2>3 DEF Add, Test, Collect, Finish, Answer, HandlersTyped
      <3>3. QED
        BY <1>1, <3>1, <3>2
    <2>4. QED
      BY <1>2, <2>1, <2>2, <2>3 DEF Handler
  <1>3. ASSUME NEW n \in Node, Raft(n) PROVE [Ledger!Next]_Ledger!vars
    <2>1. UNCHANGED rlog /\ \A x \in Tx : step'[x] # "new" <=> step[x] # "new"
      BY <1>0, <1>3 DEF Raft, Elect, StepDown, ApplyNext, Snapshot, Persist, InstallSnapshot,
                        Restart, HandlersTyped, handlerVars, logVars
    <2>2. CASE ApplyNext(n)
      <3>1. applied[n] + 1 \in DOMAIN rlog
        BY <1>0, <2>2 DEF ApplyNext, LogTyped, DataTyped
      <3>2. PICK e \in Tx : e = rlog[applied[n] + 1] /\ e \in ToSet(rlog)
        BY <1>0, <3>1 DEF LogTyped, ToSet
      <3>3. \A x \in Tx : future'[x] = IF x = e /\ x \in Owed(n, "committed")
                                         THEN "ok" ELSE future[x]
        BY <2>2, <3>2 DEF ApplyNext
      <3>4. Accepted' = Accepted /\ Refused' = Refused
        BY <2>1, <3>3 DEF Owed
      <3>5. Confirmed' = Confirmed \/ Confirmed' = Confirmed \cup {e}
        BY <3>3
      <3>6. CASE Confirmed' = Confirmed
        BY <2>1, <3>4, <3>6
      <3>7. CASE Confirmed' = Confirmed \cup {e}
        <4>1. Ledger!Confirm(e)
          BY <2>1, <3>2, <3>4, <3>7 DEF Ledger!Confirm, Ledger!ToSet, ToSet
        <4>2. QED
          BY <4>1
      <3>8. QED
        BY <3>5, <3>6, <3>7
    <2>3. CASE ~ApplyNext(n)
      <3>1. \A x \in Tx : /\ future'[x] = "ok" <=> future[x] = "ok"
                          /\ future'[x] = "rejected" <=> future[x] = "rejected"
        BY <1>0, <1>3, <2>3, RaftFutures
      <3>2. QED
        BY <1>1, <2>1, <3>1
    <2>4. QED
      BY <2>2, <2>3
  <1>4. CASE Commit
    <2>1. /\ queue # <<>> /\ rlog' = Append(rlog, Head(queue)) /\ UNCHANGED step
          /\ \A x \in Tx : \/ future'[x] = future[x]
                           \/ future[x] = "pending" /\ future'[x] = "committed"
      BY <1>4 DEF Commit, Owed
    <2>2. Head(queue) \in Tx /\ Head(queue) \in ToSet(queue)
      BY <1>0, <2>1, ToSetTail DEF LogTyped
    <2>3. Head(queue) \in Accepted \ (ToSet(rlog) \cup Refused)
      BY <2>2 DEF WorkOwned, Unborn, AppliedOnce, NotLogged
    <2>4. Accepted' = Accepted /\ Confirmed' = Confirmed /\ Refused' = Refused
      BY <2>1
    <2>5. Ledger!Execute(Head(queue))
      BY <2>1, <2>3, <2>4 DEF Ledger!Execute, Ledger!ToSet, ToSet
    <2>6. QED
      BY <2>2, <2>5
  <1>5. CASE UNCHANGED vars
    BY <1>1, <1>5 DEF vars, handlerVars, logVars
  <1>6. QED
    BY <1>2, <1>3, <1>4, <1>5 DEF Next

\* What clients are told is true of one log, executed in one order.
THEOREM ImplementsLedger == Spec => Refinement
  BY LedgerInit, LedgerStep, TypeCorrect, WorkAlways, LoggedAlways,
     PTL DEF Spec, Refinement, Ledger!Spec

\* No answer is ever wrong: TxLedger executes nothing it has refused and
\* reports only what it has executed, and the front end implements it.
THEOREM AnswersStayTrue == Spec => []AnswersTrue
  <1>1. Init => AnswersTrue
    BY DEF Init, AnswersTrue, Ledger!Honest, Ledger!ToSet
  <1>2. ASSUME AnswersTrue, TypeOK, [Ledger!Next]_Ledger!vars PROVE AnswersTrue'
    <2> DEFINE Confirmed == {t \in Tx : future[t] = "ok"}
               Refused == {t \in Tx : future[t] = "rejected"}
    <2>0. rlog \in Seq(Tx) /\ Confirmed \subseteq ToSet(rlog) /\ Refused \cap ToSet(rlog) = {}
      BY <1>2 DEF TypeOK, LogTyped, AnswersTrue, Ledger!Honest, Ledger!ToSet, ToSet
    <2>1. ASSUME NEW t \in Tx, Ledger!Execute(t) PROVE AnswersTrue'
      <3>1. /\ rlog' = Append(rlog, t) /\ Confirmed' = Confirmed /\ Refused' = Refused
            /\ t \notin Refused
        BY <2>1 DEF Ledger!Execute
      <3>2. ToSet(rlog') = ToSet(rlog) \cup {t}
        BY <2>0, <3>1, ToSetAppend
      <3>3. QED
        BY <2>0, <3>1, <3>2 DEF AnswersTrue, Ledger!Honest, Ledger!ToSet, ToSet
    <2>2. ASSUME NEW t \in Tx, Ledger!Accept(t) \/ Ledger!Confirm(t) \/ Ledger!Refuse(t)
          PROVE  AnswersTrue'
      <3>1. /\ rlog' = rlog
            /\ Confirmed' \subseteq Confirmed \cup ToSet(rlog)
            /\ Refused' \cap ToSet(rlog) = {}
        BY <2>0, <2>2 DEF Ledger!Accept, Ledger!Confirm, Ledger!Refuse, Ledger!ToSet, ToSet
      <3>2. QED
        BY <2>0, <3>1 DEF AnswersTrue, Ledger!Honest, Ledger!ToSet, ToSet
    <2>3. CASE UNCHANGED Ledger!vars
      BY <2>0, <2>3 DEF AnswersTrue, Ledger!Honest, Ledger!vars, Ledger!ToSet, ToSet
    <2>4. QED
      BY <1>2, <2>1, <2>2, <2>3 DEF Ledger!Next
  <1>3. QED
    BY <1>1, <1>2, LedgerStep, TypeCorrect, WorkAlways, LoggedAlways, PTL DEF Spec

-----------------------------------------------------------------------------
(* No deadlock.                                                            *)

LEMMA AwaitsInit == Init => AwaitsOwn /\ FuturesServed
  BY DEF Init, AwaitsOwn, FuturesServed

LEMMA AwaitsStep ==
    ASSUME TypeOK, WorkOwned, AwaitsOwn, [Next]_vars
    PROVE  AwaitsOwn'
  <1>0. HandlersTyped /\ MutexHeld
    BY DEF TypeOK
  <1>1. ASSUME UNCHANGED <<at, awaited>>,
               \A t \in Tx : step'[t] = "draining" /\ awaited[t] # None => step[t] = "draining",
               \A x \in Tx : future'[x] \in {"none", "rejected"} => future'[x] = future[x]
        PROVE  AwaitsOwn'
    BY <1>0, <1>1 DEF AwaitsOwn, HandlersTyped
  <1>2. ASSUME NEW t \in Tx, Handler(t) PROVE AwaitsOwn'
    <2>1. CASE \E x \in todo[t] : Submit(t, x)
      <3>1. PICK x \in todo[t] : Submit(t, x)
        BY <2>1
      <3>2. x \in Tx /\ at[x] = at[t] /\ future[x] = "none"
        BY <3>1, SubmitOwned
      <3>3. /\ UNCHANGED <<at, step>>
            /\ \A y \in Tx \ {x} : future'[y] = future[y]
            /\ \A u \in Tx \ {t} : awaited'[u] = awaited[u]
        BY <1>0, <3>1, SubmitEffects
      <3>4. \/ awaited'[t] = x /\ future'[x] = "pending"
            \/ awaited'[t] = None
        BY <1>0, <3>1, <3>2 DEF Submit, HandlersTyped
      <3>5. \A u \in Tx : step[u] = "draining" /\ awaited[u] # None => awaited[u] \in Tx \ {x}
        BY <1>0, <3>2 DEF AwaitsOwn, HandlersTyped
      <3>6. QED
        BY <1>0, <3>2, <3>3, <3>4, <3>5 DEF AwaitsOwn, HandlersTyped
    <2>2. CASE Finish(t)
      BY <1>0, <2>2 DEF Finish, AwaitsOwn, HandlersTyped
    <2>3. CASE Arrive(t) \/ Add(t) \/ Test(t) \/ Collect(t) \/ Answer(t)
      <3>1. UNCHANGED <<at, awaited, future>>
        BY <2>3 DEF Arrive, Add, Test, Collect, Answer
      <3>2. \A u \in Tx : step'[u] = "draining" /\ awaited[u] # None => step[u] = "draining"
        BY <1>0, <2>3 DEF Arrive, Add, Test, Collect, Answer, HandlersTyped, MutexHeld
      <3>3. QED
        BY <1>1, <3>1, <3>2
    <2>4. QED
      BY <1>2, <2>1, <2>2, <2>3 DEF Handler
  <1>3. ASSUME NEW n \in Node, Raft(n) PROVE AwaitsOwn'
    <2>1. UNCHANGED <<at, awaited>> /\ \A t \in Tx : step'[t] = "draining" => step[t] = "draining"
      BY <1>0, <1>3 DEF Raft, Elect, StepDown, ApplyNext, Snapshot, Persist, InstallSnapshot,
                        Restart, HandlersTyped, handlerVars
    <2>2. \A x \in Tx : future'[x] \in {"none", "rejected"} => future'[x] = future[x]
      BY <1>0, <1>3, RaftFutures
    <2>3. QED
      BY <1>1, <2>1, <2>2
  <1>4. CASE Commit
    BY <1>1, <1>4 DEF Commit
  <1>5. CASE UNCHANGED vars
    BY <1>1, <1>5 DEF vars, handlerVars
  <1>6. QED
    BY <1>2, <1>3, <1>4, <1>5 DEF Next

\* A handler leaves the entries and the futures of others alone, and raft
\* fails or completes the futures of a node when it drops their entries.
LEMMA FuturesStep ==
    ASSUME TypeOK, WorkOwned, IndicesKept, FuturesServed, [Next]_vars
    PROVE  FuturesServed'
  <1>0. HandlersTyped /\ LogTyped /\ DataTyped
    BY DEF TypeOK
  <1> DEFINE Open == {"pending", "committed"}
  <1>1. ASSUME UNCHANGED <<at, leader, leading, queue, rlog, applied>>,
               \A x \in Tx : future'[x] \in Open => future'[x] = future[x]
        PROVE  FuturesServed'
    BY <1>1 DEF FuturesServed
  <1>2. ASSUME NEW t \in Tx, NEW x \in todo[t], Submit(t, x) PROVE FuturesServed'
    <2>1. x \in Tx /\ at[x] = at[t] /\ \A y \in Tx \ {x} : future'[y] = future[y]
      BY <1>0, <1>2, SubmitOwned, SubmitEffects
    <2>2. UNCHANGED <<at, leader, leading, rlog, applied>>
      BY <1>2 DEF Submit, fsmVars
    <2>3. CASE future'[x] = "pending" /\ at[t] \in leading
               /\ queue' = IF at[t] = leader THEN Append(queue, x) ELSE queue
      <3>1. ToSet(queue) \subseteq ToSet(queue')
        BY <1>0, <2>1, <2>3, ToSetAppend DEF LogTyped
      <3>2. at[x] = leader => x \in ToSet(queue')
        BY <1>0, <2>1, <2>3, ToSetAppend DEF LogTyped
      <3>3. QED
        BY <2>1, <2>2, <2>3, <3>1, <3>2 DEF FuturesServed
    <2>4. CASE future'[x] = "rejected" /\ UNCHANGED queue
      BY <1>1, <2>1, <2>2, <2>4
    <2>5. QED
      BY <1>0, <1>2, <2>1, <2>3, <2>4 DEF Submit, HandlersTyped
  <1>3. ASSUME NEW t \in Tx, Handler(t) PROVE FuturesServed'
    <2>1. CASE Arrive(t) \/ Add(t) \/ Test(t) \/ Collect(t) \/ Finish(t) \/ Answer(t)
      BY <1>1, <2>1 DEF Arrive, Add, Test, Collect, Finish, Answer, logVars, fsmVars
    <2>2. QED
      BY <1>2, <1>3, <2>1 DEF Handler
  <1>4. ASSUME NEW n \in Node, Elect(n) PROVE FuturesServed'
    <2>1. /\ n \notin leading /\ leader' = n /\ leading' = leading \cup {n}
          /\ UNCHANGED <<at, future, rlog, applied>>
      BY <1>4 DEF Elect, handlerVars, fsmVars
    <2>2. QED
      BY <2>1 DEF FuturesServed
  <1>5. ASSUME NEW n \in Node, StepDown(n) \/ Restart(n) PROVE FuturesServed'
    <2>1. Abandon(n) /\ UNCHANGED <<at, rlog>>
      BY <1>5 DEF StepDown, Restart
    <2>2. \A x \in Tx : future'[x] \in Open => future'[x] = future[x]
      BY <1>0, <1>5, RaftFutures DEF Raft
    <2>3. ASSUME NEW x \in Tx, future'[x] = "pending"
          PROVE  at[x] \in leading' /\ (at[x] = leader' => x \in ToSet(queue'))
      <3>1. future[x] = "pending" /\ at[x] # n /\ at[x] \in Node
        BY <1>0, <1>5, <2>2, <2>3 DEF StepDown, Restart, Lost, Owed, HandlersTyped
      <3>2. at[x] \in leading /\ (at[x] = leader => x \in ToSet(queue))
        BY <3>1 DEF FuturesServed
      <3>3. CASE n = leader
        BY <1>0, <2>1, <3>1, <3>2, <3>3 DEF Abandon
      <3>4. CASE n # leader
        BY <2>1, <3>1, <3>2, <3>4 DEF Abandon
      <3>5. QED
        BY <3>3, <3>4
    <2>4. ASSUME NEW x \in Tx, future'[x] = "committed"
          PROVE  applied'[at[x]] = applied[at[x]]
      <3>1. CASE StepDown(n)
        BY <3>1 DEF StepDown, fsmVars
      <3>2. CASE Restart(n)
        <4>1. at[x] # n
          BY <1>0, <2>2, <2>4, <3>2 DEF Restart, Lost, Owed, HandlersTyped
        <4>2. QED
          BY <1>0, <3>2, <4>1 DEF Restart, HandlersTyped, DataTyped
      <3>3. QED
        BY <1>5, <3>1, <3>2
    <2>5. QED
      BY <2>1, <2>2, <2>3, <2>4 DEF FuturesServed
  <1>6. ASSUME NEW n \in Node, ApplyNext(n) PROVE FuturesServed'
    <2>1. /\ UNCHANGED <<at, leader, leading, queue, rlog>>
          /\ applied' = [applied EXCEPT ![n] = @ + 1]
          /\ \A x \in Tx : future'[x] \in Open =>
                /\ future'[x] = future[x]
                /\ ~(x = rlog[applied[n] + 1] /\ at[x] = n /\ future[x] = "committed")
      BY <1>6 DEF ApplyNext, logVars, Owed
    <2>2. ASSUME NEW x \in Tx, future'[x] = "committed"
          PROVE  \E k \in (applied'[at[x]] + 1)..Len(rlog) : rlog[k] = x
      <3>1. PICK k \in (applied[at[x]] + 1)..Len(rlog) : rlog[k] = x
        BY <2>1, <2>2 DEF FuturesServed
      <3>2. CASE at[x] # n
        BY <1>0, <2>1, <3>1, <3>2 DEF HandlersTyped, DataTyped
      <3>3. CASE at[x] = n
        <4>1. k # applied[n] + 1
          BY <2>1, <2>2, <3>1, <3>3
        <4>2. k \in (applied[n] + 2)..Len(rlog) /\ applied'[n] = applied[n] + 1
          BY <1>0, <2>1, <3>1, <3>3, <4>1 DEF DataTyped, LogTyped
        <4>3. k \in (applied'[at[x]] + 1)..Len(rlog)
          BY <1>0, <3>3, <4>2 DEF DataTyped
        <4>4. QED
          BY <3>1, <4>3
      <3>4. QED
        BY <3>2, <3>3
    <2>3. QED
      BY <2>1, <2>2 DEF FuturesServed
  <1>7. ASSUME NEW n \in Node, InstallSnapshot(n) PROVE FuturesServed'
    <2>1. /\ UNCHANGED <<at, future, leader, leading, queue, rlog>>
          /\ \A x \in Tx : future[x] = "committed" => at[x] # n
          /\ applied' = [applied EXCEPT ![n] = snap[leader].index]
      BY <1>7 DEF InstallSnapshot, handlerVars, logVars, Owed
    <2>2. \A x \in Tx : future[x] = "committed" => applied'[at[x]] = applied[at[x]]
      BY <1>0, <2>1 DEF HandlersTyped, DataTyped
    <2>3. QED
      BY <2>1, <2>2 DEF FuturesServed
  <1>8. ASSUME NEW n \in Node, Snapshot(n) \/ Persist(n) PROVE FuturesServed'
    BY <1>1, <1>8 DEF Snapshot, Persist, handlerVars, logVars, fsmVars
  <1>9. CASE Commit
    <2>1. /\ queue # <<>> /\ rlog' = Append(rlog, Head(queue)) /\ queue' = Tail(queue)
          /\ UNCHANGED <<at, leader, leading, applied>>
      BY <1>9 DEF Commit, fsmVars
    <2>2. Head(queue) \in Tx /\ ToSet(queue) = {Head(queue)} \cup ToSet(queue')
      BY <1>0, <2>1, ToSetTail DEF LogTyped
    <2>3. \A x \in Tx : \/ future'[x] = future[x]
                           /\ (x = Head(queue) /\ future[x] = "pending" => at[x] # leader)
                        \/ x = Head(queue) /\ future'[x] = "committed"
      BY <1>9 DEF Commit, Owed
    <2>4. /\ Len(rlog') = Len(rlog) + 1 /\ rlog'[Len(rlog) + 1] = Head(queue)
          /\ \A k \in 1..Len(rlog) : rlog'[k] = rlog[k]
      BY <1>0, <2>1, <2>2 DEF LogTyped
    <2>5. ASSUME NEW x \in Tx, future'[x] = "committed"
          PROVE  \E k \in (applied[at[x]] + 1)..Len(rlog') : rlog'[k] = x
      <3>1. applied[at[x]] \in 0..Len(rlog)
        BY <1>0 DEF IndicesKept, HandlersTyped, DataTyped
      <3>2. CASE x = Head(queue)
        BY <1>0, <2>4, <3>1, <3>2 DEF LogTyped
      <3>3. CASE x # Head(queue)
        <4>1. PICK k \in (applied[at[x]] + 1)..Len(rlog) : rlog[k] = x
          BY <2>3, <2>5, <3>3 DEF FuturesServed
        <4>2. k \in 1..Len(rlog) /\ k \in (applied[at[x]] + 1)..Len(rlog')
          BY <1>0, <2>4, <3>1, <4>1 DEF LogTyped
        <4>3. QED
          BY <2>4, <4>1, <4>2
      <3>4. QED
        BY <3>2, <3>3
    <2>6. \A x \in Tx : future'[x] = "pending" =>
              at[x] \in leading /\ (at[x] = leader => x \in ToSet(queue'))
      BY <2>2, <2>3 DEF FuturesServed
    <2>7. QED
      BY <2>1, <2>5, <2>6 DEF FuturesServed
  <1>10. CASE UNCHANGED vars
    BY <1>1, <1>10 DEF vars, handlerVars, logVars, fsmVars
  <1>11. QED
    BY <1>3, <1>4, <1>5, <1>6, <1>7, <1>8, <1>9, <1>10 DEF Next, Raft

LEMMA FuturesAlways == Spec => [](AwaitsOwn /\ FuturesServed)
  BY AwaitsInit, AwaitsStep, FuturesStep, TypeCorrect, WorkAlways, DataAlways, PTL DEF Spec

\* Who waits for a mutex waits for a handler that drains; who waits for a
\* future, for the leader, for its own state machine or to step down.
LEMMA SomethingMoves == TypeOK /\ AwaitsOwn /\ FuturesServed => NotStuck
  <1> SUFFICES ASSUME TypeOK, AwaitsOwn, FuturesServed, NEW t \in UnderWay
               PROVE  RaftGoesOn \/ \E u \in UnderWay : CanGoOn(u)
    BY DEF NotStuck
  <1>0. HandlersTyped /\ LogTyped /\ DataTyped /\ MutexHeld /\ t \in Tx
    BY DEF TypeOK, UnderWay
  <1>1. ASSUME NEW u \in Tx, step[u] = "draining"
        PROVE  RaftGoesOn \/ \E v \in UnderWay : CanGoOn(v)
    <2>1. u \in UnderWay
      BY <1>1 DEF UnderWay
    <2>2. CASE awaited[u] = None
      BY <1>1, <2>1, <2>2 DEF CanGoOn
    <2>3. CASE awaited[u] # None
      <3>1. PICK x \in Tx : x = awaited[u]
        BY <1>0, <2>3 DEF HandlersTyped
      <3>2. future[x] \in {"pending", "committed", "ok", "lost"}
        BY <1>0, <1>1, <2>3, <3>1 DEF AwaitsOwn, HandlersTyped, Fate
      <3>3. CASE future[x] \in {"ok", "lost"}
        BY <1>1, <2>1, <3>1, <3>3 DEF CanGoOn
      <3>4. CASE future[x] = "pending"
        <4>1. at[x] \in leading /\ (at[x] = leader => x \in ToSet(queue))
          BY <3>4 DEF FuturesServed
        <4>2. queue # <<>> \/ leading \ {leader} # {}
          BY <4>1 DEF ToSet
        <4>3. QED
          BY <4>2 DEF RaftGoesOn
      <3>5. CASE future[x] = "committed"
        <4>1. \E k \in (applied[at[x]] + 1)..Len(rlog) : rlog[k] = x
          BY <3>5 DEF FuturesServed
        <4>2. at[x] \in Node /\ applied[at[x]] < Len(rlog)
          BY <1>0, <4>1 DEF HandlersTyped, DataTyped, LogTyped
        <4>3. CASE at[x] \in leading => at[x] = leader
          BY <4>2, <4>3 DEF RaftGoesOn
        <4>4. CASE at[x] \in leading /\ at[x] # leader
          BY <4>4 DEF RaftGoesOn
        <4>5. QED
          BY <4>3, <4>4
      <3>6. QED
        BY <3>2, <3>3, <3>4, <3>5
    <2>4. QED
      BY <2>2, <2>3
  <1>2. CASE step[t] \in {"adding", "locking"} /\ locked[at[t]] # None
    <2>1. PICK u \in Tx : u = locked[at[t]]
      BY <1>0, <1>2 DEF HandlersTyped
    <2>2. step[u] = "draining"
      BY <1>0, <1>2, <2>1 DEF MutexHeld, HandlersTyped
    <2>3. QED
      BY <1>1, <2>2
  <1>3. CASE step[t] \in {"adding", "locking"} /\ locked[at[t]] = None
    BY <1>3 DEF CanGoOn, MutexFree
  <1>4. CASE step[t] = "testing"
    BY <1>4 DEF CanGoOn
  <1>5. QED
    BY <1>0, <1>1, <1>2, <1>3, <1>4 DEF UnderWay, HandlersTyped, Step

\* The front end never deadlocks, although a handler keeps the mutex of the
\* pool while the whole batch goes through consensus (httpApi.go:185).
THEOREM NoDeadlock == Spec => []NotStuck
  BY SomethingMoves, FuturesAlways, TypeCorrect, PTL
=============================================================================
