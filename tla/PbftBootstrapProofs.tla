------------------------- MODULE PbftBootstrapProofs -------------------------
(***************************************************************************)
(* Theorems about PbftBootstrap, for every set of nodes and any number of  *)
(* starts.                                                                 *)
(***************************************************************************)
EXTENDS PbftBootstrap, TLAPS

USE NodesAssumption

-----------------------------------------------------------------------------
(* Types.                                                                  *)

LEMMA InitTyped == Init => TypeOK
  <1> SUFFICES ASSUME Init PROVE TypeOK
    OBVIOUS
  <1>1. starts \in 0..MaxStarts /\ 0 \in 0..starts
    BY DEF Init
  <1>2. key \in [Node -> 0..starts] /\ table \in [Node -> SUBSET (1..starts)]
    BY <1>1 DEF Init
  <1>3. QED
    BY <1>1, <1>2 DEF Init, TypeOK

LEMMA NextTyped == TypeOK /\ [Next]_vars => TypeOK'
  <1> SUFFICES ASSUME TypeOK, [Next]_vars PROVE TypeOK'
    OBVIOUS
  <1>1. ASSUME NEW n \in Node, Start(n) PROVE TypeOK'
    <2>1. starts' \in 1..MaxStarts /\ starts' = starts + 1
      BY <1>1 DEF TypeOK, Start
    <2>2. key' \in [Node -> 0..starts']
      BY <1>1, <2>1 DEF TypeOK, Start
    <2>3. table' \in [Node -> SUBSET (1..starts')]
      BY <1>1, <2>1 DEF TypeOK, Start
    <2>4. \A m \in up' : greeting'[m] # "none" /\ key'[m] \in table'[m]
      BY <1>1 DEF TypeOK, Start
    <2>5. up' \subseteq Node /\ apart' \in BOOLEAN
      BY <1>1 DEF TypeOK, Start
    <2>6. /\ greeting' \in [Node -> {"none", "waiting", "sending", "over"}]
          /\ left' \in [Node -> SUBSET Node]
      BY <1>1 DEF TypeOK, Start
    <2>7. QED
      BY <2>1, <2>2, <2>3, <2>4, <2>5, <2>6 DEF TypeOK
  <1>2. ASSUME NEW n \in Node, Stop(n) PROVE TypeOK'
    BY <1>2 DEF TypeOK, Stop
  <1>3. ASSUME NEW n \in Node, Greet(n) PROVE TypeOK'
    BY <1>3 DEF TypeOK, Greet, tableVars
  <1>4. ASSUME NEW n \in Node, FinishGreeting(n) PROVE TypeOK'
    BY <1>4 DEF TypeOK, FinishGreeting, tableVars
  <1>5. ASSUME NEW n \in Node, NEW m \in Node, Post(n, m) PROVE TypeOK'
    <2>1. key[n] \in 1..starts
      BY <1>5 DEF TypeOK, Post
    <2>2. table' \in [Node -> SUBSET (1..starts)]
      BY <1>5, <2>1 DEF TypeOK, Post
    <2>3. \A x \in up : key[x] \in table'[x]
      BY <1>5 DEF TypeOK, Post
    <2>4. QED
      BY <1>5, <2>2, <2>3 DEF TypeOK, Post
  <1>6. CASE UNCHANGED vars
    BY <1>6 DEF TypeOK, vars, tableVars, greetingVars
  <1>7. QED
    BY <1>1, <1>2, <1>3, <1>4, <1>5, <1>6 DEF Next, Progress

\* Every variable keeps its type, and a running node knows its own key.
THEOREM TypeCorrect == Spec => []TypeOK
  BY InitTyped, NextTyped, PTL DEF Spec

-----------------------------------------------------------------------------
(* What broadcasts have reached.                                           *)

LEMMA InitReached == Init => Coming /\ Reached
  BY DEF Init, Coming, Reached

LEMMA NextReached == TypeOK /\ Coming /\ Reached /\ [Next]_vars => (Coming /\ Reached)'
  <1> SUFFICES ASSUME TypeOK, Coming, Reached, [Next]_vars PROVE (Coming /\ Reached)'
    OBVIOUS
  <1>1. ASSUME NEW x \in Node, Start(x) PROVE (Coming /\ Reached)'
    <2>1. Coming'
      BY <1>1 DEF TypeOK, Coming, Start
    <2>2. ASSUME NEW n \in up', NEW m \in up', n \notin left'[m],
                 apart' => key'[n] <= key'[m]
          PROVE  key'[m] \in table'[n]
      <3>1. CASE n = m
        BY <1>1, <3>1 DEF TypeOK, Start
      <3>2. CASE n # m /\ m = x
        BY <1>1, <2>2, <3>2 DEF TypeOK, Start
      <3>3. CASE n # m /\ n = x
        <4>1. m \in up /\ key'[m] = key[m] /\ left'[m] = left[m]
          BY <1>1, <3>3 DEF TypeOK, Start
        <4>2. key'[n] = starts + 1 /\ key[m] \in 0..starts /\ starts \in Nat
          BY <1>1, <3>3 DEF TypeOK, Start
        <4>3. ~apart'
          BY <2>2, <4>1, <4>2
        <4>4. greeting[m] = "waiting"
          BY <1>1, <4>1, <4>3 DEF TypeOK, Start
        <4>5. left[m] = Node \ {m}
          BY <4>1, <4>4 DEF Coming
        <4>6. QED
          BY <1>1, <2>2, <3>3, <4>1, <4>5 DEF TypeOK
      <3>4. CASE n # x /\ m # x
        <4>1. n \in up /\ m \in up /\ key'[n] = key[n] /\ key'[m] = key[m]
              /\ table'[n] = table[n] /\ left'[m] = left[m] /\ (apart => apart')
          BY <1>1, <3>4 DEF TypeOK, Start
        <4>2. QED
          BY <2>2, <4>1 DEF Reached, Knows
      <3>5. QED
        BY <3>1, <3>2, <3>3, <3>4
    <2>3. QED
      BY <2>1, <2>2 DEF Reached, Knows
  <1>2. ASSUME NEW x \in Node, Stop(x) PROVE (Coming /\ Reached)'
    BY <1>2 DEF TypeOK, Coming, Reached, Knows, Stop
  <1>3. ASSUME NEW x \in Node, Greet(x) PROVE (Coming /\ Reached)'
    BY <1>3 DEF TypeOK, Coming, Reached, Knows, Greet, tableVars
  <1>4. ASSUME NEW x \in Node, FinishGreeting(x) PROVE (Coming /\ Reached)'
    BY <1>4 DEF TypeOK, Coming, Reached, Knows, FinishGreeting, tableVars
  <1>5. ASSUME NEW x \in Node, NEW y \in Node, Post(x, y) PROVE (Coming /\ Reached)'
    <2>1. Coming'
      BY <1>5 DEF TypeOK, Coming, Post
    <2>2. ASSUME NEW n \in up', NEW m \in up', n \notin left'[m],
                 apart' => key'[n] <= key'[m]
          PROVE  key'[m] \in table'[n]
      <3>1. n \in up /\ m \in up /\ key' = key /\ apart' = apart
            /\ table[n] \subseteq table'[n]
        BY <1>5 DEF TypeOK, Post
      <3>2. CASE n \notin left[m]
        BY <2>2, <3>1, <3>2 DEF Reached, Knows
      <3>3. CASE n \in left[m]
        BY <1>5, <2>2, <3>1, <3>3 DEF TypeOK, Post
      <3>4. QED
        BY <3>2, <3>3
    <2>3. QED
      BY <2>1, <2>2 DEF Reached, Knows
  <1>6. CASE UNCHANGED vars
    BY <1>6 DEF Coming, Reached, Knows, vars, tableVars, greetingVars
  <1>7. QED
    BY <1>1, <1>2, <1>3, <1>4, <1>5, <1>6 DEF Next, Progress

LEMMA ReachedAlways == Spec => [](Coming /\ Reached)
  BY TypeCorrect, InitReached, NextReached, PTL DEF Spec

\* Of two running nodes, the one that started first knows the other after its
\* broadcast, whatever has stopped and started before.
THEOREM EarlierKnowsLater == Spec => []LaterKnown
  <1>1. Coming /\ Reached => LaterKnown
    BY DEF Coming, Reached, LaterKnown
  <1>2. QED
    BY <1>1, ReachedAlways, PTL

\* A cluster whose nodes are all started before the first broadcast ends with
\* complete tables.
THEOREM StartTogether == Spec => []TogetherComplete
  <1>1. Coming /\ Reached => TogetherComplete
    BY DEF Coming, Reached, TogetherComplete
  <1>2. QED
    BY <1>1, ReachedAlways, PTL

\* A running node's table only grows.
THEOREM TablesGrow == Spec => NothingForgotten
  <1>1. TypeOK /\ [Next]_vars
            => [\A n \in Node : n \in up /\ n \in up' => table[n] \subseteq table'[n]]_vars
    <2> SUFFICES ASSUME TypeOK, Next, NEW n \in Node, n \in up, n \in up'
                 PROVE  table[n] \subseteq table'[n]
      OBVIOUS
    <2>1. ASSUME NEW x \in Node, Start(x) PROVE table[n] \subseteq table'[n]
      BY <2>1 DEF TypeOK, Start
    <2>2. ASSUME NEW x \in Node, Stop(x) PROVE table[n] \subseteq table'[n]
      BY <2>2 DEF TypeOK, Stop
    <2>3. ASSUME NEW x \in Node, Progress(x) PROVE table[n] \subseteq table'[n]
      BY <2>3 DEF TypeOK, Progress, Greet, FinishGreeting, Post, tableVars
    <2>4. QED
      BY <2>1, <2>2, <2>3 DEF Next
  <1>2. QED
    BY <1>1, TypeCorrect, PTL DEF Spec, NothingForgotten
=============================================================================
