--------------------------- MODULE ReplicatedLog ---------------------------
(***************************************************************************)
(* What a pbft_blockChain cluster promises, without its messages: blocks   *)
(* are proposed one after the other, each replica executes proposed blocks *)
(* in the order of their numbers, possibly skipping some, and the client   *)
(* hears of a block only what a quorum of replicas with equal histories    *)
(* agrees on. It does NOT promise that replicas execute the same blocks.   *)
(***************************************************************************)
EXTENDS Integers, FiniteSets, Sequences

CONSTANTS
    Replicas,       \* the nodes that execute blocks
    Quorum,         \* replicas that must agree on a result
    MaxBlocks       \* bound: blocks proposed

VARIABLES
    proposals,      \* blocks proposed so far: 1..proposals
    history,        \* the blocks each replica has executed
    confirmed       \* blocks whose execution the client was told of

vars == <<proposals, history, confirmed>>

Init ==
    /\ proposals = 0
    /\ history = [i \in Replicas |-> <<>>]
    /\ confirmed = {}

Propose ==
    /\ proposals < MaxBlocks
    /\ proposals' = proposals + 1
    /\ UNCHANGED <<history, confirmed>>

Newest(h) == IF h = <<>> THEN 0 ELSE h[Len(h)]

Execute(i) ==
    /\ \E b \in 1..proposals :
          /\ b > Newest(history[i])
          /\ history' = [history EXCEPT ![i] = Append(@, b)]
    /\ UNCHANGED <<proposals, confirmed>>

\* The replicas that executed block b with the history h up to it.
Agreeing(h) ==
    {i \in Replicas :
        Len(h) <= Len(history[i]) /\ \A k \in 1..Len(h) : history[i][k] = h[k]}

Confirmable(b) ==
    \E i \in Replicas : \E k \in 1..Len(history[i]) :
        /\ history[i][k] = b
        /\ Cardinality(Agreeing([x \in 1..k |-> history[i][x]])) >= Quorum

\* One exchange of replies may settle several blocks.
Confirm ==
    /\ \E B \in SUBSET (1..proposals) :
          /\ \A b \in B : Confirmable(b)
          /\ confirmed' = confirmed \cup B
    /\ UNCHANGED <<proposals, history>>

Next == Propose \/ Confirm \/ \E i \in Replicas : Execute(i)

Spec == Init /\ [][Next]_vars
=============================================================================
