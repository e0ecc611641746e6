----------------------------- MODULE DagLedger -----------------------------
(***************************************************************************)
(* What a node of tangle_blockChain promises about its confirmed           *)
(* transactions, without time, tips and candidates: they form a directed   *)
(* acyclic graph that starts from the genesis transaction and only grows;  *)
(* a transaction is confirmed once, its parents are fixed, and each of     *)
(* them was confirmed before it. It does NOT promise that a transaction    *)
(* has a parent at all.                                                    *)
(***************************************************************************)
CONSTANTS
    Transactions,   \* the genesis transaction among them
    Root            \* the genesis transaction

VARIABLE parents    \* of each confirmed transaction, the ones before it

Confirmed == DOMAIN parents

Init == parents = [t \in {Root} |-> {}]

\* A batch of transactions is confirmed at once, none a parent of another.
Extend ==
    \E batch \in SUBSET (Transactions \ Confirmed) :
        \E links \in [batch -> SUBSET Confirmed] :
            parents' = [t \in Confirmed \cup batch |->
                           IF t \in batch THEN links[t] ELSE parents[t]]

Spec == Init /\ [][Extend]_parents

-----------------------------------------------------------------------------
\* Links lead to confirmed transactions only, ...
Closed == \A t \in Confirmed : parents[t] \subseteq Confirmed

\* ... and never in a circle: every non-empty set of transactions has one with
\* no parent in it. A chain of parents followed long enough comes to an end.
WellFounded ==
    LET up == parents
    IN  \A S \in (SUBSET DOMAIN up) \ {{}} : \E t \in S : up[t] \cap S = {}

Acyclic == Closed /\ WellFounded
=============================================================================
