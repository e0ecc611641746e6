------------------------------- MODULE TxLedger -------------------------------
(***************************************************************************)
(* What the raft program promises its clients: transactions are executed   *)
(* in one order, each at most once; a transaction answered with a result    *)
(* has been executed, one answered with a refusal never will be. A          *)
(* transaction answered with neither may or may not have been executed.     *)
(***************************************************************************)
EXTENDS SequencesExt

CONSTANT Tx

VARIABLES
    accepted,       \* transactions a handler has received
    ledger,         \* those executed, in order
    confirmed,      \* those whose result has been reported
    refused         \* those reported as not executed

vars == <<accepted, ledger, confirmed, refused>>

Init == accepted = {} /\ ledger = <<>> /\ confirmed = {} /\ refused = {}

Accept(t) ==
    /\ t \notin accepted
    /\ accepted' = accepted \cup {t}
    /\ UNCHANGED <<ledger, confirmed, refused>>

Execute(t) ==
    /\ t \in accepted \ (ToSet(ledger) \cup refused)
    /\ ledger' = Append(ledger, t)
    /\ UNCHANGED <<accepted, confirmed, refused>>

Confirm(t) ==
    /\ t \in ToSet(ledger)
    /\ confirmed' = confirmed \cup {t}
    /\ UNCHANGED <<accepted, ledger, refused>>

Refuse(t) ==
    /\ t \in accepted \ ToSet(ledger)
    /\ refused' = refused \cup {t}
    /\ UNCHANGED <<accepted, ledger, confirmed>>

Next == \E t \in Tx : Accept(t) \/ Execute(t) \/ Confirm(t) \/ Refuse(t)

Spec == Init /\ [][Next]_vars

-----------------------------------------------------------------------------
\* What a client has been told remains true: a result is that of an executed
\* transaction, a refused one is not executed, before or after the refusal.
Honest ==
    /\ confirmed \subseteq ToSet(ledger)
    /\ refused \cap ToSet(ledger) = {}
=============================================================================
