------------------------------- MODULE Tangle -------------------------------
(***************************************************************************)
(* One node of tangle_blockChain (tangle/tangle.go, tangle/transaction.go):*)
(* calls of PublishTransaction build transactions on the tips they read,   *)
(* while the goroutine UpdateTipSet confirms candidates and drops old tips.*)
(*                                                                         *)
(* Time. The unit is h/2, the period of UpdateTipSet's first ticker; its   *)
(* second one fires every TipExpire units. A ticker holds one tick at most *)
(* and drops the others while its reader is late. Ages count the units     *)
(* begun since a time stamp: age a stands for a real age of more than      *)
(* a - 1 and less than a + 1 units, so of ages equal to a limit either     *)
(* answer of a comparison is possible. They are capped just above it.      *)
(*                                                                         *)
(* Abstractions:                                                           *)
(*   - a transaction is the number of the call that publishes it: TxID is  *)
(*     a hash over its time stamp, sender and nonce;                       *)
(*   - a confirmation is one step: curTipMutex and candidateTipMutex are    *)
(*     held throughout, and SelectApproveTx, which needs neither, reads     *)
(*     nothing of the Database that a confirmation changes;                 *)
(*   - Weight, Height and Score are left out: they stay 0. The first Hash   *)
(*     of Pow resets Weight, and only the genesis branches of               *)
(*     SelectApproveTx and UpdatePreviousTx add to Height and Score; they   *)
(*     are never taken, since no transaction has its GenesisTx set;         *)
(*   - WorldState holds results only; what is kept is which transactions    *)
(*     have been executed, and how many executions there were (txCount).    *)
(* Nothing comes from other nodes: OthersUrl, to which NodeInfo is sent, is *)
(* filled from received NodeInfo alone, so that it stays empty, and GetNewTx*)
(* looks a sender up by the address of the connection, which is never a key.*)
(* MessagePool stays empty, and the handling of its messages is left out.   *)
(***************************************************************************)
EXTENDS Integers, FiniteSets, FiniteSetsExt

CONSTANTS
    L0,             \* tips wanted at most, 2 * lambda * h in the code
    K,              \* transactions to approve, 2 in the code
    TipExpire,      \* tipExpireTime, in units of h/2
    MaxTx,          \* bound: transactions published
    MaxCalls        \* bound: calls of PublishTransaction at a time

ASSUME LimitsAssumption == L0 \in Nat /\ K \in Nat /\ TipExpire \in Nat \ {0}
ASSUME MaximaAssumption == MaxTx \in Nat /\ MaxCalls \in Nat

Genesis == 0
Txs == 0..MaxTx

VARIABLES
    tips,           \* TipSet
    candidates,     \* CandidateTips
    stored,         \* the transactions in Database: the confirmed ones
    previous,       \* PreviousTxs of each transaction
    approved,       \* ApproveTx of each transaction
    depth,          \* Depth of each stored transaction
    age,            \* of a tip since it is one, else since its TimeStamp
    created,        \* transactions begun: 1..created
    selecting,      \* those whose call has read the tips
    broadcasting,   \* those whose call is at work on Pow or Broadcast
    txCount,        \* executions of confirmed transactions
    cycleDue,       \* the ticker of h/2 holds a tick
    expireDue,      \* the ticker of tipExpireTime holds a tick
    phase,          \* units since the last tick of tipExpireTime
    cancelled,      \* the context is cancelled (finFunc)
    updating        \* UpdateTipSet has not returned

graphVars == <<stored, previous, approved, depth, txCount>>
callVars == <<created, selecting, broadcasting>>
timerVars == <<cycleDue, expireDue, phase>>
runVars == <<cancelled, updating>>
vars == <<tips, candidates, stored, previous, approved, depth, age, created,
          selecting, broadcasting, txCount, cycleDue, expireDue, phase,
          cancelled, updating>>

Init ==
    /\ tips = {Genesis}
    /\ candidates = {}
    /\ stored = {Genesis}
    /\ previous = [t \in Txs |-> {}]
    /\ approved = [t \in Txs |-> {}]
    /\ depth = [t \in Txs |-> 0]
    /\ age = [t \in Txs |-> 0]
    /\ created = 0
    /\ selecting = {}
    /\ broadcasting = {}
    /\ txCount = 0
    /\ cycleDue = FALSE
    /\ expireDue = FALSE
    /\ phase = 0
    /\ cancelled = FALSE
    /\ updating = TRUE

-----------------------------------------------------------------------------
(* Time.                                                                   *)

\* The delay h from TimeStamp to confirmation, in units of h/2.
Delay == 2

\* Ages are counted up to just above the limit they are compared with.
Cap(t) == 1 + (IF t \in tips THEN TipExpire ELSE Delay)

Dated == tips \cup candidates \cup broadcasting

Tick ==
    /\ age' = [t \in Txs |-> IF t \in Dated /\ age[t] < Cap(t)
                             THEN age[t] + 1 ELSE age[t]]
    /\ cycleDue' = TRUE
    /\ phase' = (phase + 1) % TipExpire
    /\ expireDue' = (expireDue \/ phase' = 0)
    /\ UNCHANGED <<tips, candidates, graphVars, callVars, runVars>>

-----------------------------------------------------------------------------
(* PublishTransaction.                                                     *)

\* Mutant: a transaction may build on candidates, too.
TipsReadAll == tips \cup candidates

\* Mutant: the new transaction is a tip before its call reads the tips.
TipsReadOwn == tips \cup {created + 1}

\* The tips copied under curTipMutex.
TipsRead == tips

ReadTips ==
    /\ ~cancelled
    /\ created < MaxTx
    /\ Cardinality(selecting \cup broadcasting) < MaxCalls
    /\ created' = created + 1
    /\ previous' = [previous EXCEPT ![created + 1] = TipsRead]
    /\ selecting' = selecting \cup {created + 1}
    /\ UNCHANGED <<tips, candidates, stored, approved, depth, age,
                   broadcasting, txCount, timerVars, runVars>>

\* RandomApproveStrategy: K of the previous transactions, or all of them if
\* there are fewer.
ApproveChoices(P) == kSubset(IF Cardinality(P) < K THEN Cardinality(P) ELSE K, P)

\* NewTransaction takes the time stamp, SelectApproveTx what is approved.
Approve(t) ==
    /\ t \in selecting
    /\ \E S \in ApproveChoices(previous[t]) : approved' = [approved EXCEPT ![t] = S]
    /\ selecting' = selecting \ {t}
    /\ broadcasting' = broadcasting \cup {t}
    /\ UNCHANGED <<tips, candidates, stored, previous, depth, age, created,
                   txCount, timerVars, runVars>>

\* Pow and Broadcast have ended, however long they took.
AddCandidate(t) ==
    /\ t \in broadcasting
    /\ broadcasting' = broadcasting \ {t}
    /\ candidates' = candidates \cup {t}
    /\ UNCHANGED <<tips, graphVars, age, created, selecting, timerVars, runVars>>

-----------------------------------------------------------------------------
(* UpdateTipSet.                                                           *)

\* UpdatePreviousTx: those of batch S whose confirmation deepens t.
Supporters(t, S) == {x \in S : t \in previous[x]}

\* Mutant: a candidate becomes a tip before its age is looked at.
PromotedAll(S) == tips \cup candidates

\* The tips when batch S has been confirmed.
Promoted(S) == tips \cup S

\* Mutant: the candidates stay where they are.
RemainingAll(S) == candidates

\* The candidates left when batch S has been confirmed.
Remaining(S) == candidates \ S

\* S may be the candidates found older than h. The time is read before the
\* locks are taken and the difference is unsigned: a candidate stamped later
\* than that counts as old, too.
Confirmable(S) ==
    /\ \A t \in S : age[t] >= Delay \/ age[t] = 0
    /\ \A t \in candidates \ S : age[t] <= Delay

\* A tick of h/2 with room for tips: every candidate older than h is made a
\* tip, stored with a Depth of 0, counted at its parents, and executed.
Confirm ==
    /\ updating
    /\ cycleDue
    /\ Cardinality(tips) < L0
    /\ \E S \in SUBSET candidates :
          /\ Confirmable(S)
          /\ tips' = Promoted(S)
          /\ candidates' = Remaining(S)
          /\ stored' = stored \cup S
          /\ age' = [t \in Txs |-> IF t \in S THEN 0 ELSE age[t]]
          /\ depth' = [t \in Txs |-> (IF t \in S THEN 0 ELSE depth[t])
                                     + Cardinality(Supporters(t, S))]
          /\ txCount' = txCount + Cardinality(S)
    /\ cycleDue' = FALSE
    /\ UNCHANGED <<previous, approved, callVars, expireDue, phase, runVars>>

\* A tick of h/2 while there are L0 tips or more.
SkipCycle ==
    /\ updating
    /\ cycleDue
    /\ Cardinality(tips) >= L0
    /\ cycleDue' = FALSE
    /\ UNCHANGED <<tips, candidates, graphVars, age, callVars, expireDue,
                   phase, runVars>>

\* Mutant: the comparison of times is the wrong way round.
ExpiringYoung(S) ==
    (\A t \in S : age[t] < TipExpire) /\ (\A t \in tips \ S : age[t] >= TipExpire)

\* S may be the tips found older than tipExpireTime.
Expiring(S) ==
    (\A t \in S : age[t] >= TipExpire) /\ (\A t \in tips \ S : age[t] <= TipExpire)

\* A tick of tipExpireTime.
Expire ==
    /\ updating
    /\ expireDue
    /\ \E S \in SUBSET tips :
          /\ Expiring(S)
          /\ tips' = tips \ S
          /\ age' = [t \in Txs |-> IF t \in S THEN 0 ELSE age[t]]
    /\ expireDue' = FALSE
    /\ UNCHANGED <<candidates, graphVars, callVars, cycleDue, phase, runVars>>

-----------------------------------------------------------------------------
(* The end of the program: main cancels the context between two calls, and *)
(* UpdateTipSet may still serve ticks before it sees that.                 *)

Cancel ==
    /\ ~cancelled
    /\ selecting = {} /\ broadcasting = {}
    /\ cancelled' = TRUE
    /\ UNCHANGED <<tips, candidates, graphVars, age, callVars, timerVars,
                   updating>>

Quit ==
    /\ updating
    /\ cancelled
    /\ updating' = FALSE
    /\ UNCHANGED <<tips, candidates, graphVars, age, callVars, timerVars,
                   cancelled>>

-----------------------------------------------------------------------------
Next ==
    \/ Tick
    \/ ReadTips
    \/ \E t \in Txs : Approve(t) \/ AddCandidate(t)
    \/ Confirm \/ SkipCycle \/ Expire
    \/ Cancel \/ Quit

Spec == Init /\ [][Next]_vars

\* Time passes, calls of PublishTransaction end, and a select that finds a
\* tick again and again takes it: Go chooses among the ready cases at random.
Fairness ==
    /\ WF_vars(Tick)
    /\ \A t \in Txs \ {Genesis} : WF_vars(Approve(t) \/ AddCandidate(t))
    /\ WF_vars(Confirm \/ SkipCycle) /\ WF_vars(Expire)

FairSpec == Spec /\ Fairness

-----------------------------------------------------------------------------
(* Properties.                                                             *)

\* The type invariant. Every tip is in the Database: TipSet holds hashes only.
TypeOK ==
    /\ tips \subseteq stored
    /\ stored \subseteq 0..created
    /\ Genesis \in stored
    /\ candidates \subseteq 1..created
    /\ selecting \subseteq 1..created
    /\ broadcasting \subseteq 1..created
    /\ previous \in [Txs -> SUBSET Txs]
    /\ approved \in [Txs -> SUBSET Txs]
    /\ depth \in [Txs -> Nat]
    /\ age \in [Txs -> Nat]
    /\ created \in 0..MaxTx
    /\ txCount \in Nat
    /\ phase \in 0..(TipExpire - 1)
    /\ cycleDue \in BOOLEAN /\ expireDue \in BOOLEAN
    /\ cancelled \in BOOLEAN /\ updating \in BOOLEAN

\* Every transaction builds on confirmed ones only, while its call is at work
\* and ever after, although its tips may expire in the meantime: what
\* SelectApproveTx and UpdatePreviousTx look up in the Database is there
\* (a missing one would be decoded to nil and dereferenced).
ParentsStored == \A t \in Txs : approved[t] \subseteq previous[t] /\ previous[t] \subseteq stored

\* Every transaction begun is at exactly one place: with its call, before or
\* after its time stamp, among the candidates or in the Database.
OnePlace ==
    /\ selecting \cup broadcasting \cup candidates \cup stored = 0..created
    /\ selecting \cap (broadcasting \cup candidates \cup stored) = {}
    /\ broadcasting \cap (candidates \cup stored) = {}
    /\ candidates \cap stored = {}

\* No transaction is lost or confirmed twice between the steps of its call and
\* of UpdateTipSet: each is counted and executed once, and BackTxCount is the
\* number of stored transactions but for the genesis transaction.
CountedOnce == OnePlace /\ txCount = Cardinality(stored \ {Genesis})

\* What Depth is: the number of confirmed transactions that saw t as a tip,
\* approved or not (UpdatePreviousTx adds 1 for each, and nowhere else).
DepthCounts ==
    \A t \in stored : depth[t] = Cardinality({x \in stored : t \in previous[x]})

\* From t to a tip: the lengths of the paths of PreviousTxs between confirmed
\* transactions.
Lengths(t) ==
    LET after[n \in 0..MaxTx] ==
            IF n = 0 THEN {t}
            ELSE {x \in stored : previous[x] \cap after[n - 1] # {}}
    IN  {n \in 0..MaxTx : after[n] \cap tips # {}}

\* "Depth: the maximal length to a tip" (transaction.go:96), of a confirmed
\* transaction with a path to a tip.
DepthIsLength == \A t \in stored : Lengths(t) # {} => depth[t] = Max(Lengths(t))

\* Every transaction a call has begun is confirmed in the end, although
\* confirmations pause while there are L0 tips, unless the program ends first.
TxConfirmed == \A t \in 1..MaxTx : created >= t ~> t \in stored \/ cancelled

\* The refinement mapping: the confirmed transactions and their parents.
Ledger == INSTANCE DagLedger WITH
              Transactions <- Txs, Root <- Genesis,
              parents <- [t \in stored |-> previous[t]]
Refinement == Ledger!Spec

\* The confirmed transactions form an acyclic graph, closed under parents
\* (PublishTransaction, 255-289), although the tips a call has read may have
\* expired, and others have been confirmed, before its own is.
Acyclic == Ledger!Acyclic
=============================================================================
