---------------------------- MODULE PbftBootstrap ----------------------------
(***************************************************************************)
(* How the nodes of the pbft program learn each other's keys: NewNode      *)
(* makes a key, HttpInitialize (pbft/network/consensusInterface.go) starts *)
(* the server and, a second later, broadcasts the node's NodeInfo, once.   *)
(* A node counts a signature only if its key is in NodeInfoTable           *)
(* (ValidateSignature), so a table with gaps costs it votes.               *)
(*                                                                         *)
(* Abstractions:                                                           *)
(*   - keys are random: the n-th start of the whole cluster makes key n,   *)
(*     and NodeInfo is its key;                                            *)
(*   - a node listens from its start, a moment after it in the code;       *)
(*   - the broadcast goes through a map: any node comes next, and posts    *)
(*     arrive if the destination is up.                                    *)
(***************************************************************************)
EXTENDS Integers, FiniteSets

CONSTANTS
    Node,           \* the nodes of pbft_cluster
    MaxStarts       \* bound: how often nodes start, all together

ASSUME NodesAssumption == IsFiniteSet(Node) /\ MaxStarts \in Nat

VARIABLES
    up,             \* the nodes whose process runs
    key,            \* the key of a node's last start, 0 before the first
    table,          \* NodeInfoTable: the keys a node knows
    greeting,       \* where a node is with its broadcast
    left,           \* the nodes its broadcast has yet to come to
    starts,         \* history: how often nodes have started
    apart           \* history: some node has started after another has begun
                    \* its broadcast, or has stopped

tableVars == <<key, table>>
greetingVars == <<greeting, left>>
vars == <<up, tableVars, greetingVars, starts, apart>>

Init ==
    /\ up = {}
    /\ key = [n \in Node |-> 0]
    /\ table = [n \in Node |-> {}]
    /\ greeting = [n \in Node |-> "none"]
    /\ left = [n \in Node |-> {}]
    /\ starts = 0
    /\ apart = FALSE

\* Mutant: a node that starts again finds the table of its last run, but not
\* the key.
StartKept(n) ==
    /\ n \notin up /\ starts < MaxStarts
    /\ up' = up \cup {n}
    /\ starts' = starts + 1
    /\ key' = [key EXCEPT ![n] = starts']
    /\ greeting' = [greeting EXCEPT ![n] = "waiting"]
    /\ left' = [left EXCEPT ![n] = Node \ {n}]
    /\ UNCHANGED table
    /\ apart' = (apart \/ \E m \in Node : greeting[m] \in {"sending", "over"})

\* NewNode and HttpInitialize: a new key, a table with nothing else.
Start(n) ==
    /\ n \notin up /\ starts < MaxStarts
    /\ up' = up \cup {n}
    /\ starts' = starts + 1
    /\ key' = [key EXCEPT ![n] = starts']
    /\ table' = [table EXCEPT ![n] = {starts'}]
    /\ greeting' = [greeting EXCEPT ![n] = "waiting"]
    /\ left' = [left EXCEPT ![n] = Node \ {n}]
    /\ apart' = (apart \/ \E m \in Node : greeting[m] \in {"sending", "over"})

\* The second is over: Broadcast begins.
Greet(n) ==
    /\ n \in up /\ greeting[n] = "waiting"
    /\ greeting' = [greeting EXCEPT ![n] = "sending"]
    /\ UNCHANGED <<up, tableVars, left, starts, apart>>

\* Mutant: the broadcast goes to the nodes the sender knows.
PostKnown(n, m) ==
    /\ n \in up /\ greeting[n] = "sending" /\ m \in left[n]
    /\ left' = [left EXCEPT ![n] = @ \ {m}]
    /\ table' = IF m \in up /\ key[m] \in table[n]
                  THEN [table EXCEPT ![m] = @ \cup {key[n]}]
                  ELSE table
    /\ UNCHANGED <<up, key, greeting, starts, apart>>

\* Mutant: the receiver's table keeps one key only.
PostReplaces(n, m) ==
    /\ n \in up /\ greeting[n] = "sending" /\ m \in left[n]
    /\ left' = [left EXCEPT ![n] = @ \ {m}]
    /\ table' = IF m \in up THEN [table EXCEPT ![m] = {key[m], key[n]}] ELSE table
    /\ UNCHANGED <<up, key, greeting, starts, apart>>

\* send and, if the destination is up, its GetNodeInfo. Errors are ignored.
Post(n, m) ==
    /\ n \in up /\ greeting[n] = "sending" /\ m \in left[n]
    /\ left' = [left EXCEPT ![n] = @ \ {m}]
    /\ table' = IF m \in up THEN [table EXCEPT ![m] = @ \cup {key[n]}] ELSE table
    /\ UNCHANGED <<up, key, greeting, starts, apart>>

\* Broadcast returns.
FinishGreeting(n) ==
    /\ n \in up /\ greeting[n] = "sending" /\ left[n] = {}
    /\ greeting' = [greeting EXCEPT ![n] = "over"]
    /\ UNCHANGED <<up, tableVars, left, starts, apart>>

\* The process ends; nothing of it is stored.
Stop(n) ==
    /\ n \in up
    /\ up' = up \ {n}
    /\ table' = [table EXCEPT ![n] = {}]
    /\ greeting' = [greeting EXCEPT ![n] = "none"]
    /\ left' = [left EXCEPT ![n] = {}]
    /\ apart' = TRUE
    /\ UNCHANGED <<key, starts>>

Progress(n) == Greet(n) \/ FinishGreeting(n) \/ \E m \in Node : Post(n, m)

Next == \E n \in Node : Start(n) \/ Stop(n) \/ Progress(n)

Spec == Init /\ [][Next]_vars

\* A running node's goroutine goes on. Nothing makes a node start or stop.
Fairness == \A n \in Node : WF_vars(Progress(n))

FairSpec == Spec /\ Fairness

-----------------------------------------------------------------------------
(* Properties.                                                             *)

\* n counts the signatures m makes now.
Knows(n, m) == key[m] \in table[n]

\* The types of the variables. The keys are those of starts; a running node
\* knows its own (NewNode, 124-130).
TypeOK ==
    /\ up \subseteq Node
    /\ starts \in 0..MaxStarts
    /\ key \in [Node -> 0..starts]
    /\ table \in [Node -> SUBSET (1..starts)]
    /\ greeting \in [Node -> {"none", "waiting", "sending", "over"}]
    /\ left \in [Node -> SUBSET Node]
    /\ \A n \in up : greeting[n] # "none" /\ key[n] \in table[n]
    /\ apart \in BOOLEAN

\* Whoever of two nodes has started later, the other knows it once its
\* broadcast is over; so at least one of any two knows the other, restarts
\* included (58-68, 75-89).
LaterKnown ==
    \A n, m \in up : greeting[m] = "over" /\ key[n] <= key[m] => Knows(n, m)

\* Nodes that are all started before the first broadcast, within the second
\* that HttpInitialize waits, all know each other afterwards: what the start of
\* a cluster relies on (node_test.go, 45).
TogetherComplete ==
    ~apart /\ up = Node /\ (\A n \in Node : greeting[n] = "over")
        => \A n, m \in Node : Knows(n, m)

\* What a broadcast has yet to come to: everyone before it, nobody after it.
Coming ==
    \A m \in up :
        /\ greeting[m] = "waiting" => left[m] = Node \ {m}
        /\ greeting[m] = "over" => left[m] = {}

\* A broadcast has been received by those it has come to, except the ones that
\* started after its sender, of which there are none before "apart".
Reached ==
    \A n, m \in up :
        n \notin left[m] /\ (apart => key[n] <= key[m]) => Knows(n, m)

\* A node does not forget a key while it runs: votes it has counted count again.
NothingForgotten ==
    [][\A n \in Node : n \in up /\ n \in up' => table[n] \subseteq table'[n]]_vars

\* The exchange ends: of two nodes that keep running, the one that started
\* first knows the other in the end.
LaterLearned ==
    \A n, m \in Node :
        (n \in up /\ m \in up /\ 0 < key[n] /\ key[n] < key[m])
            ~> (Knows(n, m) \/ n \notin up \/ m \notin up)
=============================================================================
