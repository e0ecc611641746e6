--------------------------- MODULE MCPbftCluster ---------------------------
EXTENDS PbftCluster, TLC
CONSTANTS p, r1, r2, r3
Replicas == Permutations({r1, r2, r3})

\* Bound of MCPbftRounds.cfg: two undisturbed rounds, or a first round with an
\* early timer or a stopped node.
OneDisturbance == proposals <= 1 \/ (overlaps = 0 /\ up = Nodes)
=============================================================================
