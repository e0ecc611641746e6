------------------------------ MODULE MCTangle ------------------------------
EXTENDS Tangle
=============================================================================
