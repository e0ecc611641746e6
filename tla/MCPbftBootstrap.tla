---------------------------- MODULE MCPbftBootstrap ----------------------------
EXTENDS PbftBootstrap
=============================================================================
