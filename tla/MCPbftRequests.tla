---------------------------- MODULE MCPbftRequests ----------------------------
EXTENDS PbftRequests
=============================================================================
