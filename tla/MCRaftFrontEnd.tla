---------------------------- MODULE MCRaftFrontEnd ----------------------------
EXTENDS RaftFrontEnd
=============================================================================
