---------------------------- MODULE MCRecheckLoop ----------------------------
EXTENDS RecheckLoop
=============================================================================
