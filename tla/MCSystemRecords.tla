---------------------------- MODULE MCSystemRecords ----------------------------
EXTENDS SystemRecords
=============================================================================
