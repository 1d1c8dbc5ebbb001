--------------------------- MODULE MCOperationsPage ---------------------------
EXTENDS OperationsPage
=============================================================================
