----------------------------- MODULE MCOutputPane ------------------------------
EXTENDS OutputPane
=============================================================================
