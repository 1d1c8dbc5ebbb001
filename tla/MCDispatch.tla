------------------------------ MODULE MCDispatch -------------------------------
EXTENDS Dispatch, TLC

Symmetry == Permutations(Hosts) \cup Permutations(Requests)
=============================================================================
