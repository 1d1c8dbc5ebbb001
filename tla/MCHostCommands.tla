---------------------------- MODULE MCHostCommands ----------------------------
EXTENDS HostCommands, TLC

\* Run and reboot IDs are only ever compared for equality.
Symmetry == Permutations(Runs) \cup Permutations(Reboots)
=============================================================================
