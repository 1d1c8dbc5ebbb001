------------------------- MODULE MCPendingUpdates ----------------------------
EXTENDS PendingUpdates

\* Every collector, and the two pairs that a host has together.
MCHosts == {{"apt", "nixos"}, {"dnf", "yum"}, {"yum"}, {"zypper"}, {"brew"}, {}}

\* An update that is read, and one that neither dnf's parser nor nixos's sees.
MCLines == {{}, {"status", "section"}}
MCPrints == [m \in Managers |-> IF m \in {"dnf", "nixos"} THEN MCLines ELSE {{}}]
=============================================================================
