----------------------------- MODULE MCHostFacts ------------------------------
EXTENDS HostFacts

Number(digits) == [numeric |-> TRUE, chars |-> digits]
Word(letters) == [numeric |-> FALSE, chars |-> letters]

\* 6.9, 6.10.rc and 6.010.1, which as texts would come in another order.
Releases == <<
  <<Number(<<6>>), Number(<<9>>)>>,
  <<Number(<<6>>), Number(<<1, 0>>), Word(<<18, 3>>)>>,
  <<Number(<<6>>), Number(<<0, 1, 0>>), Number(<<1>>)>> >>

\* With the architecture, x86_64, or the flavour, default.
MCKernels == [k \in DOMAIN Releases |->
  Releases[k] \o <<Word(<<24>>), Number(<<8, 6>>), Number(<<6, 4>>)>>]
MCFlavours == [k \in DOMAIN Releases |->
  Releases[k] \o <<Word(<<4, 5, 6, 1, 21, 12, 20>>)>>]

Machine(tools, os) ==
  [tools |-> tools, os |-> os, arch |-> "x86_64", updates |-> TRUE]

\* A host for each rung of the ladder, and one that has nothing to ask.
MCMachines == {
  Machine({"flag"}, {"debian"}),
  Machine({"needs-restarting", "rpm"}, {"fedora"}),
  Machine({"zypper", "rpm"}, {"opensuse", "suse"}),
  Machine({"rpm"}, {"rocky"}),
  Machine({}, {"nixos"}) }
=============================================================================
