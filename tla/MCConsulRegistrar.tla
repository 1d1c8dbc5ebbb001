--------------------------- MODULE MCConsulRegistrar ---------------------------
EXTENDS ConsulRegistrar
=============================================================================
