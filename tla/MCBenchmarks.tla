----------------------------- MODULE MCBenchmarks ------------------------------
EXTENDS Benchmarks
=============================================================================
