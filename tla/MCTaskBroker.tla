---------------------------- MODULE MCTaskBroker ----------------------------
EXTENDS TaskBroker, TLC

Symmetry == Permutations(Procs)
Routed == ~misrouted
=============================================================================
