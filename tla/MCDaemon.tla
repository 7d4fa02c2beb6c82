------------------------------ MODULE MCDaemon ------------------------------
EXTENDS Daemon, TLC

Symmetry == Permutations(Proc) \cup Permutations(Stopper)
=============================================================================
