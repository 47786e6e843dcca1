--------------------------- MODULE MCRunnerOrders ---------------------------
EXTENDS RunnerOrders, TLC

Symmetry == Permutations(Intents) \cup Permutations(Threads)
=============================================================================
