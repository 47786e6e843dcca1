-------------------------- MODULE MCAnalysisTasks --------------------------
EXTENDS AnalysisTasks, TLC

Symmetry == Permutations(Clients) \cup Permutations(Workers)
=============================================================================
