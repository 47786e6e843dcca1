---------------------------- MODULE MCRunnerRisk ----------------------------
EXTENDS RunnerRisk, TLC

CONSTANTS b1, b2, x1

\* One lot each; the first buy may also be asked, or amended, to two.
MCAsked == {<<b1, 1>>, <<b1, 2>>, <<b2, 1>>, <<x1, 1>>}

Symmetry == Permutations(Threads)
=============================================================================
