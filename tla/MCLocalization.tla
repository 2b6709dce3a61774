--------------------------- MODULE MCLocalization ---------------------------
EXTENDS Localization, TLC

Symmetry == Permutations(Threads) \cup Permutations(Objects) \cup Permutations(Ids)
=============================================================================
