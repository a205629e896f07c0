------------------------------ MODULE MCCtCache ------------------------------
EXTENDS CtCache, TLC

Symmetry == Permutations(Calls) \cup Permutations(Domains)
=============================================================================
