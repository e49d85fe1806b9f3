------------------------------ MODULE MCScripts ------------------------------
EXTENDS Scripts, TLC

CONSTANTS n1, n2, n3

Order == <<n1, n2, n3>>

HashSymmetry == Permutations(Hashes)
=============================================================================
