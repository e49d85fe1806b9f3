------------------------------ MODULE MCLedgers ------------------------------
EXTENDS Ledgers, TLC

\* Every duplicate-free list has exactly one rest, and it is the filtered one.
ASSUME WithoutFilters ==
  \A s \in UNION {{q \in [1 .. k -> Txs] : \A i, j \in 1 .. k : q[i] = q[j] => i = j} :
                    k \in 0 .. Cardinality(Txs)} :
    \A gone \in SUBSET Txs :
      Without(s, gone) = {SelectSeq(s, LAMBDA t : t \notin gone)}

Symmetry == Permutations(Nodes) \cup Permutations(Txs)
==============================================================================
