------------------------------- MODULE Config -------------------------------
(***************************************************************************)
(* What every part of the program reads from config.py, and the digests    *)
(* that tie the parts together.                                            *)
(***************************************************************************)
EXTENDS FiniteSets

CONSTANTS
  Nodes,    \* the validators, the keys of NODES in config.py
  Hashes    \* the block hashes that can occur (the genesis hash excluded)

ASSUME NodesAssumption == IsFiniteSet(Nodes)
=============================================================================
