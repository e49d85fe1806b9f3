------------------------------- MODULE Merkle -------------------------------
(***************************************************************************)
(* compute_merkle_root of utils.py, with SHA-256 taken as a free           *)
(* constructor: hash_data(left + right) is the pair <<left, right>> and    *)
(* hash_data("") is the empty tuple.  Two roots are then equal exactly     *)
(* when the code hashes the same tree.                                     *)
(***************************************************************************)
EXTENDS Naturals, Sequences

EmptyRoot == <<>>

\* One pass of the while loop: neighbours are joined, and the last hash of a
\* level of odd length is joined with itself.
\* (Seeded fault: the last hash of an odd level is joined with the first.)
NextLevel_WrapsAround(level) ==
  [i \in 1 .. (Len(level) + 1) \div 2 |->
     <<level[2 * i - 1],
       IF 2 * i <= Len(level) THEN level[2 * i] ELSE level[1]>>]

\* (Seeded fault: the last hash of an odd level is dropped.)
NextLevel_DropsLast(level) ==
  [i \in 1 .. Len(level) \div 2 |-> <<level[2 * i - 1], level[2 * i]>>]

NextLevel(level) ==
  [i \in 1 .. (Len(level) + 1) \div 2 |->
     <<level[2 * i - 1],
       IF 2 * i <= Len(level) THEN level[2 * i] ELSE level[2 * i - 1]>>]

\* The loop itself: level k is what is left after k passes; a level of one
\* hash ends it, so Len(tx_hashes) passes are always enough.
Levels(tx_hashes) ==
  LET level[k \in 0 .. Len(tx_hashes)] ==
        IF k = 0 THEN tx_hashes
        ELSE LET current == level[k - 1]
             IN  IF Len(current) > 1 THEN NextLevel(current) ELSE current
  IN  level

compute_merkle_root(tx_hashes) ==
  IF Len(tx_hashes) = 0
  THEN EmptyRoot
  ELSE Levels(tx_hashes)[Len(tx_hashes)][1]
=============================================================================
