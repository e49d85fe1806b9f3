------------------------------ MODULE Ledgers ------------------------------
(***************************************************************************)
(* The ledgers on their own, with no protocol to order the calls: any node *)
(* may add any transaction, propose a block, or be handed any block that   *)
(* was ever proposed, at any time and any number of times.                 *)
(***************************************************************************)
EXTENDS Blockchain

CONSTANT MaxChainLength    \* bound: no call once a ledger is this long

Init == InitLedgers

Next ==
  \E n \in Nodes :
    /\ Len(chain[n]) < MaxChainLength
    /\ \/ \E t \in Txs : AddTransaction(n, t)
       \/ \E h \in Hashes : CreateBlock(n, h)
       \/ \E h \in Hashes \cap DOMAIN blocks : AddBlock(n, h)

Spec == Init /\ [][Next]_ledgerVars

-----------------------------------------------------------------------------
BlockHeader(b) ==
  /\ b.index \in Nat
  /\ b.transactions \in Seq(Txs)
  /\ b.previous_hash \in Hashes \cup {Genesis, "0"}

TypeOK ==
  /\ DOMAIN blocks \subseteq Hashes \cup {Genesis}
  /\ \A h \in DOMAIN blocks : BlockHeader(blocks[h])
  /\ chain \in [Nodes -> Seq(DOMAIN blocks)]
  /\ \A n \in Nodes : Len(chain[n]) >= 1
  /\ pending \in [Nodes -> Seq(Txs)]

(***************************************************************************)
(* Whatever order blocks are proposed and delivered in, /validate accepts  *)
(* every ledger and block numbers are positions (blockchain.py:211-233     *)
(* against blockchain.py:253-273): what add_block checks against the tip   *)
(* alone is what validate_chain checks of the whole chain, and the hash,   *)
(* which add_block never checks, survives every copy on the way.           *)
(***************************************************************************)
ValidChains ==
  \A n \in Nodes :
    /\ validate_chain(n)
    /\ \A i \in DOMAIN chain[n] : blocks[chain[n][i]].index = i - 1

(***************************************************************************)
(* A block determines its history: two ledgers that hold the same block    *)
(* hold it at the same height and agree on everything below it, although   *)
(* each of them only ever compared it with its own tip.                    *)
(***************************************************************************)
BlockFixesHistory ==
  \A n, m \in Nodes :
    \A i \in DOMAIN chain[n], j \in DOMAIN chain[m] :
      chain[n][i] = chain[m][j] =>
        i = j /\ \A k \in 1 .. i : chain[n][k] = chain[m][k]

-----------------------------------------------------------------------------
(***************************************************************************)
(* The tree read from the root down: subtree[k][i] spans the 2^k leaves    *)
(* from leaf i on, and a right half that lies wholly beyond the last leaf  *)
(* repeats the left half.  PowersOfTwo(n)[k] is 2^k.                       *)
(***************************************************************************)
PowersOfTwo(n) ==
  LET power[k \in 0 .. n] == IF k = 0 THEN 1 ELSE 2 * power[k - 1]
  IN  power

Height(n) ==
  CHOOSE k \in 0 .. n :
    PowersOfTwo(n)[k] >= n /\ \A j \in 0 .. k - 1 : PowersOfTwo(n)[j] < n

Subtrees(leaves) ==
  LET n == Len(leaves)
      subtree[k \in 0 .. n] ==
        IF k = 0 THEN leaves
        ELSE [i \in 1 .. n |->
                LET right == i + PowersOfTwo(n)[k - 1]
                IN  <<subtree[k - 1][i],
                      subtree[k - 1][IF right <= n THEN right ELSE i]>>]
  IN  subtree

TreeRoot(leaves) == Subtrees(leaves)[Height(Len(leaves))][1]

(***************************************************************************)
(* The level-by-level loop with its odd-length rule builds exactly that    *)
(* tree (utils.py:51-61): no hash is skipped or joined with the wrong      *)
(* neighbour at the levels where the length turns odd.  Two pools one      *)
(* after the other give lists of more lengths than one pool does.          *)
(***************************************************************************)
RootIsTreeRoot ==
  \A n, m \in Nodes :
    LET leaves == pending[n] \o pending[m]
    IN  n # m /\ leaves # <<>> => compute_merkle_root(leaves) = TreeRoot(leaves)

(***************************************************************************)
(* Blocks with the same root carry the same transactions in the same       *)
(* order, whatever their number: the check of add_block and validate_chain *)
(* (blockchain.py:228, 267) would see a transaction lost, added or moved.  *)
(* (It rests on create_block drawing distinct transactions: the duplicated *)
(* last hash makes abc and abcc share a root.)                             *)
(***************************************************************************)
RootIdentifiesBatch ==
  \A h, k \in DOMAIN blocks :
    blocks[h].merkle_root = blocks[k].merkle_root =>
      blocks[h].transactions = blocks[k].transactions
=============================================================================
