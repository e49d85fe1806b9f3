----------------------------- MODULE Blockchain -----------------------------
(***************************************************************************)
(* The ledgers of blockchain.py, one per node, and the blocks they share.  *)
(* A block is its hash: blocks maps the hashes computed so far to what was *)
(* hashed, so a chain is a sequence of hashes.  Every operation holds the  *)
(* ledger's lock from beginning to end and is one action.                  *)
(***************************************************************************)
EXTENDS Config, Wire, Naturals, FiniteSets

CONSTANTS
  Txs,        \* transaction identifiers
  Genesis,    \* the hash of the genesis block, the same on every node
  MIN_TRANSACTIONS_PER_BLOCK,
  MAX_TRANSACTIONS_PER_BLOCK

ASSUME LedgerAssumption ==
  /\ Genesis \notin Hashes
  /\ MIN_TRANSACTIONS_PER_BLOCK \in Nat
  /\ MAX_TRANSACTIONS_PER_BLOCK \in Nat

VARIABLES
  blocks,    \* blocks[h]: the header fields and transactions hashed into h
  chain,     \* chain[n]: self.chain of node n, a sequence of hashes
  pending    \* pending[n]: self.pending_transactions of node n

ledgerVars == <<blocks, chain, pending>>

-----------------------------------------------------------------------------
Elements(s) == {s[i] : i \in DOMAIN s}
TxsOf(h) == Elements(blocks[h].transactions)
Tip(n) == chain[n][Len(chain[n])]

GenesisBlock == [index |-> 0, previous_hash |-> "0", transactions |-> <<>>,
                 merkle_root |-> compute_merkle_root(<<>>)]

\* The list comprehension of add_block: s without the elements of `gone', in
\* the order of s.  (For a duplicate-free s there is exactly one such r.)
\* Seeded faults: nothing is removed; everything is.
Without_Nothing(s, gone) == {s}
Without_Everything(s, gone) == {<<>>}

Without(s, gone) ==
  {r \in UNION {[1 .. k -> Elements(s)] : k \in 0 .. Len(s)} :
     /\ Elements(r) = Elements(s) \ gone
     /\ \A i, j \in DOMAIN r : i < j =>
          \E a, b \in DOMAIN s : a < b /\ s[a] = r[i] /\ s[b] = r[j]}

InitLedgers ==
  /\ blocks = [h \in {Genesis} |-> GenesisBlock]
  /\ chain = [n \in Nodes |-> <<Genesis>>]
  /\ pending = [n \in Nodes |-> <<>>]

-----------------------------------------------------------------------------
(***************************************************************************)
(* add_transaction                                                         *)
(***************************************************************************)
AddTransaction(n, t) ==
  /\ pending' = IF t \in Elements(pending[n]) THEN pending
                ELSE [pending EXCEPT ![n] = Append(@, t)]
  /\ UNCHANGED <<blocks, chain>>

(***************************************************************************)
(* create_block: a candidate on the tip with the oldest transactions of    *)
(* the pool, which stay in the pool.  The hash covers time.time(), so it   *)
(* is a new one unless the same block was already made in the same tick.   *)
(* Which unused hash it is makes no difference.                            *)
(***************************************************************************)
CanCreate(n) == Len(pending[n]) >= MIN_TRANSACTIONS_PER_BLOCK

\* Seeded faults: the numbering runs backwards; the first block of the chain
\* is taken for the latest.
Candidate_CountsDown(n) ==
  [index |-> blocks[Tip(n)].index - 1,
   previous_hash |-> Tip(n),
   transactions |-> pending[n],
   merkle_root |-> compute_merkle_root(pending[n])]

Candidate_OnFirst(n) ==
  [index |-> blocks[Tip(n)].index + 1,
   previous_hash |-> chain[n][1],
   transactions |-> pending[n],
   merkle_root |-> compute_merkle_root(pending[n])]

Candidate(n) ==
  LET size == IF Len(pending[n]) < MAX_TRANSACTIONS_PER_BLOCK
              THEN Len(pending[n]) ELSE MAX_TRANSACTIONS_PER_BLOCK
      batch == SubSeq(pending[n], 1, size)
  IN  [index |-> blocks[Tip(n)].index + 1,
       previous_hash |-> Tip(n),
       transactions |-> batch,
       merkle_root |-> compute_merkle_root(batch)]

Unused == Hashes \ DOMAIN blocks

DigestOf(block, h) ==
  \/ h \in DOMAIN blocks /\ blocks[h] = block
  \/ Unused # {} /\ h = CHOOSE u \in Unused : TRUE

CreateBlock(n, h) ==
  /\ CanCreate(n)
  /\ DigestOf(Candidate(n), h)
  /\ blocks' = [b \in DOMAIN blocks \cup {h} |->
                  IF b = h THEN Candidate(n) ELSE blocks[b]]
  /\ UNCHANGED <<chain, pending>>

(***************************************************************************)
(* add_block: three checks against the tip, then the block is appended and *)
(* its transactions leave the pool.                                        *)
(***************************************************************************)
\* Seeded faults: no check of the parent; no check against the tip at all.
Acceptable_AnyParent(n, h) ==
  /\ blocks[h].index = blocks[Tip(n)].index + 1
  /\ blocks[h].merkle_root = compute_merkle_root(blocks[h].transactions)

Acceptable_Anywhere(n, h) ==
  blocks[h].merkle_root = compute_merkle_root(blocks[h].transactions)

Acceptable(n, h) ==
  /\ blocks[h].index = blocks[Tip(n)].index + 1
  /\ blocks[h].previous_hash = Tip(n)
  /\ blocks[h].merkle_root = compute_merkle_root(blocks[h].transactions)

AddBlock(n, h) ==
  \/ /\ Acceptable(n, h)
     /\ chain' = [chain EXCEPT ![n] = Append(@, h)]
     /\ \E rest \in Without(pending[n], TxsOf(h)) :
          pending' = [pending EXCEPT ![n] = rest]
     /\ UNCHANGED blocks
  \/ /\ ~Acceptable(n, h)
     /\ UNCHANGED ledgerVars

(***************************************************************************)
(* What ledgers hold are copies.  A transaction is copied when it reaches  *)
(* a pool (node.py:157), a block when it has committed (node.py:219), on   *)
(* the leader too, and each copy is made at a later time than the original.*)
(***************************************************************************)
Made(h) ==
  NewBlock(blocks[h].index, blocks[h].previous_hash,
           [i \in DOMAIN blocks[h].transactions |->
              TransactionFromDict(
                NewTransaction(blocks[h].transactions[i], "submitted"), "pooled")],
           0, "proposed")

Kept(h) == BlockFromDict(Made(h), "committed")

\* validate_chain, after the genesis block, of the copies.  (A block is named
\* by its hash, so its predecessor's hash is the element before it.)
validate_chain(n) ==
  \A i \in 2 .. Len(chain[n]) :
    LET current == Kept(chain[n][i]) IN
    /\ current.hash = calculate_hash(current)
    /\ current.previous_hash = chain[n][i - 1]
    /\ current.merkle_root = RootOf(current.transactions)
=============================================================================
