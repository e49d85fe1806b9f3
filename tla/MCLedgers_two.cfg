\* Two ledgers, three transactions and three proposals: rival blocks, a child
\* delivered before its parent or after its parent's rival, a proposal delivered
\* twice, blocks of up to three transactions.
CONSTANTS
  Nodes = {n1, n2}
  Txs = {t1, t2, t3}
  Hashes = {b1, b2, b3}
  Genesis = genesis
  MIN_TRANSACTIONS_PER_BLOCK = 1
  MAX_TRANSACTIONS_PER_BLOCK = 50
  MaxChainLength = 3
SPECIFICATION Spec
SYMMETRY Symmetry
INVARIANTS TypeOK ValidChains BlockFixesHistory RootIsTreeRoot RootIdentifiesBatch
\* No ledger takes a call once it is MaxChainLength long.
CHECK_DEADLOCK FALSE
