\* Nobody fails and nothing is lost: two transactions are enough.
CONSTANTS
  Nodes = {n1, n2}
  Hashes = {b1, b2}
  Txs = {t1, t2}
  Genesis = genesis
  LEADER_NODE = n1
  Gateways = {n1, n2}
  Down = {}
  MayCrash = {}
  MayRestart = {}
  MaxLost = 0
  MIN_TRANSACTIONS_PER_BLOCK = 1
  MAX_TRANSACTIONS_PER_BLOCK = 50
SPECIFICATION Spec
INVARIANT SameBlockAtEachHeight
\* The system stops when the clients do.
CHECK_DEADLOCK FALSE
