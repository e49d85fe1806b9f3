\* Four validators; the one (f = 1) that is missing is the leader.
CONSTANTS
  Nodes = {n1, n2, n3, n4}
  Hashes = {b1}
  Txs = {t1}
  Genesis = genesis
  LEADER_NODE = n1
  Gateways = {n2, n3, n4}
  Down = {n1}
  MayCrash = {}
  MayRestart = {}
  MaxLost = 0
  MIN_TRANSACTIONS_PER_BLOCK = 1
  MAX_TRANSACTIONS_PER_BLOCK = 50
SPECIFICATION FairSpec
PROPERTY EveryoneCommits
\* The system stops when the clients do.
CHECK_DEADLOCK FALSE
