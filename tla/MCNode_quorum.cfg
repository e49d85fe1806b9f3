\* The deployed four validators (f = 1), one transaction from a follower.  One
\* node was never started, another may stop in the middle of anything and start
\* again with nothing saved, and one message may be lost: less than the protocol
\* needs to finish, all it needs to go wrong.
CONSTANTS
  Nodes = {n1, n2, n3, n4}
  Hashes = {b1}
  Txs = {t1}
  Genesis = genesis
  LEADER_NODE = n1
  Gateways = {n2}
  Down = {n4}
  MayCrash = {n3}
  MayRestart = {n3}
  MaxLost = 1
  MIN_TRANSACTIONS_PER_BLOCK = 1
  MAX_TRANSACTIONS_PER_BLOCK = 50
SPECIFICATION Spec
INVARIANTS TypeOK CommitCertificate
\* The system stops when the clients do.
CHECK_DEADLOCK FALSE
