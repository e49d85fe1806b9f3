\* Four validators, one (f) of them never started, no message lost.
CONSTANTS
  Nodes = {n1, n2, n3, n4}
  Hashes = {b1}
  Txs = {t1}
  Genesis = genesis
  LEADER_NODE = n1
  Gateways = {n2}
  Down = {n4}
  MayCrash = {}
  MayRestart = {}
  MaxLost = 0
  MIN_TRANSACTIONS_PER_BLOCK = 1
  MAX_TRANSACTIONS_PER_BLOCK = 50
  Asked = {n1}
SPECIFICATION RestSpec
INVARIANTS StatusAddsUp ProposalsAreDecided
PROPERTY EveryoneCommits
