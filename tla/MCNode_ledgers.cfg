\* Two validators (f = 0, so a node's own votes are a quorum and every proposal
\* commits): two transactions race for a block, and the follower may stop at any
\* point.  Every order of proposals at the leader and of commits at the follower
\* occurs: rival blocks, a child before its parent.
CONSTANTS
  Nodes = {n1, n2}
  Hashes = {b1, b2}
  Txs = {t1, t2}
  Genesis = genesis
  LEADER_NODE = n1
  Gateways = {n1, n2}
  Down = {}
  MayCrash = {n2}
  MayRestart = {}
  MaxLost = 0
  MIN_TRANSACTIONS_PER_BLOCK = 1
  MAX_TRANSACTIONS_PER_BLOCK = 50
SPECIFICATION Spec
INVARIANTS AgreeBelowTip NoTxTwice LeaderPoolIsTheRest NothingVanishes StrandedOnlyByRivals
PROPERTY ImplementsLeaderChain
\* The system stops when the clients do.
CHECK_DEADLOCK FALSE
