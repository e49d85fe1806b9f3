\* A script for a follower, other clients at the leader, three nodes to ask, and
\* three proposals: rivals, children, children of rivals.  The follower or the
\* leader may restart.
CONSTANTS
  n1 = n1
  n2 = n2
  n3 = n3
  Nodes = {n1, n2, n3}
  NodeOrder <- Order
  Hashes = {b1, b2, b3}
  Genesis = genesis
  Leader = n1
  MayStartOver = {n1, n2}
  Targets = {n2}
  Gateways = {n1}
  Count = 1
  MaxRestarts = 1
SYMMETRY HashSymmetry
SPECIFICATION ScriptsSpec
INVARIANTS TypeOK OneHistory AgreeMeansOneHistory RoundTrips
\* The script ends.
CHECK_DEADLOCK FALSE
