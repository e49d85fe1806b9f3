\* Four validators (f = 1), one block: every order of the nine messages that
\* can reach the engine of n1, each any number of times.
CONSTANTS
  Nodes = {n1, n2, n3, n4}
  Hashes = {b1}
  Self = n1
SPECIFICATION FairSpec
INVARIANTS TypeOK StatusFollowsVotes ActsOnce
PROPERTIES CountsEveryVote QuorumIsActedOn
