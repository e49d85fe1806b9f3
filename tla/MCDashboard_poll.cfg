\* Two selections, so that the user can come back; two submissions, so that a reading
\* can be posted again; one restart of Home, and one request to it that fails while it
\* runs.  An open request can be overtaken by a whole later round.  fetchChain and
\* fetchPending are left out: each shows one number that fetchStatus shows too.
CONSTANTS
  Nodes = {n1, n2}
  Home = n1
  Fetches = {"status", "nodes"}
  Texts = {a}
  Empty = Empty
  Unknown = Unknown
  MaxOpen = 3
  MaxSwitches = 2
  MaxSubmits = 2
  MaxLost = 1
  MaxStarts = 1
SPECIFICATION Spec
INVARIANT DuplicateOnlyAfterFailure
PROPERTY CatchesUp
