# A TLA+ model of Data-Block

Data-Block is a small permissioned blockchain for sensor readings: four
validator processes run a three-phase, PBFT-style agreement over TCP, keep the
agreed blocks in memory, and offer a REST API and a dashboard. This directory
models its core in TLA+, checks the models with TLC on small instances, and
proves the main results with TLAPS for any number of nodes, transactions and
blocks. Line numbers below refer to the files of the repository (`pbft.py:119`
is `src/pbft.py`, line 119).

## 1. Inventory

| component | code | state | operations |
|---|---|---|---|
| consensus engine | `pbft.py` | per block hash: the proposal, a status, two vote sets; two buffers for votes that precede the proposal; one lock | `handle_pre_prepare`, `handle_prepare`, `handle_commit`, `get_status` |
| ledger and pool | `blockchain.py` | the chain, the pool of pending transactions, one lock | `add_transaction`, `create_block`, `add_block`, `validate_chain` |
| validator node | `node.py` | one engine, one ledger, `_seen_tx_ids` under its own lock, a listening socket, one thread per connection and per API request | `submit_transaction`, `_on_transaction`, `_on_pre_prepare`, `_on_prepare`, `_on_commit`, `_broadcast`, `_send` |
| Merkle root, framing | `utils.py` | none | `compute_merkle_root`, `frame_message`, `recv_framed_message` |
| encryption | `encryption.py` | a key pair, made at start | encrypt, decrypt, sign, verify |
| REST API | `app.py` | none of its own; reads and writes the node's | `/transactions/new`, `/chain`, `/pending`, `/status`, `/validate`, `/decrypt`, ... |
| clients | `simulation.py`, `test_client.py` | child processes; answers of the nodes | start, submit, compare chains, terminate |
| dashboard | `static/js/app.js`, `templates/dashboard.html` | selected node, what the page shows, open requests, the form | periodic refresh, node selection, submit, decrypt |
| configuration | `config.py` | constants | |

How they interact. A client posts to any node; `submit_transaction` runs
`_process_message` for it in the request's thread and broadcasts the
transaction afterwards. The leader's handler adds the transaction to its pool,
creates a block and passes the PRE-PREPARE to itself, then broadcasts it. Every
handler works the same way: call the engine, and if it returned True process
the node's own next vote first and broadcast it after that call has returned.
So one thread may go through all phases of a block before it sends the first
message of them. The engine and the ledger are locked per call, never across
two calls. A send is a TCP connection of its own, tried twice and then dropped.
Nothing is written to disk.

What is hard to get right here, and what correctness means for each component:

* *Engine*. Votes overtake proposals and each other, messages repeat, threads
  meet between a True result and the vote it leads to. Correct: the result
  depends on the votes and not on their order; no complete quorum is missed; no
  handler acts twice; a committed block has its certificate.
* *Ledger*. A block is compared with the tip only, the batch stays in the pool
  while it is agreed upon, and blocks arrive in the order in which they commit.
  Correct: the chain as a whole validates; a block fixes its history;
  no transaction is repeated or dropped.
* *Node*. Several proposals may be in flight on one tip; a broadcast may be cut
  short by a crash; a node, the leader too, may start over. Correct: ledgers
  agree, histories are never mixed; what is committed is appended; submitted
  transactions commit.
* *Merkle root*. Odd levels. Correct: the root identifies the batch.
* *Transport*. Partial reads, stalls, retries. Correct: a frame is handled
  whole, at most once per submission to `_send`.
* *REST API, clients, dashboard*. Answers put together from several locked
  reads; answers that come after the client gave up or turned to another node.
  Correct: an answer adds up; what a client reports is so; the page catches up.
* *Encryption*. Keys that live and die with a process. Correct: what a node
  encrypted to itself it can decrypt as long as it runs.

The hazards are listed one by one, at their lines, in `PROJECT.json`.

## 2. Modules

```
Config ---- PBFT -------------- PBFTEngine --- PBFTEngineProofs
       \        \               \--- VoteCounter (abstract)
        \        \
         Blockchain ---- Node --- NodeProperties --- NodeProofs ---\
        /        \                  |      \--- Rest --------------- RestProofs
Merkle - Wire     Ledgers --- LedgersProofs
                                    |
                                    LeaderChain (abstract) --- LeaderChainProofs
                                           \
                            Encryption ---- Scripts --- ScriptsProofs

Transport --- TransportProofs              Dashboard --- DashboardProofs
     \--- Delivery (abstract)
```

An arrow to the right reads "is extended by"; the abstract modules are
instantiated. `NodeProofs` also instantiates `LeaderChainProofs`, to cite what is proved there. `MC*` modules and their `.cfg` files
are for TLC.

**Config** has the constants every module shares: `Nodes` (the keys of `NODES`)
and `Hashes`, the block hashes that can occur.

**PBFT** is `pbft.py` without variables: thresholds, the record `Engine`, and
for each handler a function from the engine before to the engine after
(`HandlePrePrepare`, ...) with a predicate for the value it returns
(`ShouldPrepare`, `ShouldCommit`, `ShouldAdd`). Each handler holds the engine's
lock throughout, so it is one step wherever it is used. The flag
`pre_prepare_received` is the status not being `"absent"`.

**PBFTEngine** is one engine driven by the threads of its node. A handler that
returns True leaves the node's next own vote in `calls`; until that thread
takes the lock again any other message may come first. `acted` is a history
variable: how often each handler returned True. **VoteCounter** is what the
engine promises: a counter of votes that knows no buffers and no order.

**Blockchain** is `blockchain.py` for any number of ledgers. A block is named
by its hash, `blocks` says what was hashed, and a chain is a sequence of
hashes. SHA-256 is collision-free by construction; `time.time()` in the hash
makes a new hash for each candidate, unless the same block is made twice in one
tick of the clock, which `DigestOf` allows. `Candidate` takes the oldest
`MAX_TRANSACTIONS_PER_BLOCK` transactions and leaves them in the pool;
`Without` removes those of an appended block in the order of the rest.
**Ledgers** calls these operations in any order, with no protocol around them.
**Merkle** is `compute_merkle_root` with the hash of a pair as the pair; Ledgers
has its reference definition. **Wire** is what happens to a transaction and a
block when they travel: `from_dict` calls the constructor, which takes the time
and hashes anew, and then overwrites what it computed. Every node, the leader
too, keeps such copies, and it is the copies that `validate_chain` looks at
(`Made`, `Kept`).

**Node** is the network. A thread is a record: `call`, the locked section it
enters next, and `owed`, the broadcasts it makes once it has left its last
locked section (`Continue` and `Finish`). One step of a thread is one locked
section, so every interleaving of the threads of a node is there:

| action | code |
|---|---|
| `OnTransaction` | `_on_transaction`, `_seen_lock` |
| `PoolTransaction`, `ProposeBlock` | the rest of it: `add_transaction`, then on the leader `create_block` |
| `OnPrePrepare`, `OnPrepare` | the handler and the engine call in it |
| `OnCommit`, `CommitBlock` | the engine call, then `add_block` |
| `Submit` | `submit_transaction` for a client |
| `Lose` | `_send` gives up, or the receiver does |
| `Crash`, `Restart` | the process ends; `Node.__init__` of a new one |

A message on its way to a node is already the thread that will handle it, so
messages are reordered freely. A thread's broadcasts are put in flight together
when it ends; that they are really sent one after the other is the delay each
may have, and a crash loses any part of those not yet handled. (The real sends
go out in a fixed order, so this allows more than the code, never less.) A send
to a node that is down fails, or reaches it after a restart if it is still
being tried then. `_on_commit` reads `pbft.states` after the engine's lock is
free; the block it reads there never changes, so the read is part of the
`CommitBlock` step.

**NodeProperties** states what is checked of it, **LeaderChain** is the
abstract specification: a proposal names a place (height and parent) on top of
the leader's ledger, a ledger grows only by the proposal for its next place,
and the nodes in `MayStartOver` may start over, the leader among them.

**Transport** is what `Node` takes for granted of a send: one `_broadcast` of
one message, the calls of `_send` one after the other, each with its
`SOCKET_SEND_RETRIES` connections, and on the other side a thread per connection
that reads a frame from it. Bytes are counted: `written` is what the sender's
kernel has taken, `read` what the reader has got, in pieces of any size.
`connect`, `sendall` and `recv` may raise whenever they have not finished, which
stands for refused, reset and timed out. A socket that the code does not close
is dropped when its variable is assigned again or its function returns, and the
reader then sees the end of the stream. The listener may end on an error of
`accept` (`ListenerEnds`); its socket stays open, so senders go on to succeed.
**Delivery** is the promise: handled
once, or lost.

**Scripts** is a client script with the endpoints it uses, on top of
`LeaderChain`, which the network implements (section 4): so the ledgers it reads
grow, fork and start over as the network's do, without the network's messages. A
transaction is its gateway and what `process_iot_data_encryption` made of the
reading; a key pair is a node and which process of it was running.
**Encryption** has the two pipelines, over ciphers that open under their own key
and raise under any other. One script is modelled, and other clients
only by what they post.

| action | code |
|---|---|
| `ListenerEnds`, `Accept`, `RecvRaises` | `_listen`, `_handle_connection` |
| `CallSend`, `Connect`, `Write`, `Return`, `Raise`, `Retry` | `_broadcast` and `_send` |
| `Recv`, `EndOfStream` | `recv_framed_message`, `_recv_exact` |
| `Post`, `PostElsewhere` | `send_transactions`, `send_iot_data`, `new_transaction` |
| `Ask`, `AllAgree` | `verify_chains` and the same loop of `test_client.py`; `get_chain` |
| `Pick`, `Decrypt` | `demo_decrypt`, the same in `test_client.py`; `decrypt_transaction` |
| `Get`, `Read` | `get_status` and `validate_chain` of `app.py`, one read a step |
| `Refresh`, `Select`, `Show`, `Fail` | `refreshAll`, `setupNodeSelector`, the four `fetch...` functions |
| `Submit`, `Posted`, `NotPosted` | `submitTransaction` |
| `Accept` | `new_transaction`, in a thread of Home |

**Rest** adds to the network a request of `/status` or `/validate`. Each is a
sequence of reads of the node's state, each under a lock of its own or none
(`Reads`), and the node's threads run between them.

**Dashboard** is the page. Open requests are a bag: refreshes overlap, by the
interval timer, the button, a selection or the timer after a POST, and answers
come in any order. A request that Home has answered carries the answer, read at
that time; it is shown later, with the selection of that time
(`app.js:195`). The page belongs to the node that served it, `Home`, since an
origin includes the port. `app.py` sends no header that would let another
origin read its answers, so the browser refuses every request to another node,
all of which are up in the model. This is the browser's rule, and external; the page is
taken to be opened at the address its node prints. The data of Home are
abstract here (numbers of blocks and of pending transactions), as `Rest` covers how
they are read. A POST has two sides, which is why it is a record: whether Home has made a
transaction of it (`taken`) and what the page has been told (`result`). It can fail for the
page at any time (`NotPosted`), also when Home has taken it and runs on; and what Home has
taken may have been broadcast, so it counts as taken after Home has stopped. A request for data
can fail too while Home runs, before or after the answer (`Fail`, up to `MaxLost` times).

*Seeded faults.* A definition with a suffix and the comment "seeded fault"
(`ShouldAdd_Strict`) is the definition after it with a plausible bug. No
specification uses them. `PROJECT.json` names, for each property of each
passing run, a seeded fault that the run must notice.

## 3. What is checked

Properties that hold:

| run | instance | shows |
|---|---|---|
| `engine_four` | one engine of 4 nodes, one block, every message any number of times | `StatusFollowsVotes`: once the node's own votes are cast, the status is a function of the votes delivered, so no quorum is lost in a buffer, a replay or between two threads. `ActsOnce`. `CountsEveryVote`: it implements `VoteCounter`. `QuorumIsActedOn` (liveness). |
| `ledgers_two` | 2 ledgers, 3 transactions, 3 proposals, any calls | `ValidChains`: what `add_block` checks of the tip, for a copy of the block, is what `validate_chain` checks of all. `BlockFixesHistory`. `RootIsTreeRoot`, `RootIdentifiesBatch`: the loop builds the tree of the reference definition, for up to 6 leaves, and blocks with equal roots have equal transactions. |
| `node_quorum` | 4 nodes, one down, one that may crash and restart, one lost message, 1 transaction | `CommitCertificate`: 2f+1 COMMITs, each by a node with 2f PREPAREs, each by a node that had the proposal |
| `node_ledgers` | 2 nodes, 2 racing transactions at either node, the follower may crash | `ImplementsLeaderChain`, `AgreeBelowTip`, `NoTxTwice`, `LeaderPoolIsTheRest`, `NothingVanishes`. `StrandedOnlyByRivals`: a transaction is left in the leader's pool only if two proposals raced for one place. |
| `rest_live` | 4 nodes, a follower down, 1 transaction, the leader asked for `/status` and `/validate` all the time | `StatusAddsUp`: an answer of `/status` has a round for each block it counts and counts no transaction twice. It holds because the length is read first; in another order it would not. `ProposalsAreDecided`: with nothing left to do, no message lost and a quorum that ran all the time, each of that quorum has committed every proposal, in whatever order its votes came. `EveryoneCommits` (liveness). |
| `transport_two` | a peer that is up until its listener may end, one that is down, 2 attempts, 4 + 2 bytes | `ImplementsDelivery`: a second attempt never leads to a second delivery, a broken frame to none. `FailureIsReal`: "Failed to reach" is never logged of a peer that handles the message. `EverythingEnds` (liveness). |
| `scripts_two` | 3 nodes, 3 proposals, one restart of a follower or the leader | `OneHistory`: two ledgers that share a block share all below it, whoever restarted. `AgreeMeansOneHistory`: "ALL NODES AGREE" is true of the nodes that answered, although tips only are compared and read at different times. (A node that does not answer is printed as unreachable and left out of the comparison, `simulation.py:149-153`, so the line can be printed when one node alone answers.) `RoundTrips`: decryption fails only if another gateway was used too or the target restarted. |
| `dashboard_poll` | 2 nodes, 2 selections, 1 reading, 2 submissions, 1 restart of Home, 1 lost request, 3 open requests; any POST may fail or its answer be lost | `CatchesUp`: with Home selected and running the page comes to show its state for good, whatever answers come late, are lost or are of before the restart (liveness). `DuplicateOnlyAfterFailure`: a reading becomes two transactions only if the page has reported the first as failed; a double click does not do it. A user who was told of a failure can make a duplicate, and the code does nothing against it. |

Where the code does something else than its documents say, one run each, with
TLC's counterexample as the evidence:

| run | says | does |
|---|---|---|
| `forks` | "All honest nodes converge on the same chain state" (`node.py:41`) | The leader proposes on its tip whatever is in flight, so two transactions in quick succession give two blocks for one height. Both reach their quorums and replicas append whichever commits first. The fork is for good: the replica with the other block refuses everything after it. `AgreeBelowTip` is what remains true. |
| `early_child` | "block is appended after 2f+1 commits" (`pbft.py:12`) | A block that collects its commits before its parent is appended is refused by `add_block` for its index, the refusal is logged and the block is not offered again (`node.py:221-231`). No rival proposal is needed. |
| `late_transaction` | "current pending (un-committed) transaction pool" (`app.py:185`) | The transaction is broadcast after the block it led to; where it arrives later than that block it stays in the pool for good. |
| `leader_down` | "With n = 4, f = 1 (tolerates 1 faulty/malicious node)" (`config.py:17`) | With the leader missing nothing is proposed. `PBFT_TIMEOUT` is read nowhere and no other node takes over. |

The dashboard disagrees with its labels in two ways that depend on no order of events, so
they are stated here and have no run. "Switch Node" (`dashboard.html:28`) does not: the page
asks the selected node at a port of its own (`app.js:45`), which is another origin, and
`app.py` allows none. Every request after the switch is refused; the page shows nothing of
the node selected, and `CatchesUp` is about Home only. And what it "renders live"
(`app.js:4`) outlives its node: failed requests reset the length and the validity alone
(`app.js:97-100`), so name, blocks and pool of a node that has stopped, or from which the
user has switched away, stay on the page.

*Bounds.* Four nodes is the deployed number and the smallest with f = 1; there
one transaction already gives every order of the protocol's messages, and all
four up is too large for TLC (more than ten million states), so one node is
down. With two nodes f is 0 and a node's own votes are a quorum. Nothing about
the ledger depends on f: what matters there is in which order proposals are
made and commit, and with two nodes every such order occurs and two proposals
can be in flight. `Hashes` bounds the number of proposals; on each instance
there is one hash for each proposal that can be made, so it never disables a
thread. `MaxLost` bounds losses, `MaxChainLength` in Ledgers a chain,
`MaxRestarts` in Scripts restarts. In `rest_live` the transaction comes to a
follower, since with a reader beside it the instance with both gateways is too
large; `node_ledgers` has both. The reader asks the leader, where pool and blocks
change together. The follower of `node_ledgers` may stop but not start over: with
restarts the instance is too large, and what a restart does to the ledgers is checked in
`scripts_two`, on top of `LeaderChain`, and proved for the network (`Refinement`,
`HistoriesDoNotMix`). Likewise no node of `rest_live` crashes;
`NoProposalIsLeftUndecided` has no such limit. In Dashboard `MaxOpen` is the requests open
at a time: one of an earlier round with a whole later round, so an answer can be overtaken;
`fetchChain` and `fetchPending` are left out of the run, because each shows one number
that `fetchStatus` shows too. `MaxSwitches` of two lets the user come back, and after
`MaxStarts` of one a shorter chain must replace a longer one on the page. Two submissions
are the fewest for a duplicate, and the theorem has no bound. A body of two bytes is the smallest that comes in pieces, and
peers of a broadcast do not affect each other except by their order. Three
proposals allow rivals with a child each, so a script can see every way in
which two ledgers differ.
The theorems below hold with no bound. `CHECK_DEADLOCK FALSE` is used where
the system stops because the clients do. Symmetry is used for
transactions and nodes in Ledgers, which has no leader, and for block hashes in
Scripts; never with a temporal property.

*Fairness.* `PBFTEngine`: weak fairness of the two steps in which a thread
that holds a True result casts the node's own vote; nothing is assumed of
peers. `Node`: weak fairness of `Run(n)` for each running node. Threads of this
program wait for locks only, a locked section always ends, and the operating
system schedules runnable threads. Weak fairness of `Run(n)` is per node and not per
thread, which is enough since a node has finitely many threads in any
behaviour. `Transport`: weak fairness of the sender and of each reader, since each
of their blocking calls has a timeout (`node.py:90`, `node.py:118`); that a call
succeeds is not assumed. `Rest`: the same as `Node`; nothing of
requests. `Dashboard`: open requests of each kind go on being served, shown or failing (no
one of them in particular); the interval timer goes on. Flask serves each request in a
thread of its own, no read endpoint waits for anything but a lock, and the
browser's event loop runs what is due. Clients, crashes, losses and restarts
are never forced.

## 4. What is proved

All proofs are checked by `tlapm`. Assumptions: the set of nodes is finite; in
Node, `LEADER_NODE` is a node, `Gateways` are nodes, `MaxLost` is a number; the
genesis hash is not the hash of another block; in Rest, the nodes asked are up and
stay so; in Transport, there is at least one attempt and headers and bodies are not
empty; in Scripts, `NodeOrder`, in which a script asks, lists every node once,
`Targets` and `Gateways` are nodes and the bounds are numbers; in Dashboard, Home is
a node and the empty form is not a text. Some theorems have a premise of their own.
`Agreement` and `ForksEndAtTheTip`: the leader does not restart. `RootsIdentifyBatches`:
no transaction id is the hash of two hashes or of nothing. `OnlyRivalsStrand` and
`OnlyRivalsStrandFew`: the leader and 2f others run all the time, one transaction
is enough for a block (as `config.py:48` has it), and no more wait than a block may hold.

*PBFTEngineProofs* (any nodes, any blocks). `TypeCorrect`. `HandlersActOnce`
from the invariant `ActedIffMoved`: a handler has returned True exactly if the
status has moved past it, and statuses never move back. `StatusIsByVotes`:
`StatusFollowsVotes` is not inductive, because it speaks of the moments when the
node's own votes are cast; the strengthening says what is true while they are
not: an own vote not yet made is the only excuse for a quorum that has not been
acted on. `EngineCountsEveryVote`: step by step, the refinement of VoteCounter;
its mapping joins vote set and buffer.

*LeaderChainProofs*. `Agreement`: `AgreeBelowTip` for the abstract
specification, if the leader does not start over. It needs `OnLeaderLedger` to be
inductive: every proposal names a place the leader's ledger has reached and the
block that is there. The leader's ledger only grows, so this stays true; a
replica that appends a proposal then has its former tip on the leader's ledger at
that height. With a leader that starts over it is false, and what is left is
`OneHistoryAlways`: ledgers that share a block share what is below it. Its
invariant, `InPlace`, is that every block of a ledger is at the place it was
proposed for.

*LedgersProofs* (any calls in any order, no leader). The invariant `LInv` links
each block to the one below it (`Linked`): the block at position i has index
i - 1 and the hash below as its parent. `add_block` compares the block with the
tip alone, and that is enough to extend `Linked` and `BlockFixesHistory`, since a
block that another ledger has sits there at the height its index says, above the
parent it names. `CopyKeepsHash` shows that `from_dict`, which hashes anew and
then overwrites, leaves a copy whose hash and root are still its own; with
`Linked` this gives `ChainsAlwaysValidate`. No property of the loop in
`compute_merkle_root` is used there but that it depends on the `tx_id`s alone.

`RootsAreTreeRoots` and `RootsIdentifyBatches` are about that loop, for batches of any
length. They are inductions over the levels, each made by taking the least level at
which the claim would fail (`Least`, from the library's theorem on well-founded orders of
sets, which takes no operator). For the first, the hash at position i of level k is
that of the subtree over its share of the leaves, the last one repeated
(`Fits`, `LoopBuildsTree`). For the second, levels stay free of duplicates, so the last pair
tells an odd level from an even one and a level can be read off the next
(`TowersMeet`); no leaf is a pair, so two trees with one root have one height
(`RootsTellListsApart`). That batches have no duplicates is `BatchInv`: without it abc and
abcc have one root. The premise is needed too: a transaction whose id is the hash of two
others' would stand for both.

*ScriptsProofs*. `ReportedAgreementIsReal`: the answers of a script are ledgers
of different moments, some of nodes that have since started over. `SInv` therefore
speaks of all ledgers that are and all that were when asked: each block is at its
place (`WellPlaced`), and any two have a common block only on a common history
(`Compatible`). Equal tips then mean equal chains. `DecryptionFailsForTwoReasons`:
`OriginInv` traces what the demonstration picks back to the POST that made it, by
which process of which gateway; `first`, the oldest transaction of each proposal,
is an accepted one. A key pair other than the target's then belongs to another
gateway or to an earlier process.

*NodeProofs* (any nodes, any number of transactions, proposals, losses,
crashes and restarts, the leader's too). `NodeInv` is the inductive invariant:
types of network, engines, threads and ledgers; threads only speak of blocks that
exist, and only the leader's threads create them (`Sane`); the block at position
i of a ledger has index i - 1 (`Heights`). `TypeCorrect` follows. `Heights` turns
the index test of `add_block` into a test of the ledger's length, which makes each
step of the network a step of LeaderChain or none: that is `Refinement`.
`ForksEndAtTheTip` carries `Agreement` over to the network, for a leader that does
not restart, and `HistoriesDoNotMix` carries `OneHistoryAlways`, for any.

`EveryCommitIsCertified`: the certificate of a committed block is made of the states of
other nodes, some of which have lost theirs. `CertInv` says what stands behind a vote
as long as its sender remembers: a PREPARE or COMMIT that is owed, under way
(`Backing`) or counted (`Counted`) is that of a node that has the proposal, or has
moved past its PREPARE quorum. With `Quorums`, that each engine moves on a full quorum
only, the certificate is a consequence; without `Backing` no vote could be counted,
since handlers look at the sender's name alone. `RivalsShareVoters` adds what follows
for two committed blocks, rivals too: of 3f+1 nodes, f+1 cast COMMIT for both
(`QuorumsMeet`). Each handler looks at one block alone and so lets them; this is why
the overlap of quorums does not prevent the forks of section 3.

`NoProposalIsLeftUndecided`: with the leader and 2f others running all the time and
no message lost, no proposal is left short of a vote when no thread is left. (That it
comes to that is liveness, and TLC's.) `DecisionInv` has, for any two nodes that run all
the time and each vote that one of them has reason to send (`Cast`), that the other has
counted it (`Counts`) or that it is owed by a thread or on its way (`OnItsWay`): this is
`Arrives`. Of each such node, `Attends` says that a quorum is complete and not
acted on (`Overdue`) only while the node's own vote, whose handler will notice, is
coming. The case that matters is a COMMIT quorum that is complete before the node has
prepared, or has seen the PRE-PREPARE. When no thread is left every vote is counted, so
every quorum is complete, and none is overdue. Other nodes may stop and restart at any
time: what they do can only add votes.

*RestProofs*, first part (any nodes, transactions and blocks, the leader may restart).
`PoolInv` has where threads come from (`OriginsOK`), that one thread adds a
transaction (`AddersOK`), and that what a running node has let through `_seen_lock` and
added is pooled or on its ledger (`Held`), so `NoTransactionVanishes`. On the leader
it is in one of the two only (`LeaderOK`): its blocks carry what it has pooled, so a
transaction cannot reach its pool after the block that carries it, and
`LeaderOffersTheRest`. Pooled and ledger together only grow, a transaction moves from
the one to the other: each step of a node keeps, takes in, moves or forgets (`Flow`),
and the invariant follows from that. `NoTransactionTwice` needs more than the ledgers
that are, since a leader that restarts forgets the ledger its former blocks were made
for while followers may still extend theirs with them. `LineageInv` therefore speaks of
every sequence of blocks in which each names the one below as its parent: a block is on
one such sequence only (`OneLineage`), and no transaction is on it twice
(`NoTxTwiceOn`); ledgers are among them.

Second part (a request beside the running network). `StatusAlwaysAddsUp`: `SoFar`
says, for what has been read at each point of a request, that it stays true while
others act. The numbers follow by counting: pool and ledger are disjoint and within
`seen` (`LeaderOK`), pools have no duplicates, and each block of a ledger has a round of
its own, since blocks at different heights differ.

Third part (a leader that runs all the time). `OnlyRivalsStrand`: with no message lost
and nothing left to do, the leader's pool is empty unless two proposals were made for one
place. `RivalsInv` says that each pooled transaction is in a proposal, or its
thread is about to make one (`Carried`), and, as long as there are no rivals, that every
proposal is on the leader's ledger, or was made for its tip and is still to be committed or
appended (`InTime`). A second proposal made before the first is appended would be
its rival, which is what keeps `InTime`. With `DecisionInv` nothing is left to be
committed, so what is in a proposal is on the ledger, and `LeaderOK` has it out of the
pool. `PoolFitsBlock` is a premise about the whole behaviour, since `create_block` takes
the oldest transactions only (`blockchain.py:190`) and what it leaves has no thread that
proposes it; `OnlyRivalsStrandFew` does without where at most
`MAX_TRANSACTIONS_PER_BLOCK` transactions are submitted at all.

*TransportProofs* (any peers, attempts and sizes). `TInv`: attempts are made one after
the other and none after one that has written a whole frame (`AttemptsOK`), so at most
one of them ever has (`OneFull`), and none of a peer that is reported unreachable
(`FailedOK`); a reader reads no more than was written (`ReadersOK`). Hence
`FailureIsNeverWrong`. `DeliversAtMostOnce` is the refinement of `Delivery`: each step is
about one peer, whose fate it leaves or decides once.

*DashboardProofs* (any texts, submissions, lost answers and restarts).
`NoUnreportedDuplicate`, from `FormInv`: only the last POST can be open, and the button is
disabled while it is (`OneOpen`); a success clears the form, and a text is typed once, so the
text in the form is that of no successful POST. What is submitted again was therefore
answered with a failure before.

Every safety property that a passing run checks is stated by a theorem. Only
model-checked: all liveness (`QuorumIsActedOn`, `EveryoneCommits`, `EverythingEnds`,
`CatchesUp`), which TLAPS does not do under fairness. `OnlyRivalsStrand` and
`ForksEndAtTheTip` have premises that their property does not state, and the instance of
`node_ledgers` meets them all: with losses, crashes of the leader, or too few nodes, a
proposal can lack its quorum for good, and its transaction then stays in the pool although
no rival was made.

## 5. What is not modelled, and the plan

Done: engine, ledger, Merkle root, network, in that order, since the agreement
protocol and the ledgers are what the program is for; then transport, encryption,
the client scripts, the read endpoints and the dashboard. Every component is
modelled now, and every safety property that a passing run checks is proved. What is
left: what becomes of transactions in excess of `MAX_TRANSACTIONS_PER_BLOCK`, which no
run reaches; how far the buffers of an engine can grow; the decryption panel.

Known limits of what is modelled. `Transport` has no failure of `close`. A frame
that the kernel has taken but the reader gave up on is lost without a word:
`_send` has succeeded by then, and so it is with a frame for a node whose listener
has ended. `Scripts` reports no agreement also if no node answers or one is merely
behind, as the code does ("nodes have diverged"), and the demonstration decrypts
the oldest transaction of the target's ledger, which need not be the script's own.
In `Dashboard` a transaction has no identity of its own, and a user who is told of a
failure and submits again may make a duplicate under a new id, which neither `app.py` nor
the ledger recognises; that the form is cleared under a user who types on (`app.js:236`) is in the model, and
nothing says it should not be. The decryption panel and the `/validate` toast of
the page show one answer each and are left out. `MAX_TRANSACTIONS_PER_BLOCK` is
never reached on an instance.

Left out for good: cryptography itself; rendering, styles and logging;
`sign`, `verify` and `PBFT_TIMEOUT`, which no code uses; the branch of
`add_transaction` for a transaction that is already in the pool is modelled but
cannot be reached through `_on_transaction`, which admits each id once.
Messages are those the nodes themselves send; nodes that send anything else are
not part of the model.
