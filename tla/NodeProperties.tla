--------------------------- MODULE NodeProperties ---------------------------
(***************************************************************************)
(* What the network of validators guarantees, and what its documentation   *)
(* says of it.                                                             *)
(***************************************************************************)
EXTENDS Node

TypeOK ==
  /\ submitted \subseteq Txs
  /\ up \subseteq Nodes
  /\ seen \in [Nodes -> SUBSET Txs]
  /\ pbft \in [Nodes -> Engine]
  /\ threads \in [Nodes -> SUBSET Thread]
  /\ lost \in 0 .. MaxLost
  /\ DOMAIN blocks \subseteq Hashes \cup {Genesis}
  /\ chain \in [Nodes -> Seq(Hashes \cup {Genesis})]
  /\ \A n \in Nodes : Len(chain[n]) >= 1
  /\ pending \in [Nodes -> Seq(Txs)]

ChainTxs(n) == UNION {TxsOf(chain[n][i]) : i \in DOMAIN chain[n]}
Committed(n, h) == pbft[n].status[h] = "committed"

\* The nodes that run all the time.
Steady == Nodes \ (Down \cup MayCrash)

\* A restarted node has forgotten what it did and vouches for nothing.
Remembers(n) == n \notin MayRestart

-----------------------------------------------------------------------------
(***************************************************************************)
(* A committed block carries the whole certificate the protocol is about:  *)
(* 2f+1 nodes voted COMMIT, each of them after it was prepared by 2f nodes *)
(* that had themselves accepted the PRE-PREPARE (pbft.py:119-129, 150-160; *)
(* node.py:194-213).  Votes that were buffered, replayed or repeated, and  *)
(* nodes that stop in the middle of a broadcast, do not weaken it.         *)
(***************************************************************************)
CommitCertificate ==
  \A n \in Nodes, h \in Hashes :
    Committed(n, h) =>
      /\ Cardinality(pbft[n].commit_votes[h]) >= 2 * f + 1
      /\ \A q \in pbft[n].commit_votes[h] : Remembers(q) =>
           /\ pbft[q].status[h] \in {"prepared", "committed"}
           /\ Cardinality(pbft[q].prepare_votes[h]) >= 2 * f
           /\ \A p \in pbft[q].prepare_votes[h] :
                Remembers(p) => Known(pbft[p], h)

(***************************************************************************)
(* The network implements LeaderChain: no order of proposals, votes and    *)
(* commits lets a replica append a block anywhere but at the place it was  *)
(* proposed for, which is on the leader's ledger (blockchain.py:184-197    *)
(* against blockchain.py:211-225).                                         *)
(***************************************************************************)
Place(h) == [height |-> blocks[h].index, parent |-> blocks[h].previous_hash]

Shared == INSTANCE LeaderChain WITH
            Leader <- LEADER_NODE,
            MayStartOver <- MayRestart,
            place <- [h \in DOMAIN blocks \ {Genesis} |-> Place(h)]

ImplementsLeaderChain == Shared!Spec

(***************************************************************************)
(* Unless the leader is restarted, ledgers are forked by one block at      *)
(* most: below its tip a ledger is the leader's.  (A replica that did      *)
(* append a rival block never grows again: its tip would be below its new  *)
(* tip.)                                                                   *)
(***************************************************************************)
AgreeBelowTip == Shared!AgreeBelowTip

(***************************************************************************)
(* No ledger holds a transaction twice, although create_block leaves the   *)
(* batch in the pool and so puts it in several proposals (blockchain.py:190*)
(* against blockchain.py:238-242), and a transaction can reach the pool of *)
(* a follower after the block that carries it.                             *)
(***************************************************************************)
NoTxTwice ==
  \A n \in Nodes : \A i, j \in DOMAIN chain[n] :
    i # j => TxsOf(chain[n][i]) \cap TxsOf(chain[n][j]) = {}

(***************************************************************************)
(* The leader never offers a transaction that it has already committed,    *)
(* and never forgets one: what it has seen and pooled is in its pool or in *)
(* its ledger and not in both (node.py:160-171, blockchain.py:174-242).    *)
(***************************************************************************)
LeaderPoolIsTheRest ==
  LET pooled == {t \in seen[LEADER_NODE] :
                   \A th \in threads[LEADER_NODE] :
                     th.call.type = "add_transaction" => th.call.tx # t}
  IN  LEADER_NODE \in up =>
        Elements(pending[LEADER_NODE]) = pooled \ ChainTxs(LEADER_NODE)

(***************************************************************************)
(* No transaction vanishes from a running node: once pooled it stays in    *)
(* the pool until a block that carries it is on the node's own ledger.     *)
(***************************************************************************)
NothingVanishes ==
  \A n \in up : \A t \in seen[n] :
    \/ t \in Elements(pending[n]) \cup ChainTxs(n)
    \/ \E th \in threads[n] : th.call.type = "add_transaction" /\ th.call.tx = t

-----------------------------------------------------------------------------
(***************************************************************************)
(* Progress within the fault budget, f = 1 of n = 4: "tolerates 1          *)
(* faulty/malicious node" (config.py:17).  A transaction that reaches the  *)
(* network is on the ledger of every running node in the end, when one     *)
(* transaction at a time is submitted and every message arrives.  It holds *)
(* with a follower missing and fails with the leader missing.              *)
(***************************************************************************)
EveryoneCommits ==
  \A t \in Txs :
    t \in submitted ~> \A n \in Steady : t \in ChainTxs(n)

-----------------------------------------------------------------------------
\* No running node has anything left to do.
Quiescent == \A n \in up : threads[n] = {}

(***************************************************************************)
(* Nobody waits for a vote that nobody will cast: with the leader and 2f   *)
(* others running all the time and no message lost, every proposal has     *)
(* been committed by each of them when nothing is left to do, in whatever  *)
(* order its votes came in, and whatever other nodes stop or come back     *)
(* (node.py:191-231, pbft.py:91-97).                                       *)
(***************************************************************************)
ProposalsAreDecided ==
  /\ Quiescent /\ lost = 0
  /\ LEADER_NODE \in Steady /\ Cardinality(Steady) >= 2 * f + 1
  => \A h \in DOMAIN blocks \ {Genesis}, n \in Steady : Committed(n, h)

\* No two proposals were made for the same place.
NoRivals ==
  \A h, k \in DOMAIN blocks \ {Genesis} : Place(h) = Place(k) => h = k

(***************************************************************************)
(* A transaction is proposed by the thread that brought it to the leader   *)
(* and by no other (node.py:170).  Even so it only stays behind in the     *)
(* leader's pool if a proposal had a rival: when nothing is left to do and *)
(* there was none, the pool is empty, whatever was pooled, proposed and    *)
(* committed at the same time (blockchain.py:190, 239).                    *)
(***************************************************************************)
StrandedOnlyByRivals ==
  Quiescent /\ NoRivals /\ LEADER_NODE \in up => pending[LEADER_NODE] = <<>>

(***************************************************************************)
(* node.py:41: all honest nodes converge on the same chain state.  At      *)
(* every height that two ledgers have reached they hold the same block.    *)
(***************************************************************************)
SameBlockAtEachHeight ==
  \A n, m \in Nodes : \A i \in DOMAIN chain[n] \cap DOMAIN chain[m] :
    chain[n][i] = chain[m][i]

(***************************************************************************)
(* pbft.py:12: a block is appended after 2f+1 commits.  When nothing is    *)
(* left to do and no proposal has had a rival, what a node has committed   *)
(* is on its ledger.                                                       *)
(***************************************************************************)
CommittedIsAppended ==
  Quiescent /\ NoRivals =>
    \A n \in Nodes, h \in Hashes :
      Committed(n, h) => h \in Elements(chain[n])

(***************************************************************************)
(* app.py:185: /pending returns the un-committed transactions.             *)
(***************************************************************************)
PendingIsUncommitted ==
  \A n \in Nodes : Elements(pending[n]) \cap ChainTxs(n) = {}
=============================================================================
