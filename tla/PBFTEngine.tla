----------------------------- MODULE PBFTEngine -----------------------------
(***************************************************************************)
(* One consensus engine shared by the threads of its node (src/pbft.py as  *)
(* src/node.py:191-218 drives it).  Peers' messages reach the handlers in  *)
(* any order and any number of times, each from a thread of its own.  When *)
(* a handler returns True its thread goes on to the engine again: it casts *)
(* the node's own PREPARE after an accepted PRE-PREPARE and its own COMMIT *)
(* after a complete PREPARE quorum, and it hands the block to the ledger   *)
(* after a complete COMMIT quorum.  The lock is released in between, so    *)
(* messages of other threads may come first.                               *)
(***************************************************************************)
EXTENDS PBFT

CONSTANT Self    \* the node that owns the engine

ASSUME SelfAssumption == Self \in Nodes

VARIABLES
  engine,    \* the PBFT object
  calls,     \* own votes a thread is about to pass to the engine
  acted      \* acted[k][h]: how often handler k has returned True for block h

vars == <<engine, calls, acted>>

OwnCall == [vote : {"PREPARE", "COMMIT"}, block : Hashes]
Handler == {"handle_pre_prepare", "handle_prepare", "handle_commit"}

TypeOK ==
  /\ engine \in Engine
  /\ calls \subseteq OwnCall
  /\ acted \in [Handler -> [Hashes -> Nat]]

Init ==
  /\ engine = NewEngine
  /\ calls = {}
  /\ acted = [k \in Handler |-> [h \in Hashes |-> 0]]

OwnPrepare(h) == [vote |-> "PREPARE", block |-> h]
OwnCommit(h) == [vote |-> "COMMIT", block |-> h]

\* A handler that returned result: count it, and let its thread make the call next.
Acts(k, h, result) ==
  acted' = IF result THEN [acted EXCEPT ![k][h] = @ + 1] ELSE acted

(***************************************************************************)
(* _on_pre_prepare, up to the thread's next use of the engine.             *)
(***************************************************************************)
OnPrePrepare(h) ==
  LET yes == ShouldPrepare(engine, h) IN
  /\ engine' = HandlePrePrepare(engine, h)
  /\ calls' = IF yes THEN calls \cup {OwnPrepare(h)} ELSE calls
  /\ Acts("handle_pre_prepare", h, yes)

(***************************************************************************)
(* _on_prepare for a vote of s, made by a thread that leaves `rest' of the *)
(* own calls still to be made.                                             *)
(***************************************************************************)
OnPrepare(h, s, rest) ==
  LET yes == ShouldCommit(engine, h, s) IN
  /\ engine' = HandlePrepare(engine, h, s)
  /\ calls' = IF yes THEN rest \cup {OwnCommit(h)} ELSE rest
  /\ Acts("handle_prepare", h, yes)

(***************************************************************************)
(* _on_commit up to the hand-over to the ledger, which is not the engine's.*)
(***************************************************************************)
OnCommit(h, s, rest) ==
  /\ engine' = HandleCommit(engine, h, s)
  /\ calls' = rest
  /\ Acts("handle_commit", h, ShouldAdd(engine, h, s))

PeerPrepare(h, s) == s # Self /\ OnPrepare(h, s, calls)
PeerCommit(h, s) == s # Self /\ OnCommit(h, s, calls)

CastPrepare(h) ==
  /\ OwnPrepare(h) \in calls
  /\ OnPrepare(h, Self, calls \ {OwnPrepare(h)})

CastCommit(h) ==
  /\ OwnCommit(h) \in calls
  /\ OnCommit(h, Self, calls \ {OwnCommit(h)})

Next ==
  \E h \in Hashes :
    \/ OnPrePrepare(h)
    \/ CastPrepare(h)
    \/ CastCommit(h)
    \/ \E s \in Nodes : PeerPrepare(h, s) \/ PeerCommit(h, s)

Spec == Init /\ [][Next]_vars

(***************************************************************************)
(* The scheduler runs the thread that holds a True result (it is runnable  *)
(* and waits for nothing but the lock, which every handler releases).      *)
(* Nothing is assumed of the peers.                                        *)
(***************************************************************************)
Fairness == \A h \in Hashes : WF_vars(CastPrepare(h)) /\ WF_vars(CastCommit(h))

FairSpec == Spec /\ Fairness

-----------------------------------------------------------------------------
PrepareHeard(h) == engine.prepare_votes[h] \cup engine.prepare_buffer[h]
CommitHeard(h) == engine.commit_votes[h] \cup engine.commit_buffer[h]

(***************************************************************************)
(* The status of a block is a function of the votes delivered for it and   *)
(* not of their order: once the node's own votes for the block have been   *)
(* cast, a pending block really lacks PREPAREs, a prepared one really      *)
(* lacks COMMITs and a committed one has both quorums.  No completed       *)
(* quorum is forgotten because its votes came early, were replayed by      *)
(* handle_pre_prepare (which checks no threshold), or came while another   *)
(* thread held a True result (pbft.py:85-94, 114-125, 145-156).            *)
(***************************************************************************)
StatusFollowsVotes ==
  \A h \in Hashes :
    {OwnPrepare(h), OwnCommit(h)} \cap calls = {} =>
      engine.status[h] =
        CASE ~Known(engine, h) -> "absent"
          [] Known(engine, h) /\ Cardinality(PrepareHeard(h)) < prepare_threshold
               -> "pending"
          [] Known(engine, h) /\ Cardinality(PrepareHeard(h)) >= prepare_threshold
               /\ Cardinality(CommitHeard(h)) < commit_threshold -> "prepared"
          [] OTHER -> "committed"

(***************************************************************************)
(* Each handler returns True at most once for a block however often its    *)
(* messages are repeated: the node broadcasts one PREPARE and one COMMIT   *)
(* for it and hands it to the ledger once (pbft.py:76, 115, 146).          *)
(***************************************************************************)
ActsOnce == \A k \in Handler, h \in Hashes : acted[k][h] <= 1

(***************************************************************************)
(* The engine implements the counter that never sees an order: buffering   *)
(* and replaying are invisible to it.                                      *)
(***************************************************************************)
Votes == INSTANCE VoteCounter WITH
           PrepareQuorums <- {Q \in SUBSET Nodes : Cardinality(Q) >= prepare_threshold},
           CommitQuorums <- {Q \in SUBSET Nodes : Cardinality(Q) >= commit_threshold},
           phase <- engine.status,
           prepareHeard <- [h \in Hashes |-> PrepareHeard(h)],
           commitHeard <- [h \in Hashes |-> CommitHeard(h)]

CountsEveryVote == Votes!Spec

(***************************************************************************)
(* A proposed block for which both quorums have been delivered is          *)
(* committed in the end, with no further message from anyone.              *)
(***************************************************************************)
QuorumIsActedOn ==
  \A h \in Hashes :
    ( /\ Known(engine, h)
      /\ Cardinality(PrepareHeard(h)) >= prepare_threshold
      /\ Cardinality(CommitHeard(h)) >= commit_threshold )
      ~> engine.status[h] = "committed"
=============================================================================
