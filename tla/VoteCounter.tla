----------------------------- MODULE VoteCounter -----------------------------
(***************************************************************************)
(* What the consensus engine promises its callers, without its buffers: a  *)
(* block goes absent -> pending -> prepared -> committed, and every vote   *)
(* that was ever delivered counts, whether it came before or after the     *)
(* proposal (README.md: "Out-of-order PBFT messages are queued and     *)
(* replayed").                                                             *)
(***************************************************************************)
CONSTANTS
  Nodes, Hashes,
  PrepareQuorums,    \* the sets of nodes whose PREPAREs make a block prepared
  CommitQuorums      \* the sets of nodes whose COMMITs make a block committed

VARIABLES
  phase,          \* phase[h]: how far block h has got
  prepareHeard,   \* prepareHeard[h]: who is known to have voted PREPARE
  commitHeard     \* commitHeard[h]: who is known to have voted COMMIT

vars == <<phase, prepareHeard, commitHeard>>

Init ==
  /\ phase = [h \in Hashes |-> "absent"]
  /\ prepareHeard = [h \in Hashes |-> {}]
  /\ commitHeard = [h \in Hashes |-> {}]

Accept(h) ==
  /\ phase[h] = "absent"
  /\ phase' = [phase EXCEPT ![h] = "pending"]
  /\ UNCHANGED <<prepareHeard, commitHeard>>

\* A vote that finds its quorum complete moves the block on in the same step.
HearPrepare(h, s) ==
  /\ prepareHeard' = [prepareHeard EXCEPT ![h] = @ \cup {s}]
  /\ phase' = [phase EXCEPT
                 ![h] = IF @ = "pending"
                             /\ prepareHeard[h] \cup {s} \in PrepareQuorums
                        THEN "prepared" ELSE @]
  /\ UNCHANGED commitHeard

HearCommit(h, s) ==
  /\ commitHeard' = [commitHeard EXCEPT ![h] = @ \cup {s}]
  /\ phase' = [phase EXCEPT
                 ![h] = IF @ = "prepared"
                             /\ commitHeard[h] \cup {s} \in CommitQuorums
                        THEN "committed" ELSE @]
  /\ UNCHANGED prepareHeard

Next ==
  \E h \in Hashes :
    \/ Accept(h)
    \/ \E s \in Nodes : HearPrepare(h, s) \/ HearCommit(h, s)

Spec == Init /\ [][Next]_vars
=============================================================================
