----------------------------- MODULE LeaderChain -----------------------------
(***************************************************************************)
(* What the network promises about its ledgers, with no messages, votes or *)
(* pools: every proposal names a place on the leader's ledger, and a       *)
(* node only ever appends a proposal at the place it names.  Some nodes,   *)
(* the leader possibly among them, may start over from the genesis block   *)
(* (a ledger is in memory only).                                           *)
(***************************************************************************)
EXTENDS Naturals, Sequences

CONSTANTS
  Nodes, Hashes, Genesis, Leader,
  MayStartOver    \* nodes that may lose their ledger

VARIABLES
  place,    \* place[h]: the height and parent named by proposal h
  chain     \* chain[n]: the ledger of n

vars == <<place, chain>>

Tip(n) == chain[n][Len(chain[n])]
TopOf(n) == [height |-> Len(chain[n]), parent |-> Tip(n)]

Init ==
  /\ place = [h \in {} |-> <<>>]
  /\ chain = [n \in Nodes |-> <<Genesis>>]

Propose(h) ==
  /\ h \notin DOMAIN place
  /\ place' = [b \in DOMAIN place \cup {h} |->
                 IF b = h THEN TopOf(Leader) ELSE place[b]]
  /\ UNCHANGED chain

Extend(n, h) ==
  /\ h \in DOMAIN place
  /\ place[h] = TopOf(n)
  /\ chain' = [chain EXCEPT ![n] = Append(@, h)]
  /\ UNCHANGED place

StartOver(n) ==
  /\ n \in MayStartOver
  /\ chain' = [chain EXCEPT ![n] = <<Genesis>>]
  /\ UNCHANGED place

Next ==
  \/ \E h \in Hashes : Propose(h)
  \/ \E n \in Nodes, h \in Hashes : Extend(n, h)
  \/ \E n \in Nodes : StartOver(n)

Spec == Init /\ [][Next]_vars

-----------------------------------------------------------------------------
(***************************************************************************)
(* As long as the leader does not start over, nodes never disagree below   *)
(* their tips: everything a ledger has below its last block is on the      *)
(* leader's ledger, at the same height.                                    *)
(***************************************************************************)
AgreeBelowTip ==
  \A n \in Nodes : \A i \in 1 .. Len(chain[n]) - 1 :
    i <= Len(chain[Leader]) /\ chain[n][i] = chain[Leader][i]

(***************************************************************************)
(* Whoever starts over: two ledgers that share a block have it at the same *)
(* height and share everything below it.  There are as many histories as   *)
(* the leader has lives, and no ledger mixes two of them.                  *)
(***************************************************************************)
OneHistory ==
  \A n, m \in Nodes :
    \A i \in 1 .. Len(chain[n]), j \in 1 .. Len(chain[m]) :
      chain[n][i] = chain[m][j] =>
        i = j /\ \A k \in 1 .. i : chain[n][k] = chain[m][k]
=============================================================================
