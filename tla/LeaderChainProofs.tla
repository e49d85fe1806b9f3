-------------------------- MODULE LeaderChainProofs --------------------------
(***************************************************************************)
(* What follows from LeaderChain alone, for any nodes and any number of    *)
(* proposals.                                                              *)
(***************************************************************************)
EXTENDS LeaderChain, TLAPS

Block == Hashes \cup {Genesis}

TypeOK ==
  /\ chain \in [Nodes -> Seq(Block)]
  /\ \A n \in Nodes : Len(chain[n]) >= 1

(***************************************************************************)
(* Unless the leader starts over, every proposal names a place that its    *)
(* ledger has reached, and the block that is there.                        *)
(***************************************************************************)
OnLeaderLedger ==
  \A h \in DOMAIN place :
    /\ place[h].height \in 1 .. Len(chain[Leader])
    /\ chain[Leader][place[h].height] = place[h].parent

IInv == TypeOK /\ OnLeaderLedger /\ AgreeBelowTip

(***************************************************************************)
(* Replicas agree below their tips whatever is proposed and appended       *)
(* (blockchain.py:213-225): a replica appends a block only on the parent   *)
(* it names, and the leader's ledger has that parent at that height for    *)
(* ever.                                                                   *)
(***************************************************************************)
THEOREM Agreement ==
  ASSUME Leader \in Nodes, Leader \notin MayStartOver
  PROVE  Spec => []AgreeBelowTip
<1>1. Init => IInv
  BY DEF Init, IInv, TypeOK, OnLeaderLedger, AgreeBelowTip, Block
<1>2. IInv /\ [Next]_vars => IInv'
  <2> SUFFICES ASSUME IInv, [Next]_vars PROVE IInv'
    OBVIOUS
  <2> USE DEF IInv, TypeOK, Block
  <2>1. ASSUME NEW h \in Hashes, Propose(h) PROVE IInv'
    <3>1. UNCHANGED chain
      BY <2>1 DEF Propose
    <3>2. ASSUME NEW b \in DOMAIN place'
          PROVE  /\ place'[b].height \in 1 .. Len(chain[Leader])
                 /\ chain[Leader][place'[b].height] = place'[b].parent
      <4>1. CASE b = h
        BY <2>1, <4>1 DEF Propose, TopOf, Tip
      <4>2. CASE b # h
        BY <2>1, <3>2, <4>2 DEF Propose, OnLeaderLedger
      <4> QED
        BY <4>1, <4>2
    <3> QED
      BY <3>1, <3>2 DEF OnLeaderLedger, AgreeBelowTip
  <2>2. ASSUME NEW n \in Nodes, NEW h \in Hashes, Extend(n, h) PROVE IInv'
    <3>1. /\ chain' = [chain EXCEPT ![n] = Append(chain[n], h)]
          /\ UNCHANGED place
          /\ h \in DOMAIN place
          /\ place[h].height = Len(chain[n])
          /\ place[h].parent = chain[n][Len(chain[n])]
      BY <2>2 DEF Extend, TopOf, Tip
    <3>2. TypeOK'
      BY <3>1
    \* The leader's ledger only grows, ...
    <3>3. /\ Len(chain[Leader]) <= Len(chain'[Leader])
          /\ \A i \in 1 .. Len(chain[Leader]) : chain'[Leader][i] = chain[Leader][i]
      BY <3>1
    <3>4. OnLeaderLedger'
      BY <3>1, <3>3 DEF OnLeaderLedger
    \* ... and what was the tip of n is on it, because h names it.
    <3>5. /\ Len(chain[n]) <= Len(chain[Leader])
          /\ chain[Leader][Len(chain[n])] = chain[n][Len(chain[n])]
      BY <3>1 DEF OnLeaderLedger
    <3>6. ASSUME NEW m \in Nodes, NEW i \in 1 .. Len(chain'[m]) - 1
          PROVE  i <= Len(chain'[Leader]) /\ chain'[m][i] = chain'[Leader][i]
      <4>1. CASE m # n \/ i < Len(chain[n])
        <5>1. i \in 1 .. Len(chain[m]) - 1 /\ chain'[m][i] = chain[m][i]
          BY <3>1, <3>6, <4>1
        <5>2. i <= Len(chain[Leader]) /\ chain[m][i] = chain[Leader][i]
          BY <5>1 DEF AgreeBelowTip
        <5> QED
          BY <3>2, <3>3, <5>1, <5>2
      <4>2. CASE m = n /\ i = Len(chain[n])
        BY <3>1, <3>2, <3>3, <3>5, <4>2
      <4> QED
        BY <3>1, <3>6, <4>1, <4>2
    <3> QED
      BY <3>2, <3>4, <3>6 DEF AgreeBelowTip
  <2>3. ASSUME NEW n \in Nodes, StartOver(n) PROVE IInv'
    <3>1. /\ chain' = [chain EXCEPT ![n] = <<Genesis>>]
          /\ n # Leader
          /\ UNCHANGED place
      BY <2>3 DEF StartOver
    <3> QED
      BY <3>1 DEF OnLeaderLedger, AgreeBelowTip
  <2>4. CASE UNCHANGED vars
    BY <2>4 DEF vars, OnLeaderLedger, AgreeBelowTip
  <2> QED
    BY <2>1, <2>2, <2>3, <2>4 DEF Next
<1>3. IInv => AgreeBelowTip
  BY DEF IInv
<1> QED
  BY <1>1, <1>2, <1>3, PTL DEF Spec

-----------------------------------------------------------------------------
(***************************************************************************)
(* A ledger begins with the genesis block, and every other block of it is  *)
(* at the place it was proposed for.                                       *)
(***************************************************************************)
InPlace ==
  \A n \in Nodes : \A i \in 1 .. Len(chain[n]) :
    IF i = 1 THEN chain[n][i] = Genesis
    ELSE /\ chain[n][i] \in DOMAIN place
         /\ place[chain[n][i]] = [height |-> i - 1, parent |-> chain[n][i - 1]]

PlacesOK == DOMAIN place \subseteq Hashes

HInv == TypeOK /\ PlacesOK /\ InPlace /\ OneHistory

(***************************************************************************)
(* No ledger mixes two histories, even if the leader is restarted and      *)
(* starts a second one (node.py:49): a block is appended on the parent it  *)
(* was proposed for, so who has the block has all that is below it.        *)
(***************************************************************************)
THEOREM OneHistoryAlways ==
  ASSUME Genesis \notin Hashes
  PROVE  Spec => []OneHistory
<1>1. Init => HInv
  BY DEF Init, HInv, TypeOK, PlacesOK, InPlace, OneHistory, Block
<1>2. HInv /\ [Next]_vars => HInv'
  <2> SUFFICES ASSUME HInv, [Next]_vars PROVE HInv'
    OBVIOUS
  <2> USE DEF HInv, TypeOK, Block
  <2>1. ASSUME NEW h \in Hashes, Propose(h) PROVE HInv'
    <3>1. /\ UNCHANGED chain
          /\ DOMAIN place' = DOMAIN place \cup {h}
          /\ \A b \in DOMAIN place : place'[b] = place[b]
      BY <2>1 DEF Propose
    <3> QED
      BY <3>1 DEF PlacesOK, InPlace, OneHistory
  <2>2. ASSUME NEW n \in Nodes, NEW h \in Hashes, Extend(n, h) PROVE HInv'
    <3> DEFINE L == Len(chain[n])
    <3>1. /\ chain' = [chain EXCEPT ![n] = Append(chain[n], h)]
          /\ UNCHANGED place
          /\ h \in DOMAIN place
          /\ place[h] = [height |-> L, parent |-> chain[n][L]]
      BY <2>2 DEF Extend, TopOf, Tip
    <3>2. TypeOK' /\ PlacesOK'
      BY <3>1 DEF PlacesOK
    \* Only the new element of chain[n] differs.
    <3>3. /\ Len(chain'[n]) = L + 1 /\ chain'[n][L + 1] = h /\ L \in Nat \ {0}
          /\ \A m \in Nodes \ {n} : chain'[m] = chain[m]
          /\ \A i \in 1 .. L : chain'[n][i] = chain[n][i]
      BY <3>1
    <3>4. InPlace'
      <4> SUFFICES ASSUME NEW m \in Nodes, NEW i \in 1 .. Len(chain'[m])
                   PROVE  IF i = 1 THEN chain'[m][i] = Genesis
                          ELSE /\ chain'[m][i] \in DOMAIN place'
                               /\ place'[chain'[m][i]] =
                                    [height |-> i - 1, parent |-> chain'[m][i - 1]]
        BY Zenon DEF InPlace
      <4> place' = place
        BY <3>1
      <4>1. CASE m = n /\ i = L + 1
        <5>1. i # 1 /\ i - 1 = L /\ L \in 1 .. L
          BY <3>3, <4>1
        <5> HIDE DEF HInv, TypeOK, Block, L
        <5>2. chain'[m][i] = h /\ chain'[m][i - 1] = chain[n][L]
          BY <3>3, <4>1, <5>1
        <5> QED
          BY <3>1, <5>1, <5>2
      <4>2. CASE m # n \/ i <= L
        <5>1. /\ i \in 1 .. Len(chain[m]) /\ chain'[m][i] = chain[m][i]
              /\ i # 1 => chain'[m][i - 1] = chain[m][i - 1]
          BY <3>3, <4>2, SMTT(30)
        <5> QED
          BY <5>1, ZenonT(60) DEF InPlace
      <4> QED
        BY <3>3, <4>1, <4>2
    \* Where h already is on a ledger, it is above a block that is the tip of n.
    <3>5. ASSUME NEW m \in Nodes, NEW j \in 1 .. Len(chain[m]), chain[m][j] = h
          PROVE  j = L + 1 /\ \A k \in 1 .. L : chain[m][k] = chain[n][k]
      <4>1. j # 1 /\ place[h] = [height |-> j - 1, parent |-> chain[m][j - 1]]
        BY <3>5 DEF InPlace
      <4>2. j = L + 1 /\ L \in 1 .. Len(chain[m]) /\ chain[m][L] = chain[n][L]
        BY <3>1, <3>3, <4>1
      <4> QED
        BY <3>3, <4>2 DEF OneHistory
    <3>6. OneHistory'
      <4> SUFFICES ASSUME NEW a \in Nodes, NEW b \in Nodes,
                          NEW i \in 1 .. Len(chain'[a]), NEW j \in 1 .. Len(chain'[b]),
                          chain'[a][i] = chain'[b][j]
                   PROVE  i = j /\ \A k \in 1 .. i : chain'[a][k] = chain'[b][k]
        BY DEF OneHistory
      <4> DEFINE New(m, x) == m = n /\ x = L + 1
      <4>1. \A m \in Nodes : \A x \in 1 .. Len(chain'[m]) : ~New(m, x) =>
              /\ x \in 1 .. Len(chain[m]) /\ chain'[m][x] = chain[m][x]
              /\ \A k \in 1 .. x : chain'[m][k] = chain[m][k]
        BY <3>3, SMTT(30)
      <4>2. CASE New(a, i) /\ New(b, j)
        BY <4>2
      <4>3. CASE New(a, i) /\ ~New(b, j)
        <5>1. j = L + 1 /\ \A k \in 1 .. L : chain[b][k] = chain[n][k]
          BY <3>3, <3>5, <4>1, <4>3
        <5>2. \A k \in 1 .. j : chain'[b][k] = chain[b][k]
          BY <4>1, <4>3
        <5> QED
          BY <3>3, <4>3, <5>1, <5>2
      <4>4. CASE ~New(a, i) /\ New(b, j)
        <5>1. i = L + 1 /\ \A k \in 1 .. L : chain[a][k] = chain[n][k]
          BY <3>3, <3>5, <4>1, <4>4
        <5>2. \A k \in 1 .. i : chain'[a][k] = chain[a][k]
          BY <4>1, <4>4
        <5> QED
          BY <3>3, <4>4, <5>1, <5>2
      <4>5. CASE ~New(a, i) /\ ~New(b, j)
        <5>1. i = j /\ \A k \in 1 .. i : chain[a][k] = chain[b][k]
          BY <4>1, <4>5 DEF OneHistory
        <5> QED
          BY <4>1, <4>5, <5>1
      <4> QED
        BY <4>2, <4>3, <4>4, <4>5
    <3> QED
      BY <3>2, <3>4, <3>6
  <2>3. ASSUME NEW n \in Nodes, StartOver(n) PROVE HInv'
    <3>1. /\ chain' = [chain EXCEPT ![n] = <<Genesis>>]
          /\ UNCHANGED place
      BY <2>3 DEF StartOver
    <3>2. /\ Len(chain'[n]) = 1 /\ chain'[n][1] = Genesis
          /\ \A m \in Nodes \ {n} : chain'[m] = chain[m]
      BY <3>1
    <3>3. TypeOK' /\ PlacesOK' /\ InPlace'
      BY <3>1, <3>2 DEF PlacesOK, InPlace
    \* The genesis block is the first of every ledger and nowhere else.
    <3>4. \A m \in Nodes : \A i \in 1 .. Len(chain'[m]) : chain'[m][i] = Genesis <=> i = 1
      <4> TAKE m \in Nodes
      <4> TAKE i \in 1 .. Len(chain'[m])
      <4>1. IF i = 1 THEN chain'[m][i] = Genesis ELSE chain'[m][i] \in DOMAIN place'
        BY <3>3 DEF InPlace
      <4>2. DOMAIN place' \subseteq Hashes
        BY <3>3 DEF PlacesOK
      <4> HIDE DEF HInv, TypeOK, Block
      <4> QED
        BY <4>1, <4>2, SMTT(30)
    <3> QED
      BY <3>2, <3>3, <3>4 DEF OneHistory
  <2>4. CASE UNCHANGED vars
    BY <2>4 DEF vars, PlacesOK, InPlace, OneHistory
  <2> QED
    BY <2>1, <2>2, <2>3, <2>4 DEF Next
<1>3. HInv => OneHistory
  BY DEF HInv
<1> QED
  BY <1>1, <1>2, <1>3, PTL DEF Spec
=============================================================================
