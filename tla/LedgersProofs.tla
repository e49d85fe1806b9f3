---------------------------- MODULE LedgersProofs ----------------------------
(***************************************************************************)
(* What the ledgers guarantee with no protocol around them, for any number *)
(* of nodes, transactions and proposals and chains of any length.          *)
(***************************************************************************)
EXTENDS Ledgers, FiniteSetTheorems, SequenceTheorems, TLAPS

-----------------------------------------------------------------------------
(***************************************************************************)
(* A copy carries its own hash: from_dict overwrites every hashed field    *)
(* that the constructor has computed anew (blockchain.py:65, 129).         *)
(***************************************************************************)
LEMMA CopyKeepsIds ==
  ASSUME NEW tx, NEW now, DOMAIN tx = {"data", "timestamp", "tx_id"}
  PROVE  /\ TransactionFromDict(tx, now).tx_id = tx.tx_id
         /\ DOMAIN TransactionFromDict(tx, now) = DOMAIN tx
BY DEF TransactionFromDict, NewTransaction

LEMMA CopyKeepsHash ==
  ASSUME NEW index, NEW parent, NEW txs, NEW nonce, NEW now, NEW later,
         \A i \in DOMAIN txs : DOMAIN txs[i] = {"data", "timestamp", "tx_id"}
  PROVE  LET original == NewBlock(index, parent, txs, nonce, now)
             copy     == BlockFromDict(original, later)
         IN  /\ copy.hash = calculate_hash(copy)
             /\ copy.previous_hash = parent
             /\ copy.merkle_root = RootOf(copy.transactions)
<1> DEFINE original == NewBlock(index, parent, txs, nonce, now)
           copies   == [i \in DOMAIN txs |-> TransactionFromDict(txs[i], later)]
           copy     == BlockFromDict(original, later)
<1>1. /\ copy.index = index /\ copy.previous_hash = parent
      /\ copy.transactions = copies /\ copy.nonce = nonce
      /\ copy.timestamp = now /\ copy.merkle_root = RootOf(txs)
      /\ copy.hash = <<index, parent, RootOf(txs), now, nonce>>
  <2>1. original = [index |-> index, previous_hash |-> parent, transactions |-> txs,
                    nonce |-> nonce, timestamp |-> now, merkle_root |-> RootOf(txs),
                    hash |-> <<index, parent, RootOf(txs), now, nonce>>]
    BY DEF NewBlock
  <2>2. Rebuilt(original, later) = NewBlock(index, parent, copies, nonce, later)
    BY <2>1 DEF Rebuilt
  <2>3. Rebuilt(original, later) =
          [index |-> index, previous_hash |-> parent, transactions |-> copies,
           nonce |-> nonce, timestamp |-> later, merkle_root |-> RootOf(copies),
           hash |-> <<index, parent, RootOf(copies), later, nonce>>]
    BY <2>2 DEF NewBlock
  <2> HIDE DEF original, copies
  <2>4. copy = [Rebuilt(original, later) EXCEPT !.timestamp = now,
                                                !.merkle_root = RootOf(txs),
                                                !.hash = <<index, parent, RootOf(txs), now, nonce>>]
    BY <2>1 DEF BlockFromDict
  <2> DEFINE root == RootOf(txs)
             top  == RootOf(copies)
             id   == <<index, parent, RootOf(copies), later, nonce>>
             hash == <<index, parent, RootOf(txs), now, nonce>>
             base == Rebuilt(original, later)
  <2>5. base = [index |-> index, previous_hash |-> parent, transactions |-> copies,
                nonce |-> nonce, timestamp |-> later, merkle_root |-> top, hash |-> id]
    BY <2>3
  <2>6. copy = [base EXCEPT !.timestamp = now, !.merkle_root = root, !.hash = hash]
    BY <2>4
  <2> HIDE DEF copy, root, top, id, hash, base
  <2>7. /\ copy.index = index /\ copy.previous_hash = parent
        /\ copy.transactions = copies /\ copy.nonce = nonce
        /\ copy.timestamp = now /\ copy.merkle_root = root /\ copy.hash = hash
    BY <2>5, <2>6
  <2> QED
    BY <2>7 DEF root, hash
<1>2. RootOf(copies) = RootOf(txs)
  <2>1. DOMAIN copies = DOMAIN txs
    OBVIOUS
  <2>2. \A i \in DOMAIN txs : copies[i].tx_id = txs[i].tx_id
    BY CopyKeepsIds
  <2>3. [i \in DOMAIN copies |-> copies[i].tx_id] = [i \in DOMAIN txs |-> txs[i].tx_id]
    BY <2>1, <2>2
  <2> QED
    BY <2>3 DEF RootOf
<1> QED
  BY <1>1, <1>2 DEF calculate_hash

\* The copy of a block that a ledger holds passes the test of its own hash and root.
LEMMA KeptIsSound ==
  ASSUME NEW h
  PROVE  /\ Kept(h).hash = calculate_hash(Kept(h))
         /\ Kept(h).previous_hash = blocks[h].previous_hash
         /\ Kept(h).merkle_root = RootOf(Kept(h).transactions)
<1> DEFINE txs == [i \in DOMAIN blocks[h].transactions |->
                     TransactionFromDict(
                       NewTransaction(blocks[h].transactions[i], "submitted"), "pooled")]
<1>1. \A i \in DOMAIN txs : DOMAIN txs[i] = {"data", "timestamp", "tx_id"}
  BY DEF TransactionFromDict, NewTransaction
<1>2. Kept(h) = BlockFromDict(NewBlock(blocks[h].index, blocks[h].previous_hash, txs, 0,
                                       "proposed"), "committed")
  BY DEF Kept, Made
<1> HIDE DEF txs
<1> QED
  BY <1>1, <1>2, CopyKeepsHash

-----------------------------------------------------------------------------
(***************************************************************************)
(* The invariant: types, and every ledger is linked, block by block.       *)
(***************************************************************************)
Linked ==
  \A n \in Nodes : \A i \in 1 .. Len(chain[n]) :
    /\ blocks[chain[n][i]].index = i - 1
    /\ i = 1 => chain[n][i] = Genesis
    /\ i > 1 => blocks[chain[n][i]].previous_hash = chain[n][i - 1]

LInv ==
  /\ TypeOK
  /\ Genesis \in DOMAIN blocks
  /\ Linked
  /\ BlockFixesHistory

LEMMA Initially ==
  ASSUME Init
  PROVE  LInv
<1>1. /\ chain = [n \in Nodes |-> <<Genesis>>] /\ pending = [n \in Nodes |-> <<>>]
      /\ DOMAIN blocks = {Genesis} /\ blocks[Genesis] = GenesisBlock
  BY DEF Init, InitLedgers
<1>2. BlockHeader(GenesisBlock)
  BY DEF BlockHeader, GenesisBlock
<1>3. TypeOK
  BY <1>1, <1>2 DEF TypeOK
<1>4. Linked
  BY <1>1 DEF Linked, GenesisBlock
<1>5. BlockFixesHistory
  BY <1>1 DEF BlockFixesHistory
<1> QED
  BY <1>1, <1>3, <1>4, <1>5 DEF LInv

LEMMA AddTransactionKeeps ==
  ASSUME LInv, NEW n \in Nodes, NEW t \in Txs, AddTransaction(n, t)
  PROVE  LInv'
<1>1. pending' \in [Nodes -> Seq(Txs)] /\ UNCHANGED <<blocks, chain>>
  BY DEF AddTransaction, LInv, TypeOK
<1> QED
  BY <1>1, SMTT(30) DEF LInv, TypeOK, BlockHeader, Linked, BlockFixesHistory

\* A new block has the number and the parent of the place above the tip; blocks
\* that exist stay as they are.
LEMMA CreateBlockKeeps ==
  ASSUME LInv, NEW n \in Nodes, NEW h \in Hashes, CreateBlock(n, h)
  PROVE  LInv'
<1>1. /\ DOMAIN blocks' = DOMAIN blocks \cup {h} /\ blocks'[h] = Candidate(n)
      /\ UNCHANGED <<chain, pending>>
  BY DEF CreateBlock
<1>2. \A b \in DOMAIN blocks : blocks'[b] = blocks[b]
  BY DEF CreateBlock, DigestOf, Unused
<1>3. /\ Len(chain[n]) \in Nat /\ Len(chain[n]) >= 1
      /\ Tip(n) \in DOMAIN blocks
  BY DEF LInv, TypeOK, Tip
<1>4. BlockHeader(Candidate(n))
  <2> DEFINE size == IF Len(pending[n]) < MAX_TRANSACTIONS_PER_BLOCK
                     THEN Len(pending[n]) ELSE MAX_TRANSACTIONS_PER_BLOCK
  <2>1. pending[n] \in Seq(Txs) /\ size \in 0 .. Len(pending[n])
    BY LedgerAssumption DEF LInv, TypeOK
  <2>2. SubSeq(pending[n], 1, size) \in Seq(Txs)
    BY <2>1
  <2>3. blocks[Tip(n)].index + 1 \in Nat /\ Tip(n) \in Hashes \cup {Genesis}
    BY <1>3 DEF LInv, TypeOK, BlockHeader
  <2> QED
    BY <2>2, <2>3 DEF Candidate, BlockHeader
<1>5. TypeOK'
  <2>1. DOMAIN blocks' \subseteq Hashes \cup {Genesis}
    BY <1>1 DEF LInv, TypeOK
  <2>2. \A b \in DOMAIN blocks' : BlockHeader(blocks'[b])
    BY <1>1, <1>2, <1>4 DEF LInv, TypeOK
  <2>3. chain' \in [Nodes -> Seq(DOMAIN blocks')]
    BY <1>1 DEF LInv, TypeOK
  <2> QED
    BY <1>1, <2>1, <2>2, <2>3 DEF LInv, TypeOK
<1>6. Linked'
  <2>1. \A m \in Nodes : \A i \in 1 .. Len(chain[m]) : chain[m][i] \in DOMAIN blocks
    BY DEF LInv, TypeOK
  <2> QED
    BY <1>1, <1>2, <2>1 DEF LInv, Linked
<1> QED
  BY <1>1, <1>5, <1>6 DEF LInv, BlockFixesHistory

\* What is left of a pool is made of its transactions.
LEMMA RestIsTyped ==
  ASSUME NEW pool \in Seq(Txs), NEW gone, NEW rest \in Without(pool, gone)
  PROVE  rest \in Seq(Txs)
<1>1. PICK k \in 0 .. Len(pool) : rest \in [1 .. k -> Elements(pool)]
  BY DEF Without
<1>2. Elements(pool) \subseteq Txs
  BY DEF Elements
<1>3. k \in Nat /\ rest \in [1 .. k -> Txs]
  BY <1>1, <1>2
<1> QED
  BY <1>3

\* A block goes on top of its parent, which is where every ledger that has it
\* has it.
LEMMA AddBlockKeeps ==
  ASSUME LInv, NEW n \in Nodes, NEW h \in Hashes \cap DOMAIN blocks, AddBlock(n, h)
  PROVE  LInv'
<1> DEFINE old == chain[n]
           L   == Len(old)
<1>1. old \in Seq(DOMAIN blocks) /\ L \in Nat /\ L >= 1
  BY DEF LInv, TypeOK
<1>2. CASE ~Acceptable(n, h)
  BY <1>2 DEF AddBlock, ledgerVars, LInv, TypeOK, BlockHeader, Linked, BlockFixesHistory
<1>3. CASE Acceptable(n, h)
  <2>1. /\ chain' = [chain EXCEPT ![n] = Append(old, h)]
        /\ UNCHANGED blocks
    BY <1>3 DEF AddBlock
  <2>2. pending' \in [Nodes -> Seq(Txs)]
    <3>1. PICK rest \in Without(pending[n], TxsOf(h)) :
            pending' = [pending EXCEPT ![n] = rest]
      BY <1>3 DEF AddBlock
    <3>2. pending[n] \in Seq(Txs)
      BY DEF LInv, TypeOK
    <3>3. rest \in Seq(Txs)
      BY <3>2, RestIsTyped
    <3> QED
      BY <3>1, <3>3 DEF LInv, TypeOK
  <2>3. /\ Len(chain'[n]) = L + 1 /\ chain'[n][L + 1] = h
        /\ \A i \in 1 .. L : chain'[n][i] = old[i]
        /\ \A m \in Nodes \ {n} : chain'[m] = chain[m]
    <3>1. /\ chain'[n] = Append(old, h)
          /\ \A m \in Nodes \ {n} : chain'[m] = chain[m]
      BY <2>1 DEF LInv, TypeOK
    <3> HIDE DEF old
    <3>2. /\ Len(Append(old, h)) = L + 1 /\ Append(old, h)[L + 1] = h
          /\ \A i \in 1 .. L : Append(old, h)[i] = old[i]
      BY <1>1
    <3> QED
      BY <3>1, <3>2
  <2>4. TypeOK'
    <3>1. chain' \in [Nodes -> Seq(DOMAIN blocks)]
      <4>1. Append(old, h) \in Seq(DOMAIN blocks)
        BY <1>1
      <4> QED
        BY <2>1, <4>1 DEF LInv, TypeOK
    <3>2. \A m \in Nodes : Len(chain'[m]) >= 1
      <4>1. \A m \in Nodes \ {n} : Len(chain'[m]) >= 1
        BY <2>3 DEF LInv, TypeOK
      <4> HIDE DEF old
      <4>2. Len(chain'[n]) >= 1
        BY <1>1, <2>3
      <4> QED
        BY <4>1, <4>2
    <3> QED
      BY <2>1, <2>2, <3>1, <3>2 DEF LInv, TypeOK, BlockHeader
  <2>5. blocks[h].index = L /\ blocks[h].previous_hash = old[L]
    BY <1>1, <1>3 DEF Acceptable, Tip, LInv, Linked
  <2>6. Linked'
    <3> SUFFICES ASSUME NEW m \in Nodes, NEW i \in 1 .. Len(chain'[m])
                 PROVE  /\ blocks[chain'[m][i]].index = i - 1
                        /\ i = 1 => chain'[m][i] = Genesis
                        /\ i > 1 => blocks[chain'[m][i]].previous_hash = chain'[m][i - 1]
      BY <2>1 DEF Linked
    <3>1. CASE m = n /\ i = L + 1
      BY <1>1, <2>3, <2>5, <3>1
    <3>2. CASE m # n \/ i <= L
      <4>1. /\ i \in 1 .. Len(chain[m]) /\ chain'[m][i] = chain[m][i]
            /\ i > 1 => chain'[m][i - 1] = chain[m][i - 1]
        BY <1>1, <2>3, <3>2
      <4> QED
        BY <4>1 DEF LInv, Linked
    <3> QED
      BY <1>1, <2>3, <3>1, <3>2
  \* Where h already is, it is above what is the tip of n.
  <2>7. ASSUME NEW m \in Nodes, NEW j \in 1 .. Len(chain[m]), chain[m][j] = h
        PROVE  j = L + 1 /\ \A k \in 1 .. L : chain[m][k] = old[k]
    <3>1. j = L + 1
      BY <1>1, <2>5, <2>7 DEF LInv, Linked
    <3>2. L \in 1 .. Len(chain[m]) /\ chain[m][L] = old[L]
      BY <1>1, <2>5, <2>7, <3>1 DEF LInv, Linked
    <3> QED
      BY <1>1, <3>1, <3>2 DEF LInv, TypeOK, BlockFixesHistory
  <2>8. BlockFixesHistory'
    <3> SUFFICES ASSUME NEW a \in Nodes, NEW b \in Nodes,
                        NEW i \in 1 .. Len(chain'[a]), NEW j \in 1 .. Len(chain'[b]),
                        chain'[a][i] = chain'[b][j]
                 PROVE  i = j /\ \A k \in 1 .. i : chain'[a][k] = chain'[b][k]
      BY <2>4 DEF BlockFixesHistory, TypeOK
    <3> DEFINE New(m, x) == m = n /\ x = L + 1
    <3>1. \A m \in Nodes : \A x \in 1 .. Len(chain'[m]) : ~New(m, x) =>
            /\ x \in 1 .. Len(chain[m]) /\ chain'[m][x] = chain[m][x]
            /\ \A k \in 1 .. x : chain'[m][k] = chain[m][k]
      <4>1. \A m \in Nodes : Len(chain[m]) \in Nat
        BY DEF LInv, TypeOK
      <4>2. \A m \in Nodes \ {n} : \A x \in 1 .. Len(chain'[m]) :
              /\ x \in 1 .. Len(chain[m]) /\ chain'[m][x] = chain[m][x]
              /\ \A k \in 1 .. x : chain'[m][k] = chain[m][k]
        BY <2>3, <4>1
      <4>3. \A x \in 1 .. L : \A k \in 1 .. x : chain'[n][k] = old[k]
        BY <1>1, <2>3
      <4> QED
        BY <1>1, <2>3, <4>2, <4>3, SMTT(30)
    <3>2. CASE New(a, i) /\ New(b, j)
      BY <3>2
    <3>3. CASE New(a, i) /\ ~New(b, j)
      <4>1. j \in 1 .. Len(chain[b]) /\ chain[b][j] = h
        BY <2>3, <3>1, <3>3
      <4>2. j = L + 1 /\ \A k \in 1 .. L : chain[b][k] = old[k]
        BY <2>7, <4>1
      <4> QED
        BY <1>1, <2>3, <3>1, <3>3, <4>1, <4>2
    <3>4. CASE ~New(a, i) /\ New(b, j)
      <4>1. i \in 1 .. Len(chain[a]) /\ chain[a][i] = h
        BY <2>3, <3>1, <3>4
      <4>2. i = L + 1 /\ \A k \in 1 .. L : chain[a][k] = old[k]
        BY <2>7, <4>1
      <4> QED
        BY <1>1, <2>3, <3>1, <3>4, <4>1, <4>2
    <3>5. CASE ~New(a, i) /\ ~New(b, j)
      <4>1. /\ i \in 1 .. Len(chain[a]) /\ j \in 1 .. Len(chain[b])
            /\ chain[a][i] = chain[b][j]
        BY <3>1, <3>5
      <4>2. i = j /\ \A k \in 1 .. i : chain[a][k] = chain[b][k]
        BY <4>1 DEF LInv, TypeOK, BlockFixesHistory
      <4> QED
        BY <3>1, <3>5, <4>2
    <3> QED
      BY <3>2, <3>3, <3>4, <3>5
  <2> QED
    BY <2>1, <2>4, <2>6, <2>8 DEF LInv
<1> QED
  BY <1>2, <1>3

LEMMA Inductive == Spec => []LInv
<1>1. LInv /\ [Next]_ledgerVars => LInv'
  <2> SUFFICES ASSUME LInv, [Next]_ledgerVars PROVE LInv'
    OBVIOUS
  <2>1. CASE UNCHANGED ledgerVars
    BY <2>1 DEF ledgerVars, LInv, TypeOK, BlockHeader, Linked, BlockFixesHistory
  <2> QED
    BY <2>1, AddTransactionKeeps, CreateBlockKeeps, AddBlockKeeps DEF Next
<1> QED
  BY <1>1, Initially, PTL DEF Spec

-----------------------------------------------------------------------------
(***************************************************************************)
(* The ledgers stay within their types, whatever they are called with.     *)
(***************************************************************************)
THEOREM TypeCorrect == Spec => []TypeOK
<1>1. LInv => TypeOK
  BY DEF LInv
<1> QED
  BY <1>1, Inductive, PTL

(***************************************************************************)
(* Every ledger passes validate_chain at any time: the checks of add_block *)
(* against the tip (blockchain.py:211-233) suffice for the whole chain     *)
(* (blockchain.py:253-273), and copies of blocks keep their hashes.        *)
(***************************************************************************)
THEOREM ChainsAlwaysValidate == Spec => []ValidChains
<1>1. LInv => ValidChains
  <2> SUFFICES ASSUME LInv, NEW n \in Nodes
               PROVE  /\ validate_chain(n)
                      /\ \A i \in DOMAIN chain[n] : blocks[chain[n][i]].index = i - 1
    BY DEF ValidChains
  <2>1. DOMAIN chain[n] = 1 .. Len(chain[n]) /\ Len(chain[n]) \in Nat
    BY DEF LInv, TypeOK
  <2>2. \A i \in DOMAIN chain[n] : blocks[chain[n][i]].index = i - 1
    BY <2>1 DEF LInv, Linked
  <2>3. ASSUME NEW i \in 2 .. Len(chain[n])
        PROVE  blocks[chain[n][i]].previous_hash = chain[n][i - 1]
    BY <2>1 DEF LInv, Linked
  <2> QED
    BY <2>2, <2>3, KeptIsSound DEF validate_chain
<1> QED
  BY <1>1, Inductive, PTL

(***************************************************************************)
(* A block determines its history on every ledger that has it, in whatever *)
(* order blocks are delivered (blockchain.py:211-225).                     *)
(***************************************************************************)
THEOREM BlocksFixHistories == Spec => []BlockFixesHistory
<1>1. LInv => BlockFixesHistory
  BY DEF LInv
<1> QED
  BY <1>1, Inductive, PTL

-----------------------------------------------------------------------------
(***************************************************************************)
(* Every non-empty set of numbers has a least element: what an induction   *)
(* over data comes down to when it is stated with sets alone.              *)
(***************************************************************************)
LEMMA Least ==
  ASSUME NEW T \in SUBSET Nat, T # {}
  PROVE  \E m \in T : \A k \in T : m <= k
<1> DEFINE R == StrictSubsetOrdering(Nat)
           S == FiniteSubsetsOf(Nat)
           U == {0 .. x : x \in T}
<1>1. IsWellFoundedOn(R, S)
  BY FS_StrictSubsetOrderingWellFounded
<1>2. U \subseteq S
  <2>1. \A x \in T : IsFiniteSet(0 .. x)
    BY FS_Interval
  <2>2. \A x \in T : 0 .. x \subseteq Nat
    OBVIOUS
  <2> QED
    BY <2>1, <2>2 DEF FiniteSubsetsOf
<1>3. U # {}
  OBVIOUS
<1>4. PICK u \in U : \A v \in U : ~(<<v, u>> \in R)
  <2> HIDE DEF R, S, U
  <2> QED
    BY <1>1, <1>2, <1>3, WFMin
<1>5. PICK m \in T : u = 0 .. m
  OBVIOUS
<1>6. ASSUME NEW k \in T, k < m
      PROVE  FALSE
  <2>1. 0 .. k \subseteq 0 .. m /\ 0 .. k # 0 .. m
    BY <1>6
  <2>2. 0 .. k \in SUBSET Nat /\ 0 .. m \in SUBSET Nat
    OBVIOUS
  <2>3. <<0 .. k, 0 .. m>> \in R
    BY <2>1, <2>2 DEF StrictSubsetOrdering
  <2>4. 0 .. k \in U
    OBVIOUS
  <2> QED
    BY <1>4, <1>5, <2>3, <2>4
<1> QED
  BY <1>6

\* Induction up to n, for the set of numbers that have a property.
LEMMA Induction ==
  ASSUME NEW n \in Nat, NEW H \in SUBSET (0 .. n), 0 \in H,
         \A k \in 0 .. n - 1 : k \in H => k + 1 \in H
  PROVE  H = 0 .. n
<1> DEFINE T == (0 .. n) \ H
<1> SUFFICES ASSUME T # {} PROVE FALSE
  OBVIOUS
<1>1. PICK m \in T : \A k \in T : m <= k
  <2>1. T \in SUBSET Nat
    OBVIOUS
  <2> HIDE DEF T
  <2> QED
    BY <2>1, Least
<1>2. m - 1 \in 0 .. n - 1 /\ m - 1 \notin T
  BY <1>1
<1> QED
  BY <1>2

-----------------------------------------------------------------------------
(***************************************************************************)
(* The passes of the loop of compute_merkle_root (utils.py:51-61): the     *)
(* recursive function exists, is what its equation says, and its levels are *)
(* lists that shrink until one hash is left.                               *)
(***************************************************************************)
LEMMA LevelsDef ==
  ASSUME NEW s, Len(s) \in Nat
  PROVE  /\ DOMAIN Levels(s) = 0 .. Len(s)
         /\ Levels(s)[0] = s
         /\ \A k \in 0 .. Len(s) - 1 :
              Levels(s)[k + 1] = IF Len(Levels(s)[k]) > 1
                                 THEN NextLevel(Levels(s)[k]) ELSE Levels(s)[k]
<1> DEFINE n == Len(s)
           Pass(level) == IF Len(level) > 1 THEN NextLevel(level) ELSE level
           Body(g, k) == IF k = 0 THEN s ELSE Pass(g[k - 1])
           H == {j \in 0 .. n : \E g : g = [k \in 0 .. j |-> Body(g, k)]}
<1>1. 0 \in H
  <2> DEFINE g == [k \in 0 .. 0 |-> s]
  <2>1. g = [k \in 0 .. 0 |-> Body(g, k)]
    OBVIOUS
  <2> HIDE DEF Body, g
  <2> QED
    BY <2>1
<1>2. ASSUME NEW j \in 0 .. n - 1, j \in H PROVE j + 1 \in H
  <2> HIDE DEF Pass
  <2>1. PICK g : g = [k \in 0 .. j |-> Body(g, k)]
    BY <1>2
  <2> DEFINE e == [k \in 0 .. j + 1 |-> IF k <= j THEN g[k] ELSE Pass(g[j])]
  <2>2. \A k \in 0 .. j : e[k] = g[k]
    OBVIOUS
  <2>3. ASSUME NEW k \in 0 .. j + 1
        PROVE  e[k] = Body(e, k)
    BY <2>1, <2>2, SMTT(30)
  <2>4. e = [k \in 0 .. j + 1 |-> Body(e, k)]
    <3>1. e = [k \in 0 .. j + 1 |-> e[k]]
      OBVIOUS
    <3> HIDE DEF e, Body
    <3> QED
      BY <2>3, <3>1
  <2> HIDE DEF e, Body
  <2> QED
    BY <2>4
<1>3. H = 0 .. n
  <2> HIDE DEF H
  <2>1. H \subseteq 0 .. n
    BY DEF H
  <2> QED
    BY <1>1, <1>2, <2>1, Induction
<1>4. \E g : g = [k \in 0 .. n |-> Body(g, k)]
  <2>1. n \in H
    BY <1>3
  <2> HIDE DEF Body
  <2> QED
    BY <2>1
<1>5. Levels(s) = CHOOSE g : g = [k \in 0 .. n |-> Body(g, k)]
  BY DEF Levels
<1>6. Levels(s) = [k \in 0 .. n |-> Body(Levels(s), k)]
  <2> HIDE DEF Body
  <2> QED
    BY <1>4, <1>5
<1> HIDE DEF Pass
<1> QED
  <2>1. Levels(s)[0] = s /\ DOMAIN Levels(s) = 0 .. n
    BY <1>6
  <2>2. ASSUME NEW k \in 0 .. n - 1 PROVE Levels(s)[k + 1] = Pass(Levels(s)[k])
    <3>1. Levels(s)[k + 1] = Body(Levels(s), k + 1)
      <4> HIDE DEF Body
      <4> QED
        BY <1>6
    <3>2. k + 1 # 0 /\ (k + 1) - 1 = k
      OBVIOUS
    <3> QED
      BY <3>1, <3>2
  <2> QED
    BY <2>1, <2>2 DEF Pass
-----------------------------------------------------------------------------
IsList(s) == s \in Seq(Elements(s))

\* IsList is `a sequence', of whatever is in it.
LEMMA ListFacts ==
  ASSUME NEW s, IsList(s)
  PROVE  /\ Len(s) \in Nat
         /\ DOMAIN s = 1 .. Len(s)
         /\ s = [i \in 1 .. Len(s) |-> s[i]]
BY LenProperties DEF IsList

LEMMA ListsEqual ==
  ASSUME NEW s, NEW t, IsList(s), IsList(t), Len(s) = Len(t),
         \A i \in 1 .. Len(s) : s[i] = t[i]
  PROVE  s = t
BY ListFacts

\* A pass halves the level, rounding up.
LEMMA NextIsList ==
  ASSUME NEW s, IsList(s)
  PROVE  /\ IsList(NextLevel(s))
         /\ Len(NextLevel(s)) = (Len(s) + 1) \div 2
<1> DEFINE next == NextLevel(s)
           k == (Len(s) + 1) \div 2
<1>1. k \in Nat /\ Len(s) \in Nat
  BY ListFacts
<1>2. DOMAIN next = 1 .. k
  BY DEF NextLevel
<1>3. next = [i \in 1 .. k |-> next[i]]
  BY DEF NextLevel
<1> HIDE DEF next, k
<1>4. \A i \in 1 .. k : next[i] \in Elements(next)
  BY <1>2 DEF Elements
<1>5. next \in [1 .. k -> Elements(next)]
  BY <1>3, <1>4
<1>6. next \in Seq(Elements(next))
  BY <1>1, <1>5, SeqDef
<1>7. Len(next) = k
  <2>1. DOMAIN next = 1 .. Len(next) /\ Len(next) \in Nat
    BY <1>6, LenProperties
  <2> QED
    BY <1>1, <1>2, <2>1
<1> QED
  BY <1>6, <1>7 DEF IsList, next, k

\* So it makes it shorter, as long as it can.
LEMMA Halving ==
  ASSUME NEW a \in Nat, a >= 1, NEW r \in Int, a = 1 \/ a <= r,
         NEW b, b = IF a > 1 THEN (a + 1) \div 2 ELSE a
  PROVE  b >= 1 /\ (b = 1 \/ b <= r - 1)
<1>1. CASE a > 1
  <2>1. b = (a + 1) \div 2 /\ b >= 1 /\ b <= a - 1 /\ a <= r
    BY <1>1
  <2>2. b \in Int
    BY <2>1
  <2> QED
    BY <2>1, <2>2
<1>2. CASE ~(a > 1)
  BY <1>2
<1> QED
  BY <1>1, <1>2

\* The same for the level after level k, which may be the last.
LEMMA NextSize ==
  ASSUME NEW s, Len(s) \in Nat, NEW k \in 0 .. Len(s) - 1, IsList(Levels(s)[k])
  PROVE  /\ IsList(Levels(s)[k + 1])
         /\ Len(Levels(s)[k + 1]) = IF Len(Levels(s)[k]) > 1
                                    THEN (Len(Levels(s)[k]) + 1) \div 2
                                    ELSE Len(Levels(s)[k])
<1> DEFINE this == Levels(s)[k]
           next == Levels(s)[k + 1]
<1>1. next = IF Len(this) > 1 THEN NextLevel(this) ELSE this
  BY LevelsDef
<1>2. IsList(NextLevel(this)) /\ Len(NextLevel(this)) = (Len(this) + 1) \div 2
  BY NextIsList
<1> HIDE DEF this, next
<1>3. IsList(this)
  BY DEF this
<1>4. /\ IsList(next)
      /\ Len(next) = IF Len(this) > 1 THEN (Len(this) + 1) \div 2 ELSE Len(this)
  <2>1. CASE Len(this) > 1
    <3>1. next = NextLevel(this)
      BY <1>1, <2>1
    <3> QED
      BY <1>2, <2>1, <3>1
  <2>2. CASE ~(Len(this) > 1)
    <3>1. next = this
      BY <1>1, <2>2
    <3> QED
      BY <1>3, <2>2, <3>1
  <2> QED
    BY <2>1, <2>2
<1> QED
  BY <1>4 DEF this, next

LEMMA LevelsShrink ==
  ASSUME NEW s, IsList(s), Len(s) >= 1, NEW k \in 0 .. Len(s)
  PROVE  /\ IsList(Levels(s)[k])
         /\ Len(Levels(s)[k]) >= 1
         /\ Len(Levels(s)[k]) = 1 \/ Len(Levels(s)[k]) <= Len(s) - k
<1> DEFINE n == Len(s)
           size(j) == Len(Levels(s)[j])
           Shorter(j) == /\ IsList(Levels(s)[j]) /\ size(j) >= 1
                         /\ size(j) = 1 \/ size(j) <= n - j
           H == {j \in 0 .. n : Shorter(j)}
<1>1. n \in Nat
  BY ListFacts
<1>2. 0 \in H
  <2>1. Levels(s)[0] = s
    BY <1>1, LevelsDef
  <2> QED
    BY <1>1, <2>1
<1>3. ASSUME NEW j \in 0 .. n - 1, j \in H PROVE j + 1 \in H
  <2>1. IsList(Levels(s)[j]) /\ size(j) >= 1 /\ (size(j) = 1 \/ size(j) <= n - j)
    BY <1>3
  <2>2. size(j) \in Nat
    BY <2>1, ListFacts
  <2>3. /\ IsList(Levels(s)[j + 1])
        /\ size(j + 1) = IF size(j) > 1 THEN (size(j) + 1) \div 2 ELSE size(j)
    BY <1>1, <2>1, NextSize
  <2>4. n - j \in Int /\ j + 1 \in 0 .. n /\ (n - j) - 1 = n - (j + 1)
    BY <1>1
  <2> HIDE DEF size, n
  <2>5. size(j + 1) >= 1 /\ (size(j + 1) = 1 \/ size(j + 1) <= (n - j) - 1)
    BY <2>1, <2>2, <2>3, <2>4, Halving
  <2>6. Shorter(j + 1)
    BY <2>3, <2>4, <2>5
  <2> QED
    BY <2>4, <2>6
<1>4. H = 0 .. n
  <2> HIDE DEF H
  <2>1. H \in SUBSET (0 .. n)
    BY DEF H
  <2> QED
    BY <1>1, <1>2, <1>3, <2>1, Induction
<1> QED
  BY <1>4

\* The first level with one hash is the last, and holds the root.
LEMMA Passes ==
  ASSUME NEW s, IsList(s), Len(s) >= 1
  PROVE  \E d \in 0 .. Len(s) :
           /\ Len(Levels(s)[d]) = 1
           /\ compute_merkle_root(s) = Levels(s)[d][1]
           /\ \A k \in 0 .. d - 1 :
                /\ Len(Levels(s)[k]) > 1
                /\ Levels(s)[k + 1] = NextLevel(Levels(s)[k])
<1> DEFINE n == Len(s)
           L == Levels(s)
           size == [j \in 0 .. n |-> Len(L[j])]
           T == {j \in 0 .. n : size[j] = 1}
<1>1. n \in Nat
  BY ListFacts
<1>2. \A j \in 0 .. n - 1 :
        L[j + 1] = IF size[j] > 1 THEN NextLevel(L[j]) ELSE L[j]
  BY <1>1, LevelsDef
<1>3. /\ size \in [0 .. n -> Nat]
      /\ \A j \in 0 .. n : size[j] >= 1 /\ (size[j] = 1 \/ size[j] <= n - j)
  BY LevelsShrink, ListFacts
<1>4. size[n] = 1
  BY <1>1, <1>3
<1>5. compute_merkle_root(s) = L[n][1]
  BY <1>1 DEF compute_merkle_root
<1>6. \A j \in 0 .. n : size[j] = Len(L[j])
  OBVIOUS
<1> HIDE DEF n, L, size
<1>7. PICK d \in 0 .. n : size[d] = 1 /\ \A j \in 0 .. d - 1 : size[j] > 1
  <2>1. n \in T /\ T \in SUBSET Nat
    BY <1>1, <1>4
  <2>2. PICK d \in T : \A j \in T : d <= j
    <3> HIDE DEF T
    <3> QED
      BY <2>1, Least
  <2>3. \A j \in 0 .. d - 1 : j \in 0 .. n /\ j \notin T
    BY <1>1, <2>2
  <2> QED
    BY <1>3, <2>2, <2>3
<1>8. \A k \in 0 .. d - 1 : size[k] > 1 /\ L[k + 1] = NextLevel(L[k])
  BY <1>1, <1>2, <1>7
<1>9. L[n] = L[d]
  <2> DEFINE H == {j \in 0 .. n - d : L[d + j] = L[d] /\ size[d + j] = 1}
  <2>1. 0 \in H
    BY <1>1, <1>7
  <2>2. ASSUME NEW j \in 0 .. (n - d) - 1, j \in H PROVE j + 1 \in H
    <3>1. d + j \in 0 .. n - 1 /\ d + (j + 1) = (d + j) + 1 /\ j + 1 \in 0 .. n - d
          /\ d + j \in 0 .. n /\ d + (j + 1) \in 0 .. n
      BY <1>1
    <3>2. L[d + j] = L[d] /\ size[d + j] = 1
      BY <2>2
    <3>3. L[(d + j) + 1] = L[d + j]
      BY <1>2, <3>1, <3>2
    <3>4. L[d + (j + 1)] = L[d]
      BY <3>1, <3>2, <3>3
    <3>5. size[d + (j + 1)] = 1
      BY <1>6, <1>7, <3>1, <3>4
    <3> QED
      BY <3>1, <3>4, <3>5
  <2>3. n - d \in Nat /\ d + (n - d) = n
    BY <1>1
  <2>4. H = 0 .. n - d
    <3> HIDE DEF H
    <3>1. H \in SUBSET (0 .. n - d)
      BY DEF H
    <3> QED
      BY <2>1, <2>2, <2>3, <3>1, Induction
  <2>5. L[d + (n - d)] = L[d]
    <3>1. n - d \in H
      <4> HIDE DEF H
      <4> QED
        BY <2>3, <2>4
    <3> QED
      BY <3>1
  <2> QED
    BY <2>3, <2>5
<1>10. /\ Len(L[d]) = 1
       /\ \A k \in 0 .. d - 1 : Len(L[k]) > 1
  <2>1. \A k \in 0 .. d - 1 : k \in 0 .. n
    BY <1>1
  <2> QED
    BY <1>6, <1>7, <2>1
<1> QED
  BY <1>5, <1>8, <1>9, <1>10 DEF n, L

-----------------------------------------------------------------------------
Distinct(s) == \A i, j \in DOMAIN s : s[i] = s[j] => i = j
IsPair(x) == \E a, b : x = <<a, b>>
IsLeaf(x) == x # EmptyRoot /\ ~IsPair(x)

\* What the k-th pair of the next level has on its right.
RightOf(s, k) == IF 2 * k <= Len(s) THEN s[2 * k] ELSE s[2 * k - 1]

LEMMA NextLevelAt ==
  ASSUME NEW s, IsList(s), NEW i \in 1 .. (Len(s) + 1) \div 2
  PROVE  /\ 2 * i - 1 \in 1 .. Len(s)
         /\ NextLevel(s)[i] = <<s[2 * i - 1], RightOf(s, i)>>
BY ListFacts DEF NextLevel, RightOf

\* Equal pairs have equal halves.
LEMMA SamePair ==
  ASSUME NEW s, NEW t, IsList(s), IsList(t),
         NEW i \in 1 .. (Len(s) + 1) \div 2, NEW j \in 1 .. (Len(t) + 1) \div 2,
         NextLevel(s)[i] = NextLevel(t)[j]
  PROVE  /\ 2 * i - 1 \in 1 .. Len(s) /\ 2 * j - 1 \in 1 .. Len(t)
         /\ s[2 * i - 1] = t[2 * j - 1]
         /\ RightOf(s, i) = RightOf(t, j)
<1>1. /\ NextLevel(s)[i] = <<s[2 * i - 1], RightOf(s, i)>>
      /\ NextLevel(t)[j] = <<t[2 * j - 1], RightOf(t, j)>>
      /\ 2 * i - 1 \in 1 .. Len(s) /\ 2 * j - 1 \in 1 .. Len(t)
  BY NextLevelAt
<1>2. \A a, b, c, d : <<a, b>> = <<c, d>> => a = c /\ b = d
  OBVIOUS
<1> DEFINE a == s[2 * i - 1]
           b == RightOf(s, i)
           c == t[2 * j - 1]
           d == RightOf(t, j)
<1>3. <<a, b>> = <<c, d>>
  BY <1>1
<1>4. a = c /\ b = d
  <2> HIDE DEF a, b, c, d
  <2> QED
    BY <1>2, <1>3
<1> QED
  BY <1>1, <1>4

\* A pass keeps hashes apart.
LEMMA NextDistinct ==
  ASSUME NEW s, IsList(s), Distinct(s)
  PROVE  Distinct(NextLevel(s))
<1>1. DOMAIN NextLevel(s) = 1 .. (Len(s) + 1) \div 2 /\ Len(s) \in Nat
  BY ListFacts DEF NextLevel
<1>2. ASSUME NEW i \in DOMAIN NextLevel(s), NEW j \in DOMAIN NextLevel(s),
             NextLevel(s)[i] = NextLevel(s)[j]
      PROVE  i = j
  <2>0. i \in 1 .. (Len(s) + 1) \div 2 /\ j \in 1 .. (Len(s) + 1) \div 2
    BY <1>1
  <2>1. /\ 2 * i - 1 \in 1 .. Len(s) /\ 2 * j - 1 \in 1 .. Len(s)
        /\ s[2 * i - 1] = s[2 * j - 1]
    BY <1>2, <2>0, SamePair
  <2>2. 2 * i - 1 = 2 * j - 1
    BY <2>1, ListFacts DEF Distinct
  <2> QED
    BY <1>1, <2>2
<1> QED
  BY <1>2 DEF Distinct

\* What `rounded up' means.
LEMMA Halves ==
  ASSUME NEW a \in Nat, NEW b, b = (a + 1) \div 2
  PROVE  b \in Nat /\ (a >= 1 => b >= 1) /\ (a = 2 * b \/ a = 2 * b - 1)
OBVIOUS

\* A level is recovered from the next: its length is odd exactly if the last
\* pair joins a hash with itself.
LEMMA NextInjective ==
  ASSUME NEW s, NEW t, IsList(s), IsList(t), Distinct(s), Distinct(t),
         NextLevel(s) = NextLevel(t)
  PROVE  s = t
<1> DEFINE a == Len(s)
           b == Len(t)
           q == (a + 1) \div 2
<1>1. a \in Nat /\ b \in Nat /\ DOMAIN s = 1 .. a /\ DOMAIN t = 1 .. b
  BY ListFacts
<1>2. q = (b + 1) \div 2
  BY NextIsList
<1>3. q = (a + 1) \div 2
  OBVIOUS
<1> HIDE DEF a, b, q
<1>4. \A i \in 1 .. q :
        /\ 2 * i - 1 \in 1 .. a /\ 2 * i - 1 \in 1 .. b
        /\ s[2 * i - 1] = t[2 * i - 1]
        /\ (IF 2 * i <= a THEN s[2 * i] ELSE s[2 * i - 1])
             = (IF 2 * i <= b THEN t[2 * i] ELSE t[2 * i - 1])
  <2> TAKE i \in 1 .. q
  <2>1. i \in 1 .. (Len(s) + 1) \div 2 /\ i \in 1 .. (Len(t) + 1) \div 2
    BY <1>2, <1>3, Zenon DEF a, b
  <2>2. NextLevel(s)[i] = NextLevel(t)[i]
    OBVIOUS
  <2>3. /\ 2 * i - 1 \in 1 .. Len(s) /\ 2 * i - 1 \in 1 .. Len(t)
        /\ s[2 * i - 1] = t[2 * i - 1]
        /\ RightOf(s, i) = RightOf(t, i)
    BY <2>1, <2>2, SamePair, SMTT(30)
  <2> QED
    BY <2>3 DEF a, b, RightOf
<1>5. q \in Nat /\ (a = 2 * q \/ a = 2 * q - 1) /\ (b = 2 * q \/ b = 2 * q - 1)
  <2>1. a \in Nat /\ b \in Nat
    BY <1>1
  <2>2. q \in Nat /\ (a = 2 * q \/ a = 2 * q - 1)
    BY <1>3, <2>1, Halves
  <2>3. b = 2 * q \/ b = 2 * q - 1
    BY <1>2, <2>1, Halves
  <2> QED
    BY <2>2, <2>3
<1>6. \A i \in 1 .. a : \E j \in 1 .. q : i = 2 * j - 1 \/ i = 2 * j
  <2> TAKE i \in 1 .. a
  <2> DEFINE j == (i + 1) \div 2
  <2>1. i \in Nat /\ j = (i + 1) \div 2 /\ 1 <= i /\ i <= 2 * q
    BY <1>1, <1>5
  <2> HIDE DEF j
  <2>2. j \in Nat /\ (i = 2 * j \/ i = 2 * j - 1)
    BY <2>1, Halves
  <2>3. j \in 1 .. q
    BY <1>5, <2>1, <2>2
  <2> QED
    BY <2>2, <2>3
<1>7. a = b
  <2>1. CASE q = 0
    BY <1>1, <1>5, <2>1
  <2>2. CASE q > 0
    <3>1. q \in 1 .. q /\ 2 * q - 1 # 2 * q
      BY <1>5, <2>2
    <3>2. ASSUME a = 2 * q, b = 2 * q - 1 PROVE FALSE
      <4>1. s[2 * q] = t[2 * q - 1] /\ s[2 * q - 1] = t[2 * q - 1]
        BY <1>4, <1>5, <3>1, <3>2
      <4>2. 2 * q \in DOMAIN s /\ 2 * q - 1 \in DOMAIN s
        BY <1>1, <1>5, <2>2, <3>2
      <4> QED
        BY <3>1, <4>1, <4>2 DEF Distinct
    <3>3. ASSUME b = 2 * q, a = 2 * q - 1 PROVE FALSE
      <4>1. t[2 * q] = s[2 * q - 1] /\ s[2 * q - 1] = t[2 * q - 1]
        BY <1>4, <1>5, <3>1, <3>3
      <4>2. 2 * q \in DOMAIN t /\ 2 * q - 1 \in DOMAIN t
        BY <1>1, <1>5, <2>2, <3>3
      <4> QED
        BY <3>1, <4>1, <4>2 DEF Distinct
    <3> QED
      BY <1>5, <3>2, <3>3
  <2> QED
    BY <1>5, <2>1, <2>2
<1>8. ASSUME NEW i \in 1 .. a PROVE s[i] = t[i]
  <2>1. PICK j \in 1 .. q : i = 2 * j - 1 \/ i = 2 * j
    BY <1>6
  <2>2. CASE i = 2 * j - 1
    BY <1>4, <2>1, <2>2
  <2>3. CASE i = 2 * j
    <3>1. 2 * j <= a /\ 2 * j <= b
      BY <1>1, <1>7, <2>3
    <3> QED
      BY <1>4, <2>1, <2>3, <3>1
  <2> QED
    BY <2>1, <2>2, <2>3
<1> QED
  BY <1>7, <1>8, ListsEqual DEF a, b

\* Levels built on distinct leaves, each from the one before.
Tower(L, d) ==
  /\ IsList(L[0]) /\ Distinct(L[0])
  /\ \A k \in 0 .. d - 1 : L[k + 1] = NextLevel(L[k])

LEMMA TowersAreDistinct ==
  ASSUME NEW L, NEW d \in Nat, Tower(L, d), NEW k \in 0 .. d
  PROVE  IsList(L[k]) /\ Distinct(L[k])
<1> DEFINE H == {j \in 0 .. d : IsList(L[j]) /\ Distinct(L[j])}
<1>1. 0 \in H
  BY DEF Tower
<1>2. ASSUME NEW j \in 0 .. d - 1, j \in H PROVE j + 1 \in H
  <2>1. L[j + 1] = NextLevel(L[j]) /\ IsList(L[j]) /\ Distinct(L[j])
    BY <1>2 DEF Tower
  <2>2. IsList(L[j + 1]) /\ Distinct(L[j + 1])
    BY <2>1, NextIsList, NextDistinct
  <2> QED
    BY <2>2
<1>3. H = 0 .. d
  <2> HIDE DEF H
  <2>1. H \in SUBSET (0 .. d)
    BY DEF H
  <2> QED
    BY <1>1, <1>2, <2>1, Induction
<1> QED
  BY <1>3

\* From equal levels down, both towers are the same, as far as both reach.
LEMMA TowersMeet ==
  ASSUME NEW L, NEW M, NEW a \in Nat, NEW b \in Nat, a <= b,
         Tower(L, a), Tower(M, b), L[a] = M[b]
  PROVE  L[0] = M[b - a]
<1> DEFINE H == {j \in 0 .. a : L[a - j] = M[b - j]}
<1>1. 0 \in H
  BY Z3
<1>2. ASSUME NEW j \in 0 .. a - 1, j \in H PROVE j + 1 \in H
  <2> DEFINE k == a - (j + 1)
             m == b - (j + 1)
  <2>1. /\ k \in 0 .. a - 1 /\ m \in 0 .. b - 1 /\ k \in 0 .. a /\ m \in 0 .. b
        /\ a - j = k + 1 /\ b - j = m + 1
    BY Z3
  <2>2. L[a - j] = M[b - j]
    BY <1>2
  <2> HIDE DEF k, m
  <2>3. L[k + 1] = NextLevel(L[k]) /\ M[m + 1] = NextLevel(M[m])
    BY <2>1 DEF Tower
  <2>4. NextLevel(L[k]) = NextLevel(M[m])
    BY <2>1, <2>2, <2>3
  <2>5. L[k] = M[m]
    BY <2>1, <2>4, TowersAreDistinct, NextInjective
  <2> QED
    BY <2>5 DEF k, m
<1>3. H = 0 .. a
  <2> HIDE DEF H
  <2>1. H \in SUBSET (0 .. a)
    BY DEF H
  <2> QED
    BY <1>1, <1>2, <2>1, Induction
<1>4. a \in H /\ a - a = 0
  <2> HIDE DEF H
  <2> QED
    BY <1>3
<1> QED
  BY <1>4

\* The levels of the loop are a tower.
LEMMA PassesTower ==
  ASSUME NEW s, IsList(s), Distinct(s), Len(s) >= 1
  PROVE  \E d \in Nat :
           /\ Tower(Levels(s), d) /\ Levels(s)[0] = s
           /\ IsList(Levels(s)[d]) /\ Len(Levels(s)[d]) = 1
           /\ compute_merkle_root(s) = Levels(s)[d][1]
<1>1. Len(s) \in Nat
  BY ListFacts
<1>2. PICK d \in 0 .. Len(s) :
           /\ Len(Levels(s)[d]) = 1
           /\ compute_merkle_root(s) = Levels(s)[d][1]
           /\ \A k \in 0 .. d - 1 :
                /\ Len(Levels(s)[k]) > 1
                /\ Levels(s)[k + 1] = NextLevel(Levels(s)[k])
  BY Passes
<1>3. Levels(s)[0] = s
  BY <1>1, LevelsDef
<1>4. Tower(Levels(s), d)
  BY <1>2, <1>3 DEF Tower
<1>5. d \in Nat
  BY <1>1
<1> QED
  BY <1>2, <1>3, <1>4, <1>5, TowersAreDistinct

\* Two trees with the same top, one at least as high as the other.
LEMMA HigherTree ==
  ASSUME NEW L, NEW M, NEW a \in Nat, NEW b \in Nat, a <= b,
         Tower(L, a), Tower(M, b), L[a] = M[b],
         Len(L[0]) >= 1, \A i \in DOMAIN L[0] : IsLeaf(L[0][i])
  PROVE  L[0] = M[0]
<1>1. L[0] = M[b - a]
  BY TowersMeet
<1>2. ASSUME b # a PROVE FALSE
  <2> DEFINE k == (b - a) - 1
  <2>1. k \in 0 .. b - 1 /\ b - a = k + 1 /\ k \in 0 .. b
    BY <1>2, Z3
  <2> HIDE DEF k
  <2>2. L[0] = NextLevel(M[k])
    BY <1>1, <2>1 DEF Tower
  <2>3. IsList(L[0]) /\ 1 \in DOMAIN L[0] /\ DOMAIN L[0] = 1 .. Len(L[0])
    BY ListFacts DEF Tower
  <2>4. IsPair(L[0][1])
    BY <2>2, <2>3 DEF NextLevel, IsPair
  <2> QED
    BY <2>3, <2>4 DEF IsLeaf
<1>3. b - a = 0
  BY <1>2
<1> QED
  BY <1>1, <1>3

\* The root of a list that is not empty is not the root of the empty list.
LEMMA RootOfTree ==
  ASSUME NEW s, IsList(s), Len(s) >= 1, Distinct(s), \A i \in DOMAIN s : IsLeaf(s[i])
  PROVE  compute_merkle_root(s) # EmptyRoot
<1>1. PICK d \in Nat : /\ Tower(Levels(s), d) /\ Levels(s)[0] = s
                       /\ IsList(Levels(s)[d]) /\ Len(Levels(s)[d]) = 1
                       /\ compute_merkle_root(s) = Levels(s)[d][1]
  BY PassesTower
<1>2. CASE d = 0
  <2>1. 1 \in DOMAIN s
    BY ListFacts
  <2> QED
    BY <1>1, <1>2, <2>1 DEF IsLeaf
<1>3. CASE d # 0
  <2> DEFINE k == d - 1
             L == Levels(s)
  <2>1. k \in 0 .. d - 1 /\ d = k + 1
    BY <1>3
  <2> HIDE DEF k
  <2>2. L[d] = NextLevel(L[k])
    BY <1>1, <2>1 DEF Tower
  <2>3. 1 \in DOMAIN L[d]
    BY <1>1, ListFacts
  <2> HIDE DEF L
  <2>4. IsPair(L[d][1])
    BY <2>2, <2>3 DEF NextLevel, IsPair
  <2>5. \A x : IsPair(x) => x # EmptyRoot
    BY DEF IsPair, EmptyRoot
  <2> QED
    BY <1>1, <2>4, <2>5 DEF L
<1> QED
  BY <1>2, <1>3

(***************************************************************************)
(* Lists of distinct leaves have different roots.                          *)
(***************************************************************************)
LEMMA RootsTellListsApart ==
  ASSUME NEW s, NEW t, IsList(s), IsList(t), Distinct(s), Distinct(t),
         \A i \in DOMAIN s : IsLeaf(s[i]), \A i \in DOMAIN t : IsLeaf(t[i]),
         compute_merkle_root(s) = compute_merkle_root(t)
  PROVE  s = t
<1>1. Len(s) \in Nat /\ Len(t) \in Nat
  BY ListFacts
<1>2. CASE Len(s) = 0 \/ Len(t) = 0
  <2>1. \A x : Len(x) = 0 => compute_merkle_root(x) = EmptyRoot
    BY DEF compute_merkle_root
  <2>2. Len(s) = 0 /\ Len(t) = 0
    BY <1>1, <1>2, <2>1, RootOfTree
  <2> QED
    BY <2>2, ListsEqual
<1>3. CASE Len(s) >= 1 /\ Len(t) >= 1
  <2>1. PICK a \in Nat : /\ Tower(Levels(s), a) /\ Levels(s)[0] = s
                         /\ IsList(Levels(s)[a]) /\ Len(Levels(s)[a]) = 1
                         /\ compute_merkle_root(s) = Levels(s)[a][1]
    BY <1>3, PassesTower
  <2>2. PICK b \in Nat : /\ Tower(Levels(t), b) /\ Levels(t)[0] = t
                         /\ IsList(Levels(t)[b]) /\ Len(Levels(t)[b]) = 1
                         /\ compute_merkle_root(t) = Levels(t)[b][1]
    BY <1>3, PassesTower
  <2>3. Levels(s)[a] = Levels(t)[b]
    <3> DEFINE x == Levels(s)[a]
               y == Levels(t)[b]
    <3>1. IsList(x) /\ IsList(y) /\ Len(x) = 1 /\ Len(y) = 1 /\ x[1] = y[1]
      BY <2>1, <2>2
    <3> HIDE DEF x, y
    <3>2. x = y
      BY <3>1, ListsEqual
    <3> QED
      BY <3>2 DEF x, y
  <2>4. CASE a <= b
    BY <1>3, <2>1, <2>2, <2>3, <2>4, HigherTree
  <2>5. CASE b <= a
    BY <1>3, <2>1, <2>2, <2>3, <2>5, HigherTree
  <2> QED
    BY <2>4, <2>5
<1> QED
  BY <1>1, <1>2, <1>3

-----------------------------------------------------------------------------
(***************************************************************************)
(* The arithmetic of a level whose hashes span p leaves each.              *)
(***************************************************************************)
LEMMA Mul ==
  ASSUME NEW a \in Int, NEW b \in Int, NEW p \in Nat, a <= b
  PROVE  a * p <= b * p
<1>1. (b - a) * p >= 0
  OBVIOUS
<1>2. (b - a) * p = b * p - a * p
  OBVIOUS
<1> QED
  BY <1>1, <1>2
\* It covers n leaves, no hash to spare, and so does the next level.
LEMMA LevelFits ==
  ASSUME NEW len \in Nat, NEW p \in Nat, NEW n \in Nat, len >= 1,
         (len - 1) * p < n, n <= len * p,
         NEW q \in Nat, len = 2 * q \/ len = 2 * q - 1
  PROVE  (q - 1) * (2 * p) < n /\ n <= q * (2 * p)
<1>1. (q - 1) * (2 * p) = 2 * (q * p) - 2 * p /\ q * (2 * p) = 2 * (q * p)
  OBVIOUS
<1>2. CASE len = 2 * q
  <2>1. len * p = 2 * (q * p) /\ (len - 1) * p = 2 * (q * p) - p
    BY <1>2
  <2> QED
    BY <1>1, <2>1
<1>3. CASE len = 2 * q - 1
  <2>1. len * p = 2 * (q * p) - p /\ (len - 1) * p = 2 * (q * p) - 2 * p
    BY <1>3
  <2> QED
    BY <1>1, <2>1
<1> QED
  BY <1>2, <1>3

\* A hash is within the level exactly if its first leaf is within the list.
LEMMA LeafOf ==
  ASSUME NEW len \in Nat, NEW p \in Nat, NEW n \in Nat, len >= 1,
         (len - 1) * p < n, n <= len * p,
         NEW j \in Nat, j >= 1
  PROVE  (j - 1) * p + 1 <= n <=> j <= len
<1>1. CASE j <= len
  <2>1. (j - 1) * p <= (len - 1) * p
    BY <1>1, Mul
  <2>2. (j - 1) * p \in Int /\ (len - 1) * p \in Int
    OBVIOUS
  <2> QED
    BY <1>1, <2>1, <2>2
<1>2. CASE j > len
  <2>1. len * p <= (j - 1) * p
    BY <1>2, Mul
  <2>2. (j - 1) * p \in Int /\ len * p \in Int
    OBVIOUS
  <2> QED
    BY <1>2, <2>1, <2>2
<1> QED
  BY <1>1, <1>2

\* Where the halves of hash j of the next level begin.
LEMMA Positions ==
  ASSUME NEW j \in Int, NEW p \in Int
  PROVE  /\ (2 * j - 2) * p + 1 = (j - 1) * (2 * p) + 1
         /\ (2 * j - 1) * p + 1 = ((j - 1) * (2 * p) + 1) + p
OBVIOUS

-----------------------------------------------------------------------------
(***************************************************************************)
(* The reference: powers of two, the height they give, and the subtrees.   *)
(***************************************************************************)
LEMMA PowersDef ==
  ASSUME NEW n \in Nat
  PROVE  /\ PowersOfTwo(n)[0] = 1
         /\ \A k \in 0 .. n - 1 : PowersOfTwo(n)[k + 1] = 2 * PowersOfTwo(n)[k]
<1> DEFINE Body(g, k) == IF k = 0 THEN 1 ELSE 2 * g[k - 1]
           H == {j \in 0 .. n : \E g : g = [k \in 0 .. j |-> Body(g, k)]}
<1>1. 0 \in H
  <2> DEFINE g == [k \in 0 .. 0 |-> 1]
  <2>1. g = [k \in 0 .. 0 |-> Body(g, k)]
    OBVIOUS
  <2> HIDE DEF Body, g
  <2> QED
    BY <2>1
<1>2. ASSUME NEW j \in 0 .. n - 1, j \in H PROVE j + 1 \in H
  <2>1. PICK g : g = [k \in 0 .. j |-> Body(g, k)]
    BY <1>2
  <2> DEFINE e == [k \in 0 .. j + 1 |-> IF k <= j THEN g[k] ELSE 2 * g[j]]
  <2>2. \A k \in 0 .. j : e[k] = g[k]
    OBVIOUS
  <2>3. ASSUME NEW k \in 0 .. j + 1
        PROVE  e[k] = Body(e, k)
    BY <2>1, <2>2, SMTT(30)
  <2>4. e = [k \in 0 .. j + 1 |-> Body(e, k)]
    <3>1. e = [k \in 0 .. j + 1 |-> e[k]]
      OBVIOUS
    <3> HIDE DEF e, Body
    <3> QED
      BY <2>3, <3>1
  <2> HIDE DEF e, Body
  <2> QED
    BY <2>4
<1>3. H = 0 .. n
  <2> HIDE DEF H
  <2>1. H \subseteq 0 .. n
    BY DEF H
  <2> QED
    BY <1>1, <1>2, <2>1, Induction
<1>4. \E g : g = [k \in 0 .. n |-> Body(g, k)]
  <2>1. n \in H
    <3> HIDE DEF H
    <3> QED
      BY <1>3
  <2> HIDE DEF Body
  <2> QED
    BY <2>1
<1>5. PowersOfTwo(n) = CHOOSE g : g = [k \in 0 .. n |-> Body(g, k)]
  BY DEF PowersOfTwo
<1>6. PowersOfTwo(n) = [k \in 0 .. n |-> Body(PowersOfTwo(n), k)]
  <2> HIDE DEF Body
  <2> QED
    BY <1>4, <1>5
<1> QED
  BY <1>6

LEMMA PowersGrow ==
  ASSUME NEW n \in Nat, NEW k \in 0 .. n
  PROVE  PowersOfTwo(n)[k] \in Nat /\ PowersOfTwo(n)[k] > k
<1> DEFINE P == PowersOfTwo(n)
           H == {j \in 0 .. n : P[j] \in Nat /\ P[j] > j}
<1>1. P[0] = 1 /\ \A j \in 0 .. n - 1 : P[j + 1] = 2 * P[j]
  BY PowersDef
<1> HIDE DEF P
<1>2. 0 \in H
  BY <1>1
<1>3. ASSUME NEW j \in 0 .. n - 1, j \in H PROVE j + 1 \in H
  BY <1>1, <1>3
<1>4. H = 0 .. n
  <2> HIDE DEF H
  <2>1. H \in SUBSET (0 .. n)
    BY DEF H
  <2> QED
    BY <1>2, <1>3, <2>1, Induction
<1> QED
  BY <1>4 DEF P

LEMMA HeightDef ==
  ASSUME NEW n \in Nat
  PROVE  /\ Height(n) \in 0 .. n
         /\ PowersOfTwo(n)[Height(n)] >= n
         /\ \A j \in 0 .. Height(n) - 1 : PowersOfTwo(n)[j] < n
<1> DEFINE P == PowersOfTwo(n)
           T == {k \in 0 .. n : P[k] >= n}
<1>1. \A k \in 0 .. n : P[k] \in Nat /\ P[k] > k
  BY PowersGrow
<1> HIDE DEF P
<1>2. PICK h \in T : \A k \in T : h <= k
  <2>1. n \in T /\ T \in SUBSET Nat
    BY <1>1
  <2> HIDE DEF T
  <2> QED
    BY <2>1, Least
<1>3. h \in 0 .. n /\ P[h] >= n /\ \A j \in 0 .. h - 1 : P[j] < n
  <2>1. \A j \in 0 .. h - 1 : j \in 0 .. n /\ j \notin T
    BY <1>2
  <2> QED
    BY <1>1, <1>2, <2>1
<1> HIDE DEF T
<1> QED
  BY <1>3 DEF Height, P

LEMMA SubtreesDef ==
  ASSUME NEW s, Len(s) \in Nat
  PROVE  /\ Subtrees(s)[0] = s
         /\ \A k \in 0 .. Len(s) - 1, i \in 1 .. Len(s) :
              Subtrees(s)[k + 1][i] =
                LET right == i + PowersOfTwo(Len(s))[k]
                IN  <<Subtrees(s)[k][i],
                      Subtrees(s)[k][IF right <= Len(s) THEN right ELSE i]>>
<1> DEFINE n == Len(s)
           Join(level, p) ==
             [i \in 1 .. n |->
                LET right == i + p
                IN  <<level[i], level[IF right <= n THEN right ELSE i]>>]
           Body(g, k) == IF k = 0 THEN s ELSE Join(g[k - 1], PowersOfTwo(n)[k - 1])
           H == {j \in 0 .. n : \E g : g = [k \in 0 .. j |-> Body(g, k)]}
<1>1. 0 \in H
  <2> DEFINE g == [k \in 0 .. 0 |-> s]
  <2> HIDE DEF Join
  <2>1. g = [k \in 0 .. 0 |-> Body(g, k)]
    OBVIOUS
  <2> HIDE DEF Body, g
  <2> QED
    BY <2>1
<1>2. ASSUME NEW j \in 0 .. n - 1, j \in H PROVE j + 1 \in H
  <2> HIDE DEF Join
  <2>1. PICK g : g = [k \in 0 .. j |-> Body(g, k)]
    BY <1>2
  <2> DEFINE e == [k \in 0 .. j + 1 |-> IF k <= j THEN g[k]
                                       ELSE Join(g[j], PowersOfTwo(n)[j])]
  <2>2. \A k \in 0 .. j : e[k] = g[k]
    OBVIOUS
  <2>3. ASSUME NEW k \in 0 .. j + 1
        PROVE  e[k] = Body(e, k)
    BY <2>1, <2>2, SMTT(30)
  <2>4. e = [k \in 0 .. j + 1 |-> Body(e, k)]
    <3>1. e = [k \in 0 .. j + 1 |-> e[k]]
      OBVIOUS
    <3> HIDE DEF e, Body
    <3> QED
      BY <2>3, <3>1
  <2> HIDE DEF e, Body
  <2> QED
    BY <2>4
<1>3. H = 0 .. n
  <2> HIDE DEF H
  <2>1. H \subseteq 0 .. n
    BY DEF H
  <2> QED
    BY <1>1, <1>2, <2>1, Induction
<1>4. \E g : g = [k \in 0 .. n |-> Body(g, k)]
  <2>1. n \in H
    BY <1>3
  <2> HIDE DEF Body
  <2> QED
    BY <2>1
<1>5. Subtrees(s) = CHOOSE g : g = [k \in 0 .. n |-> Body(g, k)]
  BY DEF Subtrees
<1>6. Subtrees(s) = [k \in 0 .. n |-> Body(Subtrees(s), k)]
  <2> HIDE DEF Body
  <2> QED
    BY <1>4, <1>5
<1>7. Subtrees(s)[0] = s
  BY <1>6
<1>8. ASSUME NEW k \in 0 .. n - 1
      PROVE  Subtrees(s)[k + 1] = Join(Subtrees(s)[k], PowersOfTwo(n)[k])
  <2> HIDE DEF Join
  <2>1. Subtrees(s)[k + 1] = Body(Subtrees(s), k + 1)
    <3> HIDE DEF Body
    <3> QED
      BY <1>6
  <2>2. k + 1 # 0 /\ (k + 1) - 1 = k
    OBVIOUS
  <2> QED
    BY <2>1, <2>2
<1> QED
  BY <1>7, <1>8

-----------------------------------------------------------------------------
\* Hash j of level k is the root of the subtree from leaf (j - 1) * 2^k + 1 on,
\* and the level has just enough of them to cover all leaves.
Fits(s, k) ==
  LET level == Levels(s)[k]
      p     == PowersOfTwo(Len(s))[k]
  IN  /\ IsList(level) /\ Len(level) >= 1
      /\ (Len(level) - 1) * p < Len(s) /\ Len(s) <= Len(level) * p
      /\ \A j \in 1 .. Len(level) : level[j] = Subtrees(s)[k][(j - 1) * p + 1]

\* It holds of the leaves, and every pass keeps it.
LEMMA FirstFits ==
  ASSUME NEW s, IsList(s), Len(s) >= 1
  PROVE  Fits(s, 0)
<1>1. Len(s) \in Nat
  BY ListFacts
<1>2. Levels(s)[0] = s /\ Subtrees(s)[0] = s /\ PowersOfTwo(Len(s))[0] = 1
  BY <1>1, LevelsDef, SubtreesDef, PowersDef
<1>3. \A j \in 1 .. Len(s) : (j - 1) * 1 + 1 = j
  BY <1>1
<1> QED
  BY <1>1, <1>2, <1>3 DEF Fits

LEMMA NextFits ==
  ASSUME NEW s, IsList(s), Len(s) >= 1, NEW k \in 0 .. Len(s) - 1,
         Fits(s, k), Len(Levels(s)[k]) > 1
  PROVE  Fits(s, k + 1)
<1> DEFINE n == Len(s)
           level == Levels(s)[k]
           next == Levels(s)[k + 1]
           tree == Subtrees(s)[k]
           len == Len(level)
           q == (len + 1) \div 2
           p == PowersOfTwo(n)[k]
<1>1. n \in Nat /\ p \in Nat /\ PowersOfTwo(n)[k + 1] = 2 * p
  <2>1. n \in Nat
    BY ListFacts
  <2>2. k \in 0 .. n
    BY <2>1
  <2> HIDE DEF n
  <2> QED
    BY <2>1, <2>2, PowersDef, PowersGrow DEF n
<1>2. /\ IsList(level) /\ len >= 1 /\ (len - 1) * p < n /\ n <= len * p
      /\ \A j \in 1 .. len : level[j] = tree[(j - 1) * p + 1]
  BY DEF Fits
<1>3. next = NextLevel(level)
  BY <1>1, LevelsDef
<1>4. len \in Nat
  BY <1>2, ListFacts
<1>5. IsList(next) /\ Len(next) = q
  BY <1>2, <1>3, NextIsList
<1>6. \A i \in 1 .. n :
        Subtrees(s)[k + 1][i] =
          <<tree[i], tree[IF i + p <= n THEN i + p ELSE i]>>
  BY <1>1, SubtreesDef
<1>7. \A j \in 1 .. q :
        /\ 2 * j - 1 \in 1 .. len
        /\ next[j] = <<level[2 * j - 1],
                       IF 2 * j <= len THEN level[2 * j] ELSE level[2 * j - 1]>>
  BY <1>2, <1>3, NextLevelAt DEF RightOf
<1>8. q \in Nat /\ q >= 1 /\ (len = 2 * q \/ len = 2 * q - 1)
  <2>1. q = (len + 1) \div 2 /\ len \in Nat /\ len >= 1
    BY <1>2, <1>4
  <2> HIDE DEF len, q
  <2> QED
    BY <2>1, Halves
<1> HIDE DEF n, level, next, tree, len, q, p
<1>9. (q - 1) * (2 * p) < n /\ n <= q * (2 * p)
  BY <1>1, <1>2, <1>4, <1>8, LevelFits
<1>10. ASSUME NEW j \in 1 .. q
       PROVE  next[j] = Subtrees(s)[k + 1][(j - 1) * (2 * p) + 1]
  <2> DEFINE i == (j - 1) * (2 * p) + 1
             odd == 2 * j - 1
  <2>1. i \in 1 .. n
    <3>1. (j - 1) * (2 * p) <= (q - 1) * (2 * p)
      BY <1>1, <1>8, Mul
    <3>2. (j - 1) * (2 * p) \in Nat /\ (q - 1) * (2 * p) \in Nat
      BY <1>1, <1>8
    <3> QED
      BY <1>1, <1>9, <3>1, <3>2
  <2>2. (odd - 1) * p + 1 = i /\ (2 * j - 1) * p + 1 = i + p
    <3>1. odd - 1 = 2 * j - 2 /\ j \in Int /\ p \in Int
      BY <1>1
    <3> QED
      BY <3>1, Positions
  <2>3. odd \in 1 .. len /\ level[odd] = tree[i]
    BY <1>2, <1>7, <2>2
  <2>4. 2 * j <= len <=> i + p <= n
    <3> DEFINE even == 2 * j
    <3>1. even \in Nat /\ even >= 1
      OBVIOUS
    <3> HIDE DEF even
    <3>2. (even - 1) * p + 1 <= n <=> even <= len
      BY <1>1, <1>2, <1>4, <3>1, LeafOf
    <3> USE DEF even
    <3> QED
      BY <2>2, <3>2
  <2>5. 2 * j <= len => level[2 * j] = tree[i + p]
    <3>1. 2 * j <= len => 2 * j \in 1 .. len
      BY <1>4
    <3> QED
      BY <1>2, <2>2, <3>1
  <2>6. next[j] = <<level[odd], IF 2 * j <= len THEN level[2 * j] ELSE level[odd]>>
    BY <1>7
  <2>7. Subtrees(s)[k + 1][i] = <<tree[i], tree[IF i + p <= n THEN i + p ELSE i]>>
    BY <1>6, <2>1
  <2> HIDE DEF i, odd
  <2>8. (IF 2 * j <= len THEN level[2 * j] ELSE level[odd])
          = tree[IF i + p <= n THEN i + p ELSE i]
    <3>1. CASE 2 * j <= len
      BY <2>4, <2>5, <3>1
    <3>2. CASE ~(2 * j <= len)
      BY <2>3, <2>4, <3>2
    <3> QED
      BY <3>1, <3>2
  <2>9. next[j] = Subtrees(s)[k + 1][i]
    BY <2>3, <2>6, <2>7, <2>8
  <2> QED
    BY <2>9 DEF i
<1> QED
  BY <1>1, <1>5, <1>8, <1>9, <1>10 DEF Fits, n, next, p

(***************************************************************************)
(* The loop computes the root of the tree.                                 *)
(***************************************************************************)
LEMMA LoopBuildsTree ==
  ASSUME NEW s, IsList(s), Len(s) >= 1
  PROVE  compute_merkle_root(s) = TreeRoot(s)
<1> DEFINE n == Len(s)
           P == PowersOfTwo(n)
           h == Height(n)
           H == {k \in 0 .. h : Fits(s, k)}
<1>1. n \in Nat
  BY ListFacts
<1>2. h \in 0 .. n /\ P[h] >= n /\ \A j \in 0 .. h - 1 : P[j] < n
  BY <1>1, HeightDef
<1>3. \A k \in 0 .. n : P[k] \in Nat
  BY <1>1, PowersGrow
<1>4. ASSUME NEW k \in 0 .. n, Fits(s, k)
      PROVE  Len(Levels(s)[k]) \in Nat /\ (P[k] < n <=> Len(Levels(s)[k]) > 1)
  <2> DEFINE len == Len(Levels(s)[k])
             p == P[k]
  <2>1. /\ IsList(Levels(s)[k]) /\ len >= 1
        /\ (len - 1) * p < n /\ n <= len * p
    BY <1>4 DEF Fits
  <2>2. len \in Nat /\ p \in Nat
    BY <1>3, <2>1, ListFacts
  <2> HIDE DEF len, p, n
  <2>3. CASE len = 1
    <3>1. n <= p
      BY <2>1, <2>3, <2>2
    <3> QED
      BY <1>1, <2>2, <2>3, <3>1 DEF len, p
  <2>4. CASE len > 1
    <3>1. 1 * p <= (len - 1) * p
      BY <2>2, <2>4, Mul
    <3>2. (len - 1) * p \in Nat
      BY <2>2, <2>4
    <3>3. p < n
      BY <1>1, <2>1, <2>2, <3>1, <3>2
    <3> QED
      BY <2>2, <2>4, <3>3 DEF len, p
  <2> QED
    BY <2>1, <2>2, <2>3, <2>4
<1> HIDE DEF n, h, P
<1>5. H = 0 .. h
  <2>1. 0 \in H
    BY <1>2, FirstFits
  <2>2. ASSUME NEW k \in 0 .. h - 1, k \in H PROVE k + 1 \in H
    <3>1. k \in 0 .. n /\ k \in 0 .. n - 1 /\ k + 1 \in 0 .. h
      BY <1>1, <1>2
    <3>2. Len(Levels(s)[k]) > 1
      BY <1>2, <1>4, <2>2, <3>1
    <3>3. Fits(s, k + 1)
      BY <2>2, <3>1, <3>2, NextFits DEF n
    <3> QED
      BY <3>1, <3>3
  <2> HIDE DEF H
  <2>3. H \in SUBSET (0 .. h) /\ h \in Nat
    BY <1>1, <1>2 DEF H
  <2> QED
    BY <2>1, <2>2, <2>3, Induction
<1>6. \A k \in 0 .. h : Fits(s, k) /\ k \in 0 .. n
  BY <1>1, <1>2, <1>5
<1>7. PICK d \in 0 .. n :
           /\ Len(Levels(s)[d]) = 1
           /\ compute_merkle_root(s) = Levels(s)[d][1]
           /\ \A k \in 0 .. d - 1 : Len(Levels(s)[k]) > 1
  BY Passes DEF n
<1>8. d = h
  <2>1. CASE d < h
    <3>1. d \in 0 .. h - 1 /\ d \in 0 .. h
      BY <1>1, <1>2, <2>1
    <3>2. Len(Levels(s)[d]) > 1
      BY <1>2, <1>4, <1>6, <3>1
    <3> QED
      BY <1>7, <3>2
  <2>2. CASE h < d
    <3>1. h \in 0 .. d - 1 /\ h \in 0 .. h
      BY <1>1, <1>2, <2>2
    <3>2. Len(Levels(s)[h]) > 1 /\ P[h] \in Nat
      BY <1>2, <1>3, <1>7, <3>1
    <3>3. P[h] < n
      BY <1>4, <1>6, <3>1, <3>2
    <3> QED
      BY <1>1, <1>2, <3>2, <3>3
  <2> QED
    BY <1>1, <1>2, <2>1, <2>2
<1>9. Levels(s)[h][1] = Subtrees(s)[h][1]
  <2>1. Fits(s, h) /\ Len(Levels(s)[h]) = 1 /\ P[h] \in Nat
    BY <1>1, <1>2, <1>3, <1>6, <1>7, <1>8
  <2>2. 1 \in 1 .. Len(Levels(s)[h]) /\ (1 - 1) * P[h] + 1 = 1
    BY <2>1
  <2>3. Levels(s)[h][1] = Subtrees(s)[h][(1 - 1) * P[h] + 1]
    BY <2>1, <2>2 DEF Fits, P, n
  <2> QED
    BY <2>2, <2>3
<1> QED
  BY <1>7, <1>8, <1>9 DEF TreeRoot, h, n

-----------------------------------------------------------------------------
(***************************************************************************)
(* Pools and batches are free of duplicates, and a block's root is that of *)
(* its batch.                                                              *)
(***************************************************************************)
BatchInv ==
  /\ \A n \in Nodes : Distinct(pending[n])
  /\ \A h \in DOMAIN blocks :
       /\ Distinct(blocks[h].transactions)
       /\ blocks[h].merkle_root = compute_merkle_root(blocks[h].transactions)

LEMMA BatchesAtFirst ==
  ASSUME Init
  PROVE  BatchInv
<1>1. /\ pending = [n \in Nodes |-> <<>>]
      /\ DOMAIN blocks = {Genesis} /\ blocks[Genesis] = GenesisBlock
  BY DEF Init, InitLedgers
<1>2. Distinct(<<>>)
  BY DEF Distinct
<1> QED
  BY <1>1, <1>2 DEF BatchInv, GenesisBlock

LEMMA AddTransactionKeepsBatches ==
  ASSUME LInv, BatchInv, NEW n \in Nodes, NEW t \in Txs, AddTransaction(n, t)
  PROVE  BatchInv'
<1>1. UNCHANGED blocks
  BY DEF AddTransaction
<1>2. CASE t \in Elements(pending[n])
  BY <1>1, <1>2 DEF AddTransaction, BatchInv, Distinct
<1>3. CASE t \notin Elements(pending[n])
  <2> DEFINE pool == pending[n]
  <2>1. pool \in Seq(Txs) /\ Distinct(pool) /\ pending' = [pending EXCEPT ![n] = Append(pool, t)]
    BY <1>3 DEF AddTransaction, LInv, TypeOK, BatchInv
  <2>2. Distinct(Append(pool, t))
    <3>1. \A i \in 1 .. Len(pool) : pool[i] # t
      BY <1>3, <2>1 DEF Elements
    <3> HIDE DEF pool
    <3>2. /\ DOMAIN Append(pool, t) = 1 .. Len(pool) + 1 /\ Len(pool) \in Nat
          /\ DOMAIN pool = 1 .. Len(pool)
          /\ \A i \in 1 .. Len(pool) : Append(pool, t)[i] = pool[i]
          /\ Append(pool, t)[Len(pool) + 1] = t
      BY <2>1
    <3>3. \A i \in 1 .. Len(pool) + 1 : i \in 1 .. Len(pool) \/ i = Len(pool) + 1
      BY <3>2
    <3> QED
      BY <2>1, <3>1, <3>2, <3>3 DEF Distinct
  <2>3. \A m \in Nodes : Distinct(pending'[m])
    <3> HIDE DEF pool
    <3> QED
      BY <2>1, <2>2 DEF BatchInv, LInv, TypeOK
  <2> QED
    BY <1>1, <2>3 DEF BatchInv
<1> QED
  BY <1>2, <1>3

LEMMA CreateBlockKeepsBatches ==
  ASSUME LInv, BatchInv, NEW n \in Nodes, NEW h \in Hashes, CreateBlock(n, h)
  PROVE  BatchInv'
<1>1. /\ DOMAIN blocks' = DOMAIN blocks \cup {h} /\ blocks'[h] = Candidate(n)
      /\ UNCHANGED pending
  BY DEF CreateBlock
<1>2. \A b \in DOMAIN blocks : blocks'[b] = blocks[b]
  BY DEF CreateBlock, DigestOf, Unused
<1>3. /\ Distinct(Candidate(n).transactions)
      /\ Candidate(n).merkle_root = compute_merkle_root(Candidate(n).transactions)
  <2> DEFINE size == IF Len(pending[n]) < MAX_TRANSACTIONS_PER_BLOCK
                     THEN Len(pending[n]) ELSE MAX_TRANSACTIONS_PER_BLOCK
             batch == SubSeq(pending[n], 1, size)
  <2>1. pending[n] \in Seq(Txs) /\ size \in 0 .. Len(pending[n]) /\ Distinct(pending[n])
    BY LedgerAssumption DEF LInv, TypeOK, BatchInv
  <2>2. /\ Candidate(n).transactions = batch
        /\ Candidate(n).merkle_root = compute_merkle_root(batch)
    BY DEF Candidate
  <2> HIDE DEF size
  <2>3. DOMAIN batch = 1 .. size /\ \A i \in 1 .. size : batch[i] = pending[n][i]
    BY <2>1
  <2>4. \A i \in 1 .. size : i \in DOMAIN pending[n]
    BY <2>1
  <2> HIDE DEF batch
  <2>5. Distinct(batch)
    BY <2>1, <2>3, <2>4 DEF Distinct
  <2> QED
    BY <2>2, <2>5
<1> QED
  BY <1>1, <1>2, <1>3 DEF BatchInv

LEMMA AddBlockKeepsBatches ==
  ASSUME LInv, BatchInv, NEW n \in Nodes, NEW h \in Hashes \cap DOMAIN blocks, AddBlock(n, h)
  PROVE  BatchInv'
<1>1. UNCHANGED blocks
  BY DEF AddBlock, ledgerVars
<1>2. CASE ~Acceptable(n, h)
  BY <1>1, <1>2 DEF AddBlock, ledgerVars, BatchInv
<1>3. CASE Acceptable(n, h)
  <2>1. PICK rest \in Without(pending[n], TxsOf(h)) :
          pending' = [pending EXCEPT ![n] = rest]
    BY <1>3 DEF AddBlock
  <2>2. pending[n] \in Seq(Txs) /\ Distinct(pending[n])
    BY DEF LInv, TypeOK, BatchInv
  <2>3. Distinct(rest)
    <3>1. \A i, j \in DOMAIN rest : i < j =>
            \E a, b \in DOMAIN pending[n] :
              a < b /\ pending[n][a] = rest[i] /\ pending[n][b] = rest[j]
      BY <2>1 DEF Without
    <3>2. DOMAIN rest \subseteq Nat
      <4>1. rest \in UNION {[1 .. k -> Elements(pending[n])] : k \in 0 .. Len(pending[n])}
        BY DEF Without
      <4>2. PICK k \in 0 .. Len(pending[n]) : rest \in [1 .. k -> Elements(pending[n])]
        BY <4>1
      <4> QED
        BY <4>2
    <3>3. DOMAIN pending[n] \subseteq Nat
      BY <2>2
    <3>4. \A i, j \in DOMAIN rest : i < j => rest[i] # rest[j]
      BY <2>2, <3>1, <3>3 DEF Distinct
    <3>5. \A i, j \in DOMAIN rest : i = j \/ i < j \/ j < i
      BY <3>2
    <3> QED
      BY <3>4, <3>5 DEF Distinct
  <2>4. \A m \in Nodes : Distinct(pending'[m])
    BY <2>1, <2>3 DEF BatchInv, LInv, TypeOK
  <2> QED
    BY <1>1, <2>4 DEF BatchInv
<1> QED
  BY <1>2, <1>3

LEMMA Batches == Spec => [](LInv /\ BatchInv)
<1>1. LInv /\ BatchInv /\ [Next]_ledgerVars => BatchInv'
  <2> SUFFICES ASSUME LInv, BatchInv, [Next]_ledgerVars PROVE BatchInv'
    OBVIOUS
  <2>1. CASE UNCHANGED ledgerVars
    BY <2>1 DEF ledgerVars, BatchInv
  <2> QED
    BY <2>1, AddTransactionKeepsBatches, CreateBlockKeepsBatches, AddBlockKeepsBatches DEF Next
<1>2. Init => BatchInv
  BY BatchesAtFirst
<1> QED
  BY <1>1, <1>2, Inductive, PTL DEF Spec

LEMMA SequencesAreLists ==
  ASSUME NEW S, NEW s \in Seq(S)
  PROVE  IsList(s)
<1>1. Len(s) \in Nat /\ s \in [1 .. Len(s) -> S] /\ DOMAIN s = 1 .. Len(s)
  BY LenProperties
<1>2. s \in [1 .. Len(s) -> Elements(s)]
  BY <1>1 DEF Elements
<1> QED
  BY <1>1, <1>2, SeqDef DEF IsList

(***************************************************************************)
(* The level-by-level loop (utils.py:51-61) computes the root of the tree, *)
(* for any pools of any length.                                            *)
(***************************************************************************)
THEOREM RootsAreTreeRoots == Spec => []RootIsTreeRoot
<1>1. TypeOK => RootIsTreeRoot
  <2> SUFFICES ASSUME TypeOK, NEW n \in Nodes, NEW m \in Nodes,
                      pending[n] \o pending[m] # <<>>
               PROVE  compute_merkle_root(pending[n] \o pending[m])
                        = TreeRoot(pending[n] \o pending[m])
    BY DEF RootIsTreeRoot
  <2> DEFINE leaves == pending[n] \o pending[m]
  <2>1. leaves \in Seq(Txs)
    BY DEF TypeOK
  <2> HIDE DEF leaves
  <2>2. leaves # <<>>
    BY DEF leaves
  <2>3. Len(leaves) >= 1
    BY <2>1, <2>2
  <2>4. compute_merkle_root(leaves) = TreeRoot(leaves)
    BY <2>1, <2>3, SequencesAreLists, LoopBuildsTree
  <2> QED
    BY <2>4 DEF leaves
<1> QED
  BY <1>1, TypeCorrect, PTL

(***************************************************************************)
(* Equal roots mean equal batches (blockchain.py:228, 267), provided that  *)
(* no transaction identifier is itself the hash of two hashes or of the    *)
(* empty string: that is SHA-256 without collisions.                       *)
(***************************************************************************)
THEOREM RootsIdentifyBatches ==
  ASSUME \A t \in Txs : IsLeaf(t)
  PROVE  Spec => []RootIdentifiesBatch
<1>1. LInv /\ BatchInv => RootIdentifiesBatch
  <2> SUFFICES ASSUME LInv, BatchInv, NEW h \in DOMAIN blocks, NEW k \in DOMAIN blocks,
                      blocks[h].merkle_root = blocks[k].merkle_root
               PROVE  blocks[h].transactions = blocks[k].transactions
    BY DEF RootIdentifiesBatch
  <2> DEFINE s == blocks[h].transactions
             t == blocks[k].transactions
  <2>1. s \in Seq(Txs) /\ t \in Seq(Txs)
    BY DEF LInv, TypeOK, BlockHeader
  <2>2. /\ Distinct(s) /\ Distinct(t)
        /\ compute_merkle_root(s) = compute_merkle_root(t)
    BY DEF BatchInv
  <2> HIDE DEF s, t
  <2>3. /\ \A i \in DOMAIN s : IsLeaf(s[i])
        /\ \A i \in DOMAIN t : IsLeaf(t[i])
    BY <2>1
  <2>4. s = t
    BY <2>1, <2>2, <2>3, SequencesAreLists, RootsTellListsApart
  <2> QED
    BY <2>4 DEF s, t
<1> QED
  BY <1>1, Batches, PTL
=============================================================================
