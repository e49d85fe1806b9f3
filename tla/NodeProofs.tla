----------------------------- MODULE NodeProofs -----------------------------
(***************************************************************************)
(* Proofs about the network of validators, for any finite set of nodes,    *)
(* any number of transactions and blocks, any set of nodes that stop or    *)
(* restart, the leader included, and any number of lost messages.          *)
(***************************************************************************)
EXTENDS NodeProperties, FiniteSetTheorems, TLAPS

Block == Hashes \cup {Genesis}
Call == Message \cup LedgerCall

LEMMA EngineTypes ==
  ASSUME NEW e \in Engine, NEW h \in Hashes, NEW s \in Nodes
  PROVE  /\ HandlePrePrepare(e, h) \in Engine
         /\ HandlePrepare(e, h, s) \in Engine
         /\ HandleCommit(e, h, s) \in Engine
<1>1. HandlePrePrepare(e, h) \in Engine
  BY ZenonT(40) DEF HandlePrePrepare, Engine, Status
<1>2. HandlePrepare(e, h, s) \in Engine
  <2>1. CASE ~Known(e, h)
    BY <2>1 DEF HandlePrepare, Engine
  <2>2. CASE Known(e, h)
    <3> DEFINE status == [e.status EXCEPT ![h] = IF ShouldCommit(e, h, s) THEN "prepared" ELSE @]
               votes == [e.prepare_votes EXCEPT ![h] = @ \cup {s}]
    <3>1. status \in [Hashes -> Status] /\ votes \in [Hashes -> SUBSET Nodes]
      BY DEF Engine, Status
    <3>2. HandlePrepare(e, h, s) = [e EXCEPT !.prepare_votes = votes, !.status = status]
      BY <2>2 DEF HandlePrepare
    <3> HIDE DEF status, votes
    <3>3. [e EXCEPT !.prepare_votes = votes, !.status = status] \in Engine
      BY <3>1 DEF Engine
    <3> QED
      BY <3>2, <3>3
  <2> QED
    BY <2>1, <2>2
<1>3. HandleCommit(e, h, s) \in Engine
  <2>1. CASE ~Known(e, h)
    BY <2>1 DEF HandleCommit, Engine
  <2>2. CASE Known(e, h)
    <3> DEFINE status == [e.status EXCEPT ![h] = IF ShouldAdd(e, h, s) THEN "committed" ELSE @]
               votes == [e.commit_votes EXCEPT ![h] = @ \cup {s}]
    <3>1. status \in [Hashes -> Status] /\ votes \in [Hashes -> SUBSET Nodes]
      BY DEF Engine, Status
    <3>2. HandleCommit(e, h, s) = [e EXCEPT !.commit_votes = votes, !.status = status]
      BY <2>2 DEF HandleCommit
    <3> HIDE DEF status, votes
    <3>3. [e EXCEPT !.commit_votes = votes, !.status = status] \in Engine
      BY <3>1 DEF Engine
    <3> QED
      BY <3>2, <3>3
  <2> QED
    BY <2>1, <2>2
<1> QED
  BY <1>1, <1>2, <1>3

LEMMA InitialEngine == NewEngine \in Engine
BY DEF NewEngine, Engine, Status

(***************************************************************************)
(* What a thread's step does to the threads of all nodes.                  *)
(***************************************************************************)
LEMMA ContinueThreads ==
  ASSUME threads \in [Nodes -> SUBSET Thread],
         NEW n \in Nodes, NEW th \in threads[n],
         NEW call \in Call, NEW owes \in SUBSET Message, Continue(n, th, call, owes)
  PROVE  /\ threads' \in [Nodes -> SUBSET Thread]
         /\ \A m \in Nodes : \A x \in threads'[m] :
              \/ x \in threads[m]
              \/ m = n /\ x = [call |-> call, owed |-> th.owed \cup owes]
<1>1. th \in Thread
  OBVIOUS
<1>2. [call |-> call, owed |-> th.owed \cup owes] \in Thread
  BY <1>1 DEF Thread, Call
<1> QED
  BY <1>2 DEF Continue

LEMMA FinishThreads ==
  ASSUME threads \in [Nodes -> SUBSET Thread],
         NEW n \in Nodes, NEW th \in threads[n], Finish(n, th)
  PROVE  /\ threads' \in [Nodes -> SUBSET Thread]
         /\ \A m \in Nodes : \A x \in threads'[m] :
              \/ x \in threads[m]
              \/ \E msg \in th.owed : x = Receive(msg)
<1>1. th.owed \subseteq Message
  BY DEF Thread
<1>2. \A msg \in th.owed : Receive(msg) \in Thread
  BY <1>1 DEF Receive, Thread
<1> QED
  BY <1>2 DEF Finish

\* The messages and calls that the handlers make up.
LEMMA MadeCalls ==
  ASSUME NEW n \in Nodes
  PROVE  /\ \A t \in Txs : Transaction(n, t) \in Message
         /\ \A h \in Hashes, kind \in {"PRE-PREPARE", "PREPARE", "COMMIT"} :
              Vote(kind, n, h) \in Message
         /\ \A t \in Txs, kind \in {"add_transaction", "create_block"} :
              [type |-> kind, tx |-> t] \in LedgerCall
         /\ \A h \in Hashes : [type |-> "add_block", block |-> h] \in LedgerCall
BY DEF Message, LedgerCall, Transaction, Vote

LEMMA CallFields ==
  ASSUME NEW c \in Call
  PROVE  /\ c.type \in {"TRANSACTION", "add_transaction", "create_block"} => c.tx \in Txs
         /\ c.type \in {"PRE-PREPARE", "PREPARE", "COMMIT"} =>
              c.sender \in Nodes /\ c.block \in Hashes
         /\ c.type = "add_block" => c.block \in Hashes
BY DEF Call, Message, LedgerCall

-----------------------------------------------------------------------------
(***************************************************************************)
(* Threads speak only of blocks that exist, and only the leader's create   *)
(* them.                                                                   *)
(***************************************************************************)
BlockCall == {"PRE-PREPARE", "PREPARE", "COMMIT", "add_block"}
Exists(c) == c.type \in BlockCall => c.block \in DOMAIN blocks

Sane(n, th) ==
  /\ Exists(th.call)
  /\ \A msg \in th.owed : Exists(msg)
  /\ th.call.type = "create_block" => n = LEADER_NODE

LedgersOK ==
  /\ DOMAIN blocks \subseteq Block
  /\ Genesis \in DOMAIN blocks
  /\ chain \in [Nodes -> Seq(Block)]
  /\ \A n \in Nodes : Len(chain[n]) >= 1
  /\ \A n \in Nodes : \A i \in 1 .. Len(chain[n]) : chain[n][i] \in DOMAIN blocks
  /\ pending \in [Nodes -> Seq(Txs)]

\* A block on a ledger carries the number of its place there.
Heights ==
  /\ blocks[Genesis].index = 0
  /\ \A n \in Nodes : \A i \in 1 .. Len(chain[n]) : blocks[chain[n][i]].index = i - 1

ThreadsOK ==
  /\ threads \in [Nodes -> SUBSET Thread]
  /\ \A n \in Nodes : \A th \in threads[n] : Sane(n, th)

ProtocolOK ==
  /\ seen \in [Nodes -> SUBSET Txs]
  /\ pbft \in [Nodes -> Engine]

NetworkOK ==
  /\ submitted \subseteq Txs
  /\ up \subseteq Nodes
  /\ lost \in 0 .. MaxLost

\* A thread that goes on, or ends, leaves sane threads.
LEMMA ContinueSane ==
  ASSUME ThreadsOK, DOMAIN blocks \subseteq DOMAIN blocks',
         NEW n \in Nodes, NEW th \in threads[n],
         NEW call \in Call, NEW owes \in SUBSET Message, Continue(n, th, call, owes),
         call.type \in BlockCall => call.block \in DOMAIN blocks',
         \A msg \in owes : msg.type \in BlockCall => msg.block \in DOMAIN blocks',
         call.type = "create_block" => n = LEADER_NODE
  PROVE  ThreadsOK'
<1>1. threads \in [Nodes -> SUBSET Thread]
  BY DEF ThreadsOK
<1>2. ASSUME NEW m \in Nodes, NEW x \in threads'[m] PROVE Sane(m, x)'
  <2>1. CASE x \in threads[m]
    BY <2>1 DEF ThreadsOK, Sane, Exists
  <2>2. CASE m = n /\ x = [call |-> call, owed |-> th.owed \cup owes]
    BY <2>2 DEF ThreadsOK, Sane, Exists
  <2> QED
    BY <1>1, <2>1, <2>2, ContinueThreads
<1> QED
  BY <1>1, <1>2, ContinueThreads DEF ThreadsOK

LEMMA FinishSane ==
  ASSUME ThreadsOK, DOMAIN blocks \subseteq DOMAIN blocks',
         NEW n \in Nodes, NEW th \in threads[n], Finish(n, th)
  PROVE  ThreadsOK'
<1>1. threads \in [Nodes -> SUBSET Thread]
  BY DEF ThreadsOK
<1>2. ASSUME NEW m \in Nodes, NEW x \in threads'[m] PROVE Sane(m, x)'
  <2>1. CASE x \in threads[m]
    BY <2>1 DEF ThreadsOK, Sane, Exists
  <2>2. ASSUME NEW msg \in th.owed, x = Receive(msg) PROVE Sane(m, x)'
    <3>1. msg \in Message
      BY <1>1 DEF Thread
    <3>2. msg.type # "create_block"
      BY <3>1 DEF Message
    <3> QED
      BY <2>2, <3>2 DEF ThreadsOK, Sane, Exists, Receive
  <2> QED
    BY <1>1, <2>1, <2>2, FinishThreads
<1> QED
  BY <1>1, <1>2, FinishThreads DEF ThreadsOK

-----------------------------------------------------------------------------
(***************************************************************************)
(* The operations of a ledger.                                             *)
(***************************************************************************)
LEMMA AddTransactionKeeps ==
  ASSUME LedgersOK, Heights, NEW n \in Nodes, NEW t \in Txs, AddTransaction(n, t)
  PROVE  LedgersOK' /\ Heights'
<1>1. pending' \in [Nodes -> Seq(Txs)]
  BY DEF AddTransaction, LedgersOK
<1> QED
  BY <1>1 DEF AddTransaction, LedgersOK, Heights

\* What create_block adds to the blocks, and nothing else changes: the tip of
\* the chain is named as parent and has the number before the block's.
LEMMA CreateBlockAdds ==
  ASSUME LedgersOK, Heights, NEW n \in Nodes, NEW h \in Hashes, CreateBlock(n, h)
  PROVE  /\ DOMAIN blocks' = DOMAIN blocks \cup {h}
         /\ \A b \in DOMAIN blocks : blocks'[b] = blocks[b]
         /\ blocks'[h].index = Len(chain[n])
         /\ blocks'[h].previous_hash = Tip(n)
         /\ chain' = chain
         /\ pending' = pending
<1>1. blocks'[h] = Candidate(n) /\ \A b \in DOMAIN blocks : b # h => blocks'[b] = blocks[b]
  BY DEF CreateBlock
<1>2. h \in DOMAIN blocks => blocks[h] = Candidate(n)
  BY DEF CreateBlock, DigestOf, Unused
<1>3. Len(chain[n]) \in Nat /\ Len(chain[n]) >= 1
  BY DEF LedgersOK
<1>4. blocks[Tip(n)].index = Len(chain[n]) - 1
  BY <1>3 DEF Heights, Tip
<1>5. Candidate(n).index = Len(chain[n]) /\ Candidate(n).previous_hash = Tip(n)
  BY <1>3, <1>4 DEF Candidate
<1> QED
  BY <1>1, <1>2, <1>5 DEF CreateBlock

LEMMA CreateBlockKeeps ==
  ASSUME LedgersOK, Heights, NEW n \in Nodes, NEW h \in Hashes, CreateBlock(n, h)
  PROVE  LedgersOK' /\ Heights'
<1>1. LedgersOK'
  BY CreateBlockAdds, ZenonT(40) DEF LedgersOK, Block
<1>2. Heights'
  <2>1. /\ chain' = chain
        /\ \A b \in DOMAIN blocks : blocks'[b] = blocks[b]
    BY CreateBlockAdds
  <2>2. blocks'[Genesis].index = 0
    BY <2>1 DEF LedgersOK, Heights
  <2>3. \A m \in Nodes : \A i \in 1 .. Len(chain[m]) : blocks'[chain[m][i]].index = i - 1
    BY <2>1 DEF LedgersOK, Heights
  <2> QED
    BY <2>1, <2>2, <2>3 DEF Heights
<1> QED
  BY <1>1, <1>2

\* add_block appends the block at the place it was made for, or does nothing.
LEMMA AddBlockAppends ==
  ASSUME LedgersOK, Heights, NEW n \in Nodes, NEW h \in Hashes,
         h \in DOMAIN blocks, AddBlock(n, h)
  PROVE  /\ blocks' = blocks
         /\ pending' \in [Nodes -> Seq(Txs)]
         /\ \/ chain' = chain
            \/ /\ blocks[h].index = Len(chain[n])
               /\ blocks[h].previous_hash = Tip(n)
               /\ chain' = [chain EXCEPT ![n] = Append(@, h)]
<1>1. Len(chain[n]) \in Nat /\ Len(chain[n]) >= 1
  BY DEF LedgersOK
<1>2. blocks[Tip(n)].index = Len(chain[n]) - 1
  BY <1>1 DEF Heights, Tip
<1>3. CASE Acceptable(n, h)
  <2>1. blocks[h].index = Len(chain[n]) /\ blocks[h].previous_hash = Tip(n)
    BY <1>1, <1>2, <1>3 DEF Acceptable
  <2>2. blocks' = blocks /\ chain' = [chain EXCEPT ![n] = Append(@, h)]
    BY <1>3 DEF AddBlock
  <2>3. PICK rest \in Without(pending[n], TxsOf(h)) :
          pending' = [pending EXCEPT ![n] = rest]
    BY <1>3 DEF AddBlock
  <2>4. pending[n] \in Seq(Txs)
    BY DEF LedgersOK
  <2>5. rest \in Seq(Txs)
    <3>1. PICK k \in 0 .. Len(pending[n]) : rest \in [1 .. k -> Elements(pending[n])]
      BY <2>3 DEF Without
    <3>2. Elements(pending[n]) \subseteq Txs
      BY <2>4 DEF Elements
    <3>3. k \in Nat /\ rest \in [1 .. k -> Txs]
      BY <3>1, <3>2, <2>4
    <3> QED
      BY <3>3
  <2>6. pending' \in [Nodes -> Seq(Txs)]
    BY <2>3, <2>5 DEF LedgersOK
  <2> QED
    BY <2>1, <2>2, <2>6
<1>4. CASE ~Acceptable(n, h)
  BY <1>4 DEF AddBlock, ledgerVars, LedgersOK
<1> QED
  BY <1>3, <1>4

LEMMA AddBlockKeeps ==
  ASSUME LedgersOK, Heights, NEW n \in Nodes, NEW h \in Hashes,
         h \in DOMAIN blocks, AddBlock(n, h)
  PROVE  LedgersOK' /\ Heights'
<1>1. blocks' = blocks /\ pending' \in [Nodes -> Seq(Txs)]
  BY AddBlockAppends
<1>2. CASE chain' = chain
  BY <1>1, <1>2 DEF LedgersOK, Heights
<1>3. CASE /\ blocks[h].index = Len(chain[n])
           /\ chain' = [chain EXCEPT ![n] = Append(@, h)]
  <2>1. chain[n] \in Seq(Block) /\ Len(chain[n]) \in Nat
    BY DEF LedgersOK
  <2>2. chain'[n] = Append(chain[n], h) /\ \A m \in Nodes : m # n => chain'[m] = chain[m]
    BY <1>3 DEF LedgersOK
  <2>3. chain' \in [Nodes -> Seq(Block)]
    BY <1>3, <2>1 DEF LedgersOK, Block
  <2>4. /\ Len(chain'[n]) = Len(chain[n]) + 1
        /\ chain'[n][Len(chain[n]) + 1] = h
        /\ \A i \in 1 .. Len(chain[n]) : chain'[n][i] = chain[n][i]
    BY <2>1, <2>2, h \in Block DEF Block
  <2>5. \A m \in Nodes : \A i \in 1 .. Len(chain'[m]) :
          \/ i \in 1 .. Len(chain[m]) /\ chain'[m][i] = chain[m][i]
          \/ m = n /\ i = Len(chain[n]) + 1 /\ chain'[m][i] = h
    <3>1. \A i \in 1 .. Len(chain'[n]) :
            \/ i \in 1 .. Len(chain[n]) /\ chain'[n][i] = chain[n][i]
            \/ i = Len(chain[n]) + 1 /\ chain'[n][i] = h
      BY <2>1, <2>4
    <3> QED
      BY <2>2, <3>1
  <2>6. \A m \in Nodes : Len(chain'[m]) >= 1
    <3>1. Len(chain'[n]) >= 1
      BY <2>1, <2>4
    <3>2. \A m \in Nodes : m # n => Len(chain'[m]) >= 1
      BY <2>2 DEF LedgersOK
    <3> QED
      BY <3>1, <3>2
  <2>7. LedgersOK'
    BY <1>1, <2>3, <2>5, <2>6 DEF LedgersOK
  <2>8. Heights'
    BY <1>1, <1>3, <2>1, <2>5 DEF Heights
  <2> QED
    BY <2>7, <2>8
<1> QED
  BY <1>2, <1>3, AddBlockAppends

LEMMA LedgersStay ==
  ASSUME LedgersOK, Heights, UNCHANGED ledgerVars
  PROVE  LedgersOK' /\ Heights'
BY DEF LedgersOK, Heights, ledgerVars

-----------------------------------------------------------------------------
(***************************************************************************)
(* The inductive invariant, and the handlers that preserve it.             *)
(***************************************************************************)
NodeInv == NetworkOK /\ ProtocolOK /\ ThreadsOK /\ LedgersOK /\ Heights

StepOK == ProtocolOK' /\ ThreadsOK' /\ LedgersOK' /\ Heights'

LEMMA ThreadCall ==
  ASSUME ThreadsOK, NEW n \in Nodes, NEW th \in threads[n]
  PROVE  /\ th.call \in Call
         /\ th.owed \subseteq Message
         /\ Exists(th.call)
         /\ th.call.type = "create_block" => n = LEADER_NODE
BY DEF ThreadsOK, Thread, Call, Sane

LEMMA OnTransactionKeeps ==
  ASSUME NodeInv, NEW n \in Nodes, NEW th \in threads[n], OnTransaction(n, th)
  PROVE  StepOK
<1> DEFINE t == th.call.tx
           next == [type |-> "add_transaction", tx |-> t]
<1>1. ProtocolOK /\ ThreadsOK /\ LedgersOK /\ Heights
  BY DEF NodeInv
<1>2. t \in Txs
  BY <1>1, ThreadCall, CallFields DEF OnTransaction
<1>3. UNCHANGED ledgerVars /\ UNCHANGED pbft /\ seen' = [seen EXCEPT ![n] = @ \cup {t}]
  BY DEF OnTransaction
<1>4. ProtocolOK'
  BY <1>1, <1>2, <1>3 DEF ProtocolOK
<1>5. LedgersOK' /\ Heights'
  BY <1>1, <1>3, LedgersStay
<1>6. DOMAIN blocks \subseteq DOMAIN blocks'
  BY <1>3 DEF ledgerVars
<1>7. next \in Call /\ next.type \notin BlockCall /\ next.type # "create_block"
  BY <1>2, MadeCalls DEF Call, BlockCall
<1>8. Finish(n, th) \/ Continue(n, th, next, {})
  BY DEF OnTransaction
<1>9. ThreadsOK'
  BY <1>1, <1>6, <1>7, <1>8, ContinueSane, FinishSane
<1> QED
  BY <1>4, <1>5, <1>9 DEF StepOK

LEMMA PoolTransactionKeeps ==
  ASSUME NodeInv, NEW n \in Nodes, NEW th \in threads[n], PoolTransaction(n, th)
  PROVE  StepOK
<1> DEFINE t == th.call.tx
           next == [type |-> "create_block", tx |-> t]
<1>1. ProtocolOK /\ ThreadsOK /\ LedgersOK /\ Heights
  BY DEF NodeInv
<1>2. t \in Txs
  BY <1>1, ThreadCall, CallFields DEF PoolTransaction
<1>3. AddTransaction(n, t) /\ UNCHANGED protocolVars
  BY DEF PoolTransaction
<1>4. ProtocolOK'
  BY <1>1, <1>3 DEF ProtocolOK, protocolVars
<1>5. LedgersOK' /\ Heights'
  BY <1>1, <1>2, <1>3, AddTransactionKeeps
<1>6. DOMAIN blocks \subseteq DOMAIN blocks'
  BY <1>3 DEF AddTransaction
<1>7. next \in Call /\ next.type \notin BlockCall
  BY <1>2, MadeCalls DEF Call, BlockCall
<1>8. Finish(n, th) \/ (n = LEADER_NODE /\ Continue(n, th, next, {}))
  BY DEF PoolTransaction
<1>9. ThreadsOK'
  BY <1>1, <1>6, <1>7, <1>8, ContinueSane, FinishSane
<1> QED
  BY <1>4, <1>5, <1>9 DEF StepOK

LEMMA ProposeBlockKeeps ==
  ASSUME NodeInv, NEW n \in Nodes, NEW th \in threads[n], ProposeBlock(n, th)
  PROVE  StepOK
<1>1. ProtocolOK /\ ThreadsOK /\ LedgersOK /\ Heights
  BY DEF NodeInv
<1>2. ProtocolOK'
  BY <1>1 DEF ProposeBlock, ProtocolOK, protocolVars
<1>3. CASE ~CanCreate(n) /\ Finish(n, th) /\ UNCHANGED ledgerVars
  <2>1. DOMAIN blocks \subseteq DOMAIN blocks'
    BY <1>3 DEF ledgerVars
  <2>2. ThreadsOK'
    BY <1>1, <1>3, <2>1, FinishSane
  <2> QED
    BY <1>1, <1>2, <1>3, <2>2, LedgersStay DEF StepOK
<1>4. ASSUME NEW h \in Hashes, CreateBlock(n, h),
             Continue(n, th, Vote("PRE-PREPARE", n, h), {Vote("PRE-PREPARE", n, h)})
      PROVE  StepOK
  <2> DEFINE proposal == Vote("PRE-PREPARE", n, h)
  <2>1. LedgersOK' /\ Heights'
    BY <1>1, <1>4, CreateBlockKeeps
  <2>2. DOMAIN blocks' = DOMAIN blocks \cup {h}
    BY <1>1, <1>4, CreateBlockAdds
  <2>3. proposal \in Message /\ proposal \in Call
    BY MadeCalls DEF Call
  <2>4. proposal.block = h /\ proposal.type # "create_block"
    BY DEF Vote
  <2>5. ThreadsOK'
    <3> HIDE DEF proposal
    <3> QED
      BY <1>1, <1>4, <2>2, <2>3, <2>4, ContinueSane DEF proposal
  <2> QED
    BY <1>2, <2>1, <2>5 DEF StepOK
<1> QED
  BY <1>3, <1>4 DEF ProposeBlock

\* The three handlers of protocol messages pass the same block on.
LEMMA HandlerKeeps ==
  ASSUME NodeInv, NEW n \in Nodes, NEW th \in threads[n],
         th.call.type \in {"PRE-PREPARE", "PREPARE", "COMMIT"},
         NEW e \in Engine, pbft' = [pbft EXCEPT ![n] = e],
         NEW next \in Call, next.type \in BlockCall, next.block = th.call.block,
         NEW owes \in SUBSET Message, owes \subseteq {next},
         Finish(n, th) \/ Continue(n, th, next, owes),
         UNCHANGED <<seen, ledgerVars>>
  PROVE  StepOK
<1>1. ProtocolOK /\ ThreadsOK /\ LedgersOK /\ Heights
  BY DEF NodeInv
<1>2. ProtocolOK'
  BY <1>1 DEF ProtocolOK
<1>3. LedgersOK' /\ Heights'
  BY <1>1, LedgersStay
<1>4. blocks' = blocks
  BY DEF ledgerVars
<1>5. next.block \in DOMAIN blocks'
  BY <1>1, <1>4, ThreadCall DEF Exists, BlockCall
<1>6. next.type # "create_block"
  BY DEF BlockCall
<1>7. CASE Finish(n, th)
  BY <1>1, <1>2, <1>3, <1>4, <1>7, FinishSane DEF StepOK
<1>8. CASE Continue(n, th, next, owes)
  <2>1. ThreadsOK'
    BY <1>1, <1>4, <1>5, <1>6, <1>8, ContinueSane
  <2> QED
    BY <1>2, <1>3, <2>1 DEF StepOK
<1> QED
  BY <1>7, <1>8

LEMMA OnPrePrepareKeeps ==
  ASSUME NodeInv, NEW n \in Nodes, NEW th \in threads[n], OnPrePrepare(n, th)
  PROVE  StepOK
<1> DEFINE h == th.call.block
           vote == Vote("PREPARE", n, h)
<1>1. th.call.type = "PRE-PREPARE" /\ pbft[n] \in Engine
  BY DEF OnPrePrepare, NodeInv, ProtocolOK
<1>2. h \in Hashes
  BY <1>1, ThreadCall, CallFields DEF NodeInv
<1>3. HandlePrePrepare(pbft[n], h) \in Engine
  BY <1>1, <1>2, n \in Nodes, EngineTypes
<1>4. vote \in Message /\ vote \in Call /\ vote.type \in BlockCall /\ vote.block = h
  BY <1>2, MadeCalls DEF Call, BlockCall, Vote
<1>5. pbft' = [pbft EXCEPT ![n] = HandlePrePrepare(pbft[n], h)]
  BY DEF OnPrePrepare
<1>6. Finish(n, th) \/ Continue(n, th, vote, {vote})
  BY DEF OnPrePrepare
<1>7. UNCHANGED <<seen, ledgerVars>>
  BY DEF OnPrePrepare
<1> HIDE DEF vote
<1> QED
  BY <1>1, <1>3, <1>4, <1>5, <1>6, <1>7, HandlerKeeps

LEMMA OnPrepareKeeps ==
  ASSUME NodeInv, NEW n \in Nodes, NEW th \in threads[n], OnPrepare(n, th)
  PROVE  StepOK
<1> DEFINE h == th.call.block
           s == th.call.sender
           vote == Vote("COMMIT", n, h)
<1>1. th.call.type = "PREPARE" /\ pbft[n] \in Engine
  BY DEF OnPrepare, NodeInv, ProtocolOK
<1>2. h \in Hashes /\ s \in Nodes
  BY <1>1, ThreadCall, CallFields DEF NodeInv
<1>3. HandlePrepare(pbft[n], h, s) \in Engine
  BY <1>1, <1>2, EngineTypes
<1>4. vote \in Message /\ vote \in Call /\ vote.type \in BlockCall /\ vote.block = h
  BY <1>2, MadeCalls DEF Call, BlockCall, Vote
<1>5. pbft' = [pbft EXCEPT ![n] = HandlePrepare(pbft[n], h, s)]
  BY DEF OnPrepare
<1>6. Finish(n, th) \/ Continue(n, th, vote, {vote})
  BY DEF OnPrepare
<1>7. UNCHANGED <<seen, ledgerVars>>
  BY DEF OnPrepare
<1> HIDE DEF vote
<1> QED
  BY <1>1, <1>3, <1>4, <1>5, <1>6, <1>7, HandlerKeeps

LEMMA OnCommitKeeps ==
  ASSUME NodeInv, NEW n \in Nodes, NEW th \in threads[n], OnCommit(n, th)
  PROVE  StepOK
<1> DEFINE h == th.call.block
           s == th.call.sender
           next == [type |-> "add_block", block |-> h]
<1>1. th.call.type = "COMMIT" /\ pbft[n] \in Engine
  BY DEF OnCommit, NodeInv, ProtocolOK
<1>2. h \in Hashes /\ s \in Nodes
  BY <1>1, ThreadCall, CallFields DEF NodeInv
<1>3. HandleCommit(pbft[n], h, s) \in Engine
  BY <1>1, <1>2, EngineTypes
<1>4. next \in Call /\ next.type \in BlockCall /\ next.block = h
  BY <1>2, MadeCalls DEF Call, BlockCall
<1>5. pbft' = [pbft EXCEPT ![n] = HandleCommit(pbft[n], h, s)]
  BY DEF OnCommit
<1>6. Finish(n, th) \/ Continue(n, th, next, {})
  BY DEF OnCommit
<1>7. UNCHANGED <<seen, ledgerVars>>
  BY DEF OnCommit
<1>8. {} \in SUBSET Message /\ {} \subseteq {next}
  OBVIOUS
<1> HIDE DEF next
<1> QED
  BY <1>1, <1>3, <1>4, <1>5, <1>6, <1>7, <1>8, HandlerKeeps

LEMMA CommitBlockKeeps ==
  ASSUME NodeInv, NEW n \in Nodes, NEW th \in threads[n], CommitBlock(n, th)
  PROVE  StepOK
<1> DEFINE h == th.call.block
<1>1. ProtocolOK /\ ThreadsOK /\ LedgersOK /\ Heights
  BY DEF NodeInv
<1>2. th.call.type = "add_block" /\ AddBlock(n, h) /\ Finish(n, th) /\ UNCHANGED protocolVars
  BY DEF CommitBlock
<1>3. h \in Hashes /\ h \in DOMAIN blocks
  BY <1>1, <1>2, ThreadCall, CallFields DEF Exists, BlockCall
<1>4. ProtocolOK'
  BY <1>1, <1>2 DEF ProtocolOK, protocolVars
<1>5. LedgersOK' /\ Heights'
  BY <1>1, <1>2, <1>3, AddBlockKeeps
<1>6. blocks' = blocks
  BY <1>1, <1>2, <1>3, AddBlockAppends
<1>7. ThreadsOK'
  BY <1>1, <1>2, <1>6, FinishSane
<1> QED
  BY <1>4, <1>5, <1>7 DEF StepOK

\* A locked section of a thread leaves what it does not own alone.
LEMMA RunKeeps ==
  ASSUME NodeInv, NEW n \in Nodes, Run(n)
  PROVE  NodeInv'
<1>1. PICK th \in threads[n] : Step(n, th)
  BY DEF Run
<1>2. StepOK
  BY <1>1, OnTransactionKeeps, PoolTransactionKeeps, ProposeBlockKeeps, OnPrePrepareKeeps,
     OnPrepareKeeps, OnCommitKeeps, CommitBlockKeeps DEF Step
<1>3. NetworkOK'
  BY DEF NodeInv, NetworkOK, Run
<1> QED
  BY <1>2, <1>3 DEF NodeInv, StepOK

LEMMA SubmitKeeps ==
  ASSUME NodeInv, NEW n \in Nodes, NEW t \in Txs, Submit(n, t)
  PROVE  NodeInv'
<1> DEFINE th == [call |-> Transaction(n, t), owed |-> {Transaction(n, t)}]
<1>1. NetworkOK /\ ProtocolOK /\ ThreadsOK /\ LedgersOK /\ Heights
  BY DEF NodeInv
<1>2. NetworkOK' /\ ProtocolOK' /\ LedgersOK' /\ Heights'
  BY <1>1, LedgersStay DEF Submit, NetworkOK, ProtocolOK, protocolVars
<1>3. th \in Thread
  BY MadeCalls DEF Thread
<1>4. Sane(n, th)'
  BY DEF Sane, Exists, BlockCall, Transaction
<1>5. blocks' = blocks /\ threads' = [threads EXCEPT ![n] = @ \cup {th}]
  BY DEF Submit, ledgerVars
<1>6. ThreadsOK'
  <2> HIDE DEF th
  <2>1. threads' \in [Nodes -> SUBSET Thread]
    BY <1>1, <1>3, <1>5 DEF ThreadsOK
  <2>2. ASSUME NEW m \in Nodes, NEW x \in threads'[m] PROVE Sane(m, x)'
    <3>1. x \in threads[m] \/ (m = n /\ x = th)
      BY <1>1, <1>5, <2>2 DEF ThreadsOK
    <3>2. CASE x \in threads[m]
      BY <1>1, <1>5, <3>2 DEF ThreadsOK, Sane, Exists
    <3> QED
      BY <1>4, <3>1, <3>2
  <2> QED
    BY <2>1, <2>2 DEF ThreadsOK
<1> QED
  BY <1>2, <1>6 DEF NodeInv

\* Threads that are gone do no harm.
LEMMA FewerThreads ==
  ASSUME ThreadsOK, blocks' = blocks,
         threads' \in [Nodes -> SUBSET Thread],
         \A m \in Nodes : threads'[m] \subseteq threads[m]
  PROVE  ThreadsOK'
BY DEF ThreadsOK, Sane, Exists

LEMMA LoseKeeps ==
  ASSUME NodeInv, NEW n \in Nodes, Lose(n)
  PROVE  NodeInv'
<1>1. NetworkOK /\ ProtocolOK /\ ThreadsOK /\ LedgersOK /\ Heights
  BY DEF NodeInv
<1>2. NetworkOK' /\ ProtocolOK' /\ LedgersOK' /\ Heights'
  BY <1>1, NodeAssumption, LedgersStay DEF Lose, NetworkOK, ProtocolOK, protocolVars
<1>3. /\ threads' \in [Nodes -> SUBSET Thread]
      /\ \A m \in Nodes : threads'[m] \subseteq threads[m]
  BY <1>1 DEF Lose, ThreadsOK
<1>4. blocks' = blocks
  BY DEF Lose, ledgerVars
<1> QED
  BY <1>1, <1>2, <1>3, <1>4, FewerThreads DEF NodeInv

LEMMA CrashKeeps ==
  ASSUME NodeInv, NEW n \in Nodes, Crash(n)
  PROVE  NodeInv'
<1>1. NetworkOK /\ ProtocolOK /\ ThreadsOK /\ LedgersOK /\ Heights
  BY DEF NodeInv
<1>2. NetworkOK' /\ ProtocolOK' /\ LedgersOK' /\ Heights'
  BY <1>1, LedgersStay DEF Crash, NetworkOK, ProtocolOK, protocolVars
<1>3. /\ threads' \in [Nodes -> SUBSET Thread]
      /\ \A m \in Nodes : threads'[m] \subseteq threads[m]
  <2>1. InFlight(n) \subseteq threads[n]
    BY DEF InFlight
  <2>2. PICK unsent : threads' =
          [m \in Nodes |-> IF m = n THEN IF n \in MayRestart THEN InFlight(n) ELSE {}
                           ELSE {th \in threads[m] : <<m, th>> \notin unsent}]
    BY DEF Crash
  <2> QED
    BY <1>1, <2>1, <2>2 DEF ThreadsOK
<1>4. blocks' = blocks
  BY DEF Crash, ledgerVars
<1> QED
  BY <1>1, <1>2, <1>3, <1>4, FewerThreads DEF NodeInv

LEMMA RestartKeeps ==
  ASSUME NodeInv, NEW n \in Nodes, Restart(n)
  PROVE  NodeInv'
<1>1. NetworkOK /\ ProtocolOK /\ ThreadsOK /\ LedgersOK /\ Heights
  BY DEF NodeInv
<1>2. NetworkOK' /\ ProtocolOK'
  BY <1>1, InitialEngine DEF Restart, NetworkOK, ProtocolOK
<1>3. /\ blocks' = blocks
      /\ chain' = [chain EXCEPT ![n] = <<Genesis>>]
      /\ pending' = [pending EXCEPT ![n] = <<>>]
  BY DEF Restart
<1>4. ThreadsOK'
  <2>1. PICK unfailed \in SUBSET threads[n] : threads' = [threads EXCEPT ![n] = unfailed]
    BY DEF Restart
  <2>2. /\ threads' \in [Nodes -> SUBSET Thread]
        /\ \A m \in Nodes : threads'[m] \subseteq threads[m]
    BY <1>1, <2>1 DEF ThreadsOK
  <2> QED
    BY <1>1, <1>3, <2>2, FewerThreads
<1>5. /\ chain'[n] = <<Genesis>> /\ Len(<<Genesis>>) = 1 /\ <<Genesis>>[1] = Genesis
      /\ \A m \in Nodes : m # n => chain'[m] = chain[m]
  BY <1>1, <1>3 DEF LedgersOK
<1>6. chain' \in [Nodes -> Seq(Block)] /\ pending' \in [Nodes -> Seq(Txs)]
  BY <1>1, <1>3 DEF LedgersOK, Block
<1>7. \A m \in Nodes :
        /\ Len(chain'[m]) >= 1
        /\ \A i \in 1 .. Len(chain'[m]) :
             chain'[m][i] \in DOMAIN blocks /\ blocks[chain'[m][i]].index = i - 1
  <2>1. \A m \in Nodes : m = n \/ chain'[m] = chain[m]
    BY <1>5
  <2>2. /\ Len(chain'[n]) = 1
        /\ \A i \in 1 .. 1 : chain'[n][i] = Genesis /\ i - 1 = 0
    BY <1>5
  <2>3. /\ Len(chain'[n]) >= 1
        /\ \A i \in 1 .. Len(chain'[n]) :
             chain'[n][i] \in DOMAIN blocks /\ blocks[chain'[n][i]].index = i - 1
    BY <1>1, <2>2 DEF LedgersOK, Heights
  <2>4. ASSUME NEW m \in Nodes, chain'[m] = chain[m]
        PROVE  /\ Len(chain'[m]) >= 1
               /\ \A i \in 1 .. Len(chain'[m]) :
                    chain'[m][i] \in DOMAIN blocks /\ blocks[chain'[m][i]].index = i - 1
    BY <1>1, <2>4 DEF LedgersOK, Heights
  <2> QED
    BY <2>1, <2>3, <2>4
<1>8. LedgersOK' /\ Heights'
  BY <1>1, <1>3, <1>6, <1>7 DEF LedgersOK, Heights
<1> QED
  BY <1>2, <1>4, <1>8 DEF NodeInv

LEMMA InitOK == Init => NodeInv
<1> SUFFICES ASSUME Init PROVE NodeInv
  OBVIOUS
<1>1. NetworkOK /\ ProtocolOK
  BY InitialEngine, NodeAssumption DEF Init, NetworkOK, ProtocolOK
<1>2. ThreadsOK
  BY DEF Init, ThreadsOK
<1>3. /\ blocks = [h \in {Genesis} |-> GenesisBlock]
      /\ chain = [n \in Nodes |-> <<Genesis>>]
      /\ pending = [n \in Nodes |-> <<>>]
  BY DEF Init, InitLedgers
<1>4. LedgersOK
  BY <1>3 DEF LedgersOK, Block
<1>5. Heights
  BY <1>3 DEF Heights, GenesisBlock
<1> QED
  BY <1>1, <1>2, <1>4, <1>5 DEF NodeInv

LEMMA StepKeeps == NodeInv /\ [Next]_vars => NodeInv'
<1> SUFFICES ASSUME NodeInv, [Next]_vars PROVE NodeInv'
  OBVIOUS
<1>1. CASE Next
  BY <1>1, RunKeeps, SubmitKeeps, LoseKeeps, CrashKeeps, RestartKeeps DEF Next
<1>2. CASE UNCHANGED vars
  BY <1>2 DEF vars, NodeInv, NetworkOK, ProtocolOK, ThreadsOK, LedgersOK, Heights,
     Sane, Exists
<1> QED
  BY <1>1, <1>2

LEMMA Invariant == Spec => []NodeInv
BY InitOK, StepKeeps, PTL DEF Spec

(***************************************************************************)
(* Every reachable state has its type: in particular every handler is      *)
(* handed the kind of message it reads (node.py:131-142), and every vote   *)
(* set holds validators only.                                              *)
(***************************************************************************)
THEOREM TypeCorrect == Spec => []TypeOK
<1>1. NodeInv => TypeOK
  BY DEF NodeInv, NetworkOK, ProtocolOK, ThreadsOK, LedgersOK, TypeOK, Block
<1> QED
  BY <1>1, Invariant, PTL

-----------------------------------------------------------------------------
(***************************************************************************)
(* The network implements LeaderChain.                                     *)
(***************************************************************************)
Places == [h \in DOMAIN blocks \ {Genesis} |-> Place(h)]

LEMMA InitIsInit == Init => Shared!Init
<1> SUFFICES ASSUME Init PROVE Shared!Init
  OBVIOUS
<1>1. /\ DOMAIN blocks = {Genesis}
      /\ chain = [n \in Nodes |-> <<Genesis>>]
  BY DEF Init, InitLedgers
<1>2. DOMAIN blocks \ {Genesis} = {}
  BY <1>1
<1> QED
  BY <1>1, <1>2 DEF Shared!Init

LEMMA SameLedgers ==
  ASSUME blocks' = blocks
  PROVE  Places' = Places
BY DEF Places, Place

\* create_block by the leader proposes a block for the top of its own ledger;
\* a block it made already, in the same tick of the clock, is no new proposal.
LEMMA CreateBlockProposes ==
  ASSUME LedgersOK, Heights, NEW h \in Hashes, CreateBlock(LEADER_NODE, h)
  PROVE  Shared!Propose(h) \/ (Places' = Places /\ chain' = chain)
<1>1. /\ DOMAIN blocks' = DOMAIN blocks \cup {h}
      /\ \A b \in DOMAIN blocks : blocks'[b] = blocks[b]
      /\ blocks'[h].index = Len(chain[LEADER_NODE])
      /\ blocks'[h].previous_hash = Tip(LEADER_NODE)
      /\ chain' = chain
  BY NodeAssumption, CreateBlockAdds
<1>2. h # Genesis
  BY LedgerAssumption
<1>3. CASE h \in DOMAIN blocks
  <2>1. DOMAIN blocks' = DOMAIN blocks
    BY <1>1, <1>3
  <2> QED
    BY <1>1, <2>1 DEF Places, Place
<1>4. CASE h \notin DOMAIN blocks
  <2>1. DOMAIN Places = DOMAIN blocks \ {Genesis}
    BY DEF Places
  <2>2. DOMAIN blocks' \ {Genesis} = DOMAIN Places \cup {h}
    BY <1>1, <1>2, <2>1
  <2>3. \A b \in DOMAIN Places \cup {h} :
          Place(b)' = IF b = h THEN Shared!TopOf(LEADER_NODE) ELSE Places[b]
    BY <1>1, <1>4, <2>1 DEF Places, Place, Shared!TopOf, Shared!Tip, Tip
  <2>4. Places' = [b \in DOMAIN Places \cup {h} |->
                     IF b = h THEN Shared!TopOf(LEADER_NODE) ELSE Places[b]]
    BY <2>2, <2>3 DEF Places
  <2> QED
    BY <1>1, <1>4, <2>1, <2>4 DEF Places, Shared!Propose
<1> QED
  BY <1>3, <1>4

\* add_block extends a ledger at the place the block was proposed for.
LEMMA AddBlockExtends ==
  ASSUME LedgersOK, Heights, NEW n \in Nodes, NEW h \in Hashes,
         h \in DOMAIN blocks, AddBlock(n, h)
  PROVE  Shared!Extend(n, h) \/ (Places' = Places /\ chain' = chain)
<1>1. blocks' = blocks
  BY AddBlockAppends
<1>2. Places' = Places
  BY <1>1, SameLedgers
<1>3. CASE chain' = chain
  BY <1>2, <1>3
<1>4. CASE /\ blocks[h].index = Len(chain[n])
           /\ blocks[h].previous_hash = Tip(n)
           /\ chain' = [chain EXCEPT ![n] = Append(@, h)]
  <2>1. h \in DOMAIN Places
    BY LedgerAssumption DEF Places
  <2>2. Places[h] = Shared!TopOf(n)
    BY <1>4, <2>1 DEF Places, Place, Shared!TopOf, Shared!Tip, Tip
  <2> QED
    BY <1>2, <1>4, <2>1, <2>2 DEF Places, Shared!Extend
<1> QED
  BY <1>3, <1>4, AddBlockAppends

LEMMA StepIsStep == NodeInv /\ [Next]_vars => [Shared!Next]_(Shared!vars)
<1> SUFFICES ASSUME NodeInv, [Next]_vars
             PROVE  Shared!Next \/ (Places' = Places /\ chain' = chain)
  BY DEF Shared!vars, Places
<1>1. LedgersOK /\ Heights /\ ThreadsOK
  BY DEF NodeInv
<1>2. ASSUME UNCHANGED ledgerVars PROVE Places' = Places /\ chain' = chain
  BY <1>2, SameLedgers DEF ledgerVars
<1>3. ASSUME NEW n \in Nodes, NEW th \in threads[n], Step(n, th)
      PROVE  Shared!Next \/ (Places' = Places /\ chain' = chain)
  <2>1. CASE OnTransaction(n, th) \/ OnPrePrepare(n, th) \/ OnPrepare(n, th) \/ OnCommit(n, th)
    BY <1>2, <2>1 DEF OnTransaction, OnPrePrepare, OnPrepare, OnCommit
  <2>2. CASE PoolTransaction(n, th)
    BY <2>2, SameLedgers DEF PoolTransaction, AddTransaction
  <2>3. CASE ProposeBlock(n, th)
    <3>1. n = LEADER_NODE
      BY <1>1, <2>3, ThreadCall DEF ProposeBlock
    <3>2. (\E h \in Hashes : CreateBlock(n, h)) \/ UNCHANGED ledgerVars
      BY <2>3 DEF ProposeBlock
    <3> QED
      BY <1>1, <1>2, <3>1, <3>2, CreateBlockProposes DEF Shared!Next
  <2>4. CASE CommitBlock(n, th)
    <3>1. th.call.block \in Hashes /\ th.call.block \in DOMAIN blocks
      BY <1>1, <2>4, ThreadCall, CallFields DEF CommitBlock, Exists, BlockCall
    <3>2. AddBlock(n, th.call.block)
      BY <2>4 DEF CommitBlock
    <3> QED
      BY <1>1, <3>1, <3>2, AddBlockExtends DEF Shared!Next
  <2> QED
    BY <1>3, <2>1, <2>2, <2>3, <2>4 DEF Step
<1>4. ASSUME NEW n \in Nodes, Restart(n) PROVE Shared!Next
  <2>1. n \in MayRestart
    BY <1>4 DEF Restart
  <2>2. blocks' = blocks /\ chain' = [chain EXCEPT ![n] = <<Genesis>>]
    BY <1>4 DEF Restart
  <2>3. Places' = Places
    BY <2>2, SameLedgers
  <2>4. Shared!StartOver(n)
    BY <2>1, <2>2, <2>3 DEF Shared!StartOver, Places
  <2> QED
    BY <2>4 DEF Shared!Next
<1>5. CASE UNCHANGED vars
  BY <1>2, <1>5 DEF vars, ledgerVars
<1>6. ASSUME NEW n \in Nodes, (\E t \in Txs : Submit(n, t)) \/ Lose(n) \/ Crash(n)
      PROVE  UNCHANGED ledgerVars
  BY <1>6 DEF Submit, Lose, Crash
<1> QED
  BY <1>2, <1>3, <1>4, <1>5, <1>6 DEF Next, Run

(***************************************************************************)
(* Whatever the threads of the nodes interleave, whatever is lost and      *)
(* whoever stops or restarts, a ledger only grows by the block proposed    *)
(* for its next place, on the leader's ledger (blockchain.py:184-225).     *)
(***************************************************************************)
THEOREM Refinement == Spec => ImplementsLeaderChain
BY InitIsInit, StepIsStep, Invariant, PTL
   DEF Spec, ImplementsLeaderChain, Shared!Spec

\* LeaderChain with its theorems, for the ledgers of the network.
Abstract == INSTANCE LeaderChainProofs WITH
              Leader <- LEADER_NODE,
              MayStartOver <- MayRestart,
              place <- [h \in DOMAIN blocks \ {Genesis} |-> Place(h)]

LEMMA ImplementsAbstract == Spec => Abstract!Spec
<1>1. Shared!Init <=> Abstract!Init
  BY DEF Shared!Init, Abstract!Init
<1>2. [Shared!Next]_(Shared!vars) <=> [Abstract!Next]_(Abstract!vars)
  BY DEF Shared!Next, Shared!Propose, Shared!Extend, Shared!StartOver, Shared!TopOf,
     Shared!Tip, Shared!vars, Abstract!Next, Abstract!Propose, Abstract!Extend,
     Abstract!StartOver, Abstract!TopOf, Abstract!Tip, Abstract!vars
<1> QED
  BY <1>1, <1>2, Refinement, PTL DEF ImplementsLeaderChain, Shared!Spec, Abstract!Spec

(***************************************************************************)
(* Unless the leader is restarted, two ledgers can only differ in their    *)
(* last blocks: everything below the tip of a ledger is on the leader's,   *)
(* at the same height (node.py:41).                                        *)
(***************************************************************************)
THEOREM ForksEndAtTheTip ==
  ASSUME LEADER_NODE \notin MayRestart
  PROVE  Spec => []AgreeBelowTip
<1>1. Abstract!Spec => []Abstract!AgreeBelowTip
  BY NodeAssumption, Abstract!Agreement
<1>2. Abstract!AgreeBelowTip <=> AgreeBelowTip
  BY DEF Abstract!AgreeBelowTip, Shared!AgreeBelowTip, AgreeBelowTip
<1> QED
  BY <1>1, <1>2, ImplementsAbstract, PTL

(***************************************************************************)
(* Whoever is restarted, the leader included: nodes that hold the same     *)
(* block hold the same ledger up to it (node.py:49, blockchain.py:213-225).*)
(***************************************************************************)
THEOREM HistoriesDoNotMix == Spec => []Shared!OneHistory
<1>1. Abstract!Spec => []Abstract!OneHistory
  BY LedgerAssumption, Abstract!OneHistoryAlways
<1>2. Abstract!OneHistory <=> Shared!OneHistory
  BY DEF Abstract!OneHistory, Shared!OneHistory
<1> QED
  BY <1>1, <1>2, ImplementsAbstract, PTL

-----------------------------------------------------------------------------
(***************************************************************************)
(* Certificates: every vote that counts anywhere in the network was earned *)
(* by the node that cast it.                                               *)
(***************************************************************************)
Moved == {"prepared", "committed"}

\* Who has voted, whether the vote is counted or buffered.
Prepares(e, h) == e.prepare_votes[h] \cup e.prepare_buffer[h]
Commits(e, h) == e.commit_votes[h] \cup e.commit_buffer[h]

\* Statuses go forward.
Advances(old, new) ==
  \A h \in Hashes :
    /\ Known(old, h) => Known(new, h)
    /\ old.status[h] \in Moved => new.status[h] \in Moved

\* A status is moved forward by a quorum.
QuorumsOf(e) ==
  \A h \in Hashes :
    /\ e.status[h] \in Moved => Cardinality(e.prepare_votes[h]) >= 2 * f
    /\ e.status[h] = "committed" => Cardinality(e.commit_votes[h]) >= 2 * f + 1

-----------------------------------------------------------------------------
(***************************************************************************)
(* One engine.                                                             *)
(***************************************************************************)
LEMMA ThresholdType == f \in Int
<1>1. Cardinality(Nodes) \in Nat
  BY NodesAssumption, FS_CardinalityType
<1> QED
  BY <1>1 DEF f, total_nodes

LEMMA MoreVotes ==
  ASSUME NEW S \in SUBSET Nodes, NEW T \in SUBSET S
  PROVE  /\ Cardinality(S) \in Nat /\ Cardinality(T) \in Nat
         /\ Cardinality(T) <= Cardinality(S)
<1>1. IsFiniteSet(S)
  BY NodesAssumption, FS_Subset
<1>2. IsFiniteSet(T)
  BY <1>1, FS_Subset
<1> QED
  BY <1>1, <1>2, FS_Subset, FS_CardinalityType

LEMMA PrePrepareStep ==
  ASSUME NEW e \in Engine, NEW h \in Hashes, QuorumsOf(e)
  PROVE  LET new == HandlePrePrepare(e, h)
         IN  /\ Advances(e, new) /\ QuorumsOf(new)
             /\ Known(new, h)
             /\ \A g \in Hashes : Prepares(new, g) = Prepares(e, g)
                               /\ Commits(new, g) = Commits(e, g)
<1> DEFINE new == HandlePrePrepare(e, h)
<1>1. CASE Known(e, h)
  BY <1>1 DEF HandlePrePrepare, ShouldPrepare, Advances
<1>2. CASE ~Known(e, h)
  <2>1. new = [e EXCEPT !.status[h] = "pending",
                        !.prepare_votes[h] = @ \cup e.prepare_buffer[h],
                        !.commit_votes[h] = @ \cup e.commit_buffer[h],
                        !.prepare_buffer[h] = {},
                        !.commit_buffer[h] = {}]
    BY <1>2 DEF HandlePrePrepare, ShouldPrepare
  <2>2. \A g \in Hashes :
          /\ new.status[g] = IF g = h THEN "pending" ELSE e.status[g]
          /\ new.prepare_votes[g] = IF g = h THEN Prepares(e, h) ELSE e.prepare_votes[g]
          /\ new.commit_votes[g] = IF g = h THEN Commits(e, h) ELSE e.commit_votes[g]
          /\ new.prepare_buffer[g] = IF g = h THEN {} ELSE e.prepare_buffer[g]
          /\ new.commit_buffer[g] = IF g = h THEN {} ELSE e.commit_buffer[g]
    BY <2>1 DEF Engine, Prepares, Commits
  <2> HIDE DEF new
  <2>3. e.status[h] = "absent"
    BY <1>2 DEF Known
  <2>4. Advances(e, new) /\ Known(new, h)
    BY <2>2, <2>3 DEF Advances, Known, Moved
  <2>5. QuorumsOf(new)
    BY <2>2 DEF QuorumsOf, Moved
  <2>6. \A g \in Hashes : Prepares(new, g) = Prepares(e, g) /\ Commits(new, g) = Commits(e, g)
    BY <2>2 DEF Prepares, Commits
  <2> QED
    BY <2>4, <2>5, <2>6 DEF new
<1> QED
  BY <1>1, <1>2

LEMMA PrepareStep ==
  ASSUME NEW e \in Engine, NEW h \in Hashes, NEW s \in Nodes, QuorumsOf(e)
  PROVE  LET new == HandlePrepare(e, h, s)
         IN  /\ Advances(e, new) /\ QuorumsOf(new)
             /\ ShouldCommit(e, h, s) => new.status[h] \in Moved
             /\ \A g \in Hashes :
                  /\ Prepares(new, g) \subseteq Prepares(e, g) \cup IF g = h THEN {s} ELSE {}
                  /\ Commits(new, g) = Commits(e, g)
<1> DEFINE new == HandlePrepare(e, h, s)
           votes == e.prepare_votes[h] \cup {s}
<1>1. CASE ~Known(e, h)
  <2>1. new = [e EXCEPT !.prepare_buffer[h] = @ \cup {s}]
    BY <1>1 DEF HandlePrepare
  <2>2. /\ new.status = e.status /\ new.prepare_votes = e.prepare_votes
        /\ new.commit_votes = e.commit_votes /\ new.commit_buffer = e.commit_buffer
        /\ \A g \in Hashes : new.prepare_buffer[g] =
             IF g = h THEN e.prepare_buffer[h] \cup {s} ELSE e.prepare_buffer[g]
    BY <2>1 DEF Engine
  <2> HIDE DEF new
  <2>3. ~ShouldCommit(e, h, s)
    BY <1>1 DEF ShouldCommit, Known
  <2>4. Advances(e, new) /\ QuorumsOf(new)
    BY <2>2 DEF Advances, QuorumsOf, Known
  <2>5. \A g \in Hashes :
          /\ Prepares(new, g) \subseteq Prepares(e, g) \cup IF g = h THEN {s} ELSE {}
          /\ Commits(new, g) = Commits(e, g)
    BY <2>2 DEF Prepares, Commits
  <2> QED
    BY <2>3, <2>4, <2>5 DEF new
<1>2. CASE Known(e, h)
  <2>1. new = [e EXCEPT !.prepare_votes[h] = @ \cup {s},
                        !.status[h] = IF ShouldCommit(e, h, s) THEN "prepared" ELSE @]
    BY <1>2 DEF HandlePrepare
  <2>2. /\ new.prepare_buffer = e.prepare_buffer
        /\ new.commit_votes = e.commit_votes /\ new.commit_buffer = e.commit_buffer
        /\ \A g \in Hashes :
             /\ new.prepare_votes[g] = IF g = h THEN votes ELSE e.prepare_votes[g]
             /\ new.status[g] = IF g = h /\ ShouldCommit(e, h, s)
                                THEN "prepared" ELSE e.status[g]
    BY <2>1 DEF Engine
  <2>3. /\ votes \in SUBSET Nodes /\ e.prepare_votes[h] \in SUBSET votes
    BY DEF Engine
  <2>4. /\ Cardinality(votes) \in Nat /\ Cardinality(e.prepare_votes[h]) \in Nat
        /\ Cardinality(e.prepare_votes[h]) <= Cardinality(votes)
    BY <2>3, MoreVotes
  <2> HIDE DEF new, votes
  <2>5. ShouldCommit(e, h, s) =>
          e.status[h] = "pending" /\ Cardinality(votes) >= 2 * f
    BY DEF ShouldCommit, prepare_threshold, votes
  <2>6. Advances(e, new)
    BY <2>2, <2>5 DEF Advances, Known, Moved
  <2>7. QuorumsOf(new)
    BY <2>2, <2>4, <2>5, ThresholdType DEF QuorumsOf, Moved
  <2>8. \A g \in Hashes :
          /\ Prepares(new, g) \subseteq Prepares(e, g) \cup IF g = h THEN {s} ELSE {}
          /\ Commits(new, g) = Commits(e, g)
    BY <2>2 DEF Prepares, Commits, votes
  <2> QED
    BY <2>2, <2>6, <2>7, <2>8 DEF new, Moved
<1> QED
  BY <1>1, <1>2

LEMMA CommitStep ==
  ASSUME NEW e \in Engine, NEW h \in Hashes, NEW s \in Nodes, QuorumsOf(e)
  PROVE  LET new == HandleCommit(e, h, s)
         IN  /\ Advances(e, new) /\ QuorumsOf(new)
             /\ \A g \in Hashes :
                  /\ Prepares(new, g) = Prepares(e, g)
                  /\ Commits(new, g) \subseteq Commits(e, g) \cup IF g = h THEN {s} ELSE {}
<1> DEFINE new == HandleCommit(e, h, s)
           votes == e.commit_votes[h] \cup {s}
<1>1. CASE ~Known(e, h)
  <2>1. new = [e EXCEPT !.commit_buffer[h] = @ \cup {s}]
    BY <1>1 DEF HandleCommit
  <2>2. /\ new.status = e.status /\ new.prepare_votes = e.prepare_votes
        /\ new.commit_votes = e.commit_votes /\ new.prepare_buffer = e.prepare_buffer
        /\ \A g \in Hashes : new.commit_buffer[g] =
             IF g = h THEN e.commit_buffer[h] \cup {s} ELSE e.commit_buffer[g]
    BY <2>1 DEF Engine
  <2> HIDE DEF new
  <2>3. Advances(e, new) /\ QuorumsOf(new)
    BY <2>2 DEF Advances, QuorumsOf, Known
  <2>4. \A g \in Hashes :
          /\ Prepares(new, g) = Prepares(e, g)
          /\ Commits(new, g) \subseteq Commits(e, g) \cup IF g = h THEN {s} ELSE {}
    BY <2>2 DEF Prepares, Commits
  <2> QED
    BY <2>3, <2>4 DEF new
<1>2. CASE Known(e, h)
  <2>1. new = [e EXCEPT !.commit_votes[h] = @ \cup {s},
                        !.status[h] = IF ShouldAdd(e, h, s) THEN "committed" ELSE @]
    BY <1>2 DEF HandleCommit
  <2>2. /\ new.prepare_votes = e.prepare_votes
        /\ new.prepare_buffer = e.prepare_buffer /\ new.commit_buffer = e.commit_buffer
        /\ \A g \in Hashes :
             /\ new.commit_votes[g] = IF g = h THEN votes ELSE e.commit_votes[g]
             /\ new.status[g] = IF g = h /\ ShouldAdd(e, h, s)
                                THEN "committed" ELSE e.status[g]
    BY <2>1 DEF Engine
  <2>3. /\ votes \in SUBSET Nodes /\ e.commit_votes[h] \in SUBSET votes
    BY DEF Engine
  <2>4. /\ Cardinality(votes) \in Nat /\ Cardinality(e.commit_votes[h]) \in Nat
        /\ Cardinality(e.commit_votes[h]) <= Cardinality(votes)
    BY <2>3, MoreVotes
  <2> HIDE DEF new, votes
  <2>5. ShouldAdd(e, h, s) =>
          e.status[h] = "prepared" /\ Cardinality(votes) >= 2 * f + 1
    BY DEF ShouldAdd, commit_threshold, votes
  <2>6. Advances(e, new)
    BY <2>2, <2>5 DEF Advances, Known, Moved
  <2>7. QuorumsOf(new)
    BY <2>2, <2>4, <2>5, ThresholdType DEF QuorumsOf, Moved
  <2>8. \A g \in Hashes :
          /\ Prepares(new, g) = Prepares(e, g)
          /\ Commits(new, g) \subseteq Commits(e, g) \cup IF g = h THEN {s} ELSE {}
    BY <2>2 DEF Prepares, Commits, votes
  <2> QED
    BY <2>6, <2>7, <2>8 DEF new
<1> QED
  BY <1>1, <1>2

-----------------------------------------------------------------------------
(***************************************************************************)
(* The network.  A vote on its way is backed if the node that cast it has  *)
(* got that far; a vote that was counted or buffered, likewise.            *)
(***************************************************************************)
Backed(msg) ==
  Remembers(msg.sender) =>
    /\ msg.type = "PREPARE" => Known(pbft[msg.sender], msg.block)
    /\ msg.type = "COMMIT" => pbft[msg.sender].status[msg.block] \in Moved

Backing ==
  \A n \in Nodes : \A th \in threads[n] :
    Backed(th.call) /\ \A msg \in th.owed : Backed(msg)

Counted ==
  \A n \in Nodes, h \in Hashes :
    /\ \A q \in Prepares(pbft[n], h) : Remembers(q) => Known(pbft[q], h)
    /\ \A q \in Commits(pbft[n], h) : Remembers(q) => pbft[q].status[h] \in Moved

Quorums == \A n \in Nodes : QuorumsOf(pbft[n])

CertInv == NodeInv /\ Backing /\ Counted /\ Quorums

CertOK == Backing' /\ Counted' /\ Quorums'

EnginesAdvance ==
  \A s \in Nodes : Remembers(s) => Advances(pbft[s], pbft'[s])

LEMMA BackedStays ==
  ASSUME EnginesAdvance, NEW c \in Call, Backed(c)
  PROVE  Backed(c)'
BY CallFields DEF EnginesAdvance, Advances, Backed, Remembers

LEMMA Unmoved ==
  ASSUME UNCHANGED pbft
  PROVE  EnginesAdvance
BY DEF EnginesAdvance, Advances

LEMMA CountedStays ==
  ASSUME CertInv, UNCHANGED pbft
  PROVE  Counted' /\ Quorums'
BY DEF CertInv, Counted, Quorums, Prepares, Commits, QuorumsOf, Known

LEMMA FewerBacked ==
  ASSUME CertInv, EnginesAdvance, \A m \in Nodes : threads'[m] \subseteq threads[m]
  PROVE  Backing'
<1>1. ThreadsOK
  BY DEF CertInv, NodeInv
<1>2. ASSUME NEW m \in Nodes, NEW x \in threads[m]
      PROVE  Backed(x.call)' /\ \A msg \in x.owed : Backed(msg)'
  <2>1. x.call \in Call /\ x.owed \subseteq Call
    BY <1>1, ThreadCall DEF Call
  <2> QED
    BY <2>1, BackedStays DEF CertInv, Backing
<1> QED
  BY <1>2 DEF Backing

LEMMA FinishBacked ==
  ASSUME CertInv, EnginesAdvance, NEW n \in Nodes, NEW th \in threads[n], Finish(n, th)
  PROVE  Backing'
<1>1. ThreadsOK
  BY DEF CertInv, NodeInv
<1>2. ASSUME NEW m \in Nodes, NEW x \in threads[m]
      PROVE  Backed(x.call)' /\ \A msg \in x.owed : Backed(msg)'
  <2>1. x.call \in Call /\ x.owed \subseteq Call
    BY <1>1, ThreadCall DEF Call
  <2> QED
    BY <2>1, BackedStays DEF CertInv, Backing
<1>3. \A m \in Nodes : \A x \in threads'[m] :
        x \in threads[m] \/ \E msg \in th.owed : x = Receive(msg)
  BY <1>1, FinishThreads DEF ThreadsOK
<1>4. ASSUME NEW m \in Nodes, NEW x \in threads'[m]
      PROVE  Backed(x.call)' /\ \A msg \in x.owed : Backed(msg)'
  <2>1. CASE x \in threads[m]
    BY <1>2, <2>1
  <2>2. ASSUME NEW msg \in th.owed, x = Receive(msg)
        PROVE  Backed(x.call)' /\ \A y \in x.owed : Backed(y)'
    BY <1>2, <2>2 DEF Receive
  <2> QED
    BY <1>3, <2>1, <2>2
<1> QED
  BY <1>4 DEF Backing

LEMMA ContinueBacked ==
  ASSUME CertInv, EnginesAdvance, NEW n \in Nodes, NEW th \in threads[n],
         NEW call \in Call, NEW owes \in SUBSET Message, Continue(n, th, call, owes),
         Backed(call)', \A msg \in owes : Backed(msg)'
  PROVE  Backing'
<1>1. ThreadsOK
  BY DEF CertInv, NodeInv
<1>2. ASSUME NEW m \in Nodes, NEW x \in threads[m]
      PROVE  Backed(x.call)' /\ \A msg \in x.owed : Backed(msg)'
  <2>1. x.call \in Call /\ x.owed \subseteq Call
    BY <1>1, ThreadCall DEF Call
  <2> QED
    BY <2>1, BackedStays DEF CertInv, Backing
<1>3. \A m \in Nodes : \A x \in threads'[m] :
        x \in threads[m] \/ x = [call |-> call, owed |-> th.owed \cup owes]
  BY <1>1, ContinueThreads DEF ThreadsOK
<1>4. ASSUME NEW m \in Nodes, NEW x \in threads'[m]
      PROVE  Backed(x.call)' /\ \A msg \in x.owed : Backed(msg)'
  <2>1. CASE x \in threads[m]
    BY <1>2, <2>1
  <2>2. CASE x = [call |-> call, owed |-> th.owed \cup owes]
    <3>1. x.call = call /\ x.owed = th.owed \cup owes
      BY <2>2
    <3> QED
      BY <1>2, <3>1
  <2> QED
    BY <1>3, <2>1, <2>2
<1> QED
  BY <1>4 DEF Backing

\* A handler that moves the engine of n forward, counts at most the vote of the
\* message, and passes on a vote that it has earned.
LEMMA HandlerBacked ==
  ASSUME CertInv, NEW n \in Nodes, NEW th \in threads[n],
         NEW e \in Engine, pbft' = [pbft EXCEPT ![n] = e],
         Advances(pbft[n], e), QuorumsOf(e),
         \A g \in Hashes : \A q \in Prepares(e, g) :
           \/ q \in Prepares(pbft[n], g)
           \/ th.call.type = "PREPARE" /\ q = th.call.sender /\ g = th.call.block,
         \A g \in Hashes : \A q \in Commits(e, g) :
           \/ q \in Commits(pbft[n], g)
           \/ th.call.type = "COMMIT" /\ q = th.call.sender /\ g = th.call.block,
         NEW call \in Call, NEW owes \in SUBSET Message,
         \/ Finish(n, th)
         \/ Continue(n, th, call, owes) /\ Backed(call)' /\ \A msg \in owes : Backed(msg)'
  PROVE  CertOK
<1>1. ThreadsOK /\ ProtocolOK
  BY DEF CertInv, NodeInv
<1>2. pbft'[n] = e /\ \A m \in Nodes : m # n => pbft'[m] = pbft[m]
  BY <1>1 DEF ProtocolOK
<1>3. EnginesAdvance
  <2>1. \A m \in Nodes : Advances(pbft[m], pbft[m])
    BY DEF Advances
  <2> QED
    BY <1>2, <2>1 DEF EnginesAdvance
<1>4. Backing'
  BY <1>3, FinishBacked, ContinueBacked
<1>5. th.call \in Call /\ Backed(th.call)'
  BY <1>1, <1>3, ThreadCall, BackedStays DEF CertInv, Backing
<1>6. ASSUME NEW m \in Nodes, NEW h \in Hashes
      PROVE  /\ \A q \in Prepares(pbft[m], h) : Remembers(q) => Known(pbft'[q], h)
             /\ \A q \in Commits(pbft[m], h) : Remembers(q) => pbft'[q].status[h] \in Moved
  <2>1. Prepares(pbft[m], h) \subseteq Nodes /\ Commits(pbft[m], h) \subseteq Nodes
    BY <1>1 DEF ProtocolOK, Engine, Prepares, Commits
  <2> QED
    BY <1>3, <2>1 DEF EnginesAdvance, Advances, CertInv, Counted
<1>7. Counted'
  <2> SUFFICES ASSUME NEW m \in Nodes, NEW h \in Hashes
               PROVE  /\ \A q \in Prepares(pbft'[m], h) : Remembers(q) => Known(pbft'[q], h)
                      /\ \A q \in Commits(pbft'[m], h) :
                           Remembers(q) => pbft'[q].status[h] \in Moved
    BY DEF Counted, Prepares, Commits, Remembers, Known
  <2>1. CASE m # n
    BY <1>2, <1>6, <2>1
  <2>2. CASE m = n
    <3>1. ASSUME NEW q \in Prepares(e, h), Remembers(q) PROVE Known(pbft'[q], h)
      BY <1>5, <1>6, <3>1 DEF Backed, Known, Remembers
    <3>2. ASSUME NEW q \in Commits(e, h), Remembers(q) PROVE pbft'[q].status[h] \in Moved
      BY <1>5, <1>6, <3>2 DEF Backed, Remembers
    <3> QED
      BY <1>2, <2>2, <3>1, <3>2
  <2> QED
    BY <2>1, <2>2
<1>8. Quorums'
  <2>1. \A m \in Nodes : QuorumsOf(pbft'[m])
    BY <1>2 DEF CertInv, Quorums
  <2> QED
    BY <2>1 DEF Quorums, QuorumsOf
<1> QED
  BY <1>4, <1>7, <1>8 DEF CertOK

LEMMA OnPrePrepareBacked ==
  ASSUME CertInv, NEW n \in Nodes, NEW th \in threads[n], OnPrePrepare(n, th)
  PROVE  CertOK
<1> DEFINE h == th.call.block
           e == HandlePrePrepare(pbft[n], h)
           vote == Vote("PREPARE", n, h)
<1>1. th.call.type = "PRE-PREPARE" /\ pbft[n] \in Engine /\ QuorumsOf(pbft[n])
  BY DEF OnPrePrepare, CertInv, NodeInv, ProtocolOK, Quorums
<1>2. h \in Hashes
  BY <1>1, ThreadCall, CallFields DEF CertInv, NodeInv
<1>3. e \in Engine
  BY <1>1, <1>2, n \in Nodes, EngineTypes
<1>4. /\ Advances(pbft[n], e) /\ QuorumsOf(e) /\ Known(e, h)
      /\ \A g \in Hashes : Prepares(e, g) = Prepares(pbft[n], g)
                        /\ Commits(e, g) = Commits(pbft[n], g)
  BY <1>1, <1>2, PrePrepareStep
<1>5. vote \in Call /\ {vote} \in SUBSET Message
  BY <1>2, MadeCalls DEF Call
<1>6. pbft' = [pbft EXCEPT ![n] = e] /\ (Finish(n, th) \/ Continue(n, th, vote, {vote}))
  BY DEF OnPrePrepare
<1>7. Backed(vote)'
  <2>1. pbft'[n] = e
    BY <1>6 DEF CertInv, NodeInv, ProtocolOK
  <2> QED
    BY <1>4, <2>1 DEF Backed, Vote
<1>8. \A msg \in {vote} : Backed(msg)'
  BY <1>7
<1> HIDE DEF e, vote
<1> QED
  BY <1>3, <1>4, <1>5, <1>6, <1>7, <1>8, HandlerBacked

LEMMA OnPrepareBacked ==
  ASSUME CertInv, NEW n \in Nodes, NEW th \in threads[n], OnPrepare(n, th)
  PROVE  CertOK
<1> DEFINE h == th.call.block
           s == th.call.sender
           e == HandlePrepare(pbft[n], h, s)
           vote == Vote("COMMIT", n, h)
<1>1. th.call.type = "PREPARE" /\ pbft[n] \in Engine /\ QuorumsOf(pbft[n])
  BY DEF OnPrepare, CertInv, NodeInv, ProtocolOK, Quorums
<1>2. h \in Hashes /\ s \in Nodes
  BY <1>1, ThreadCall, CallFields DEF CertInv, NodeInv
<1>3. e \in Engine
  BY <1>1, <1>2, EngineTypes
<1>4. /\ Advances(pbft[n], e) /\ QuorumsOf(e)
      /\ ShouldCommit(pbft[n], h, s) => e.status[h] \in Moved
      /\ \A g \in Hashes :
           /\ Prepares(e, g) \subseteq Prepares(pbft[n], g) \cup IF g = h THEN {s} ELSE {}
           /\ Commits(e, g) = Commits(pbft[n], g)
  BY <1>1, <1>2, PrepareStep
<1>5. vote \in Call /\ {vote} \in SUBSET Message
  BY <1>2, MadeCalls DEF Call
<1>6. /\ pbft' = [pbft EXCEPT ![n] = e]
      /\ \/ Finish(n, th)
         \/ ShouldCommit(pbft[n], h, s) /\ Continue(n, th, vote, {vote})
  BY DEF OnPrepare
<1>7. ShouldCommit(pbft[n], h, s) => Backed(vote)'
  <2>1. pbft'[n] = e
    BY <1>6 DEF CertInv, NodeInv, ProtocolOK
  <2> QED
    BY <1>4, <2>1 DEF Backed, Vote
<1>8. ShouldCommit(pbft[n], h, s) => \A msg \in {vote} : Backed(msg)'
  BY <1>7
<1>9. \A g \in Hashes : \A q \in Prepares(e, g) :
        q \in Prepares(pbft[n], g) \/ (q = s /\ g = h)
  BY <1>4
<1> HIDE DEF e, vote
<1> QED
  BY <1>1, <1>3, <1>4, <1>5, <1>6, <1>7, <1>8, <1>9, HandlerBacked

LEMMA OnCommitBacked ==
  ASSUME CertInv, NEW n \in Nodes, NEW th \in threads[n], OnCommit(n, th)
  PROVE  CertOK
<1> DEFINE h == th.call.block
           s == th.call.sender
           e == HandleCommit(pbft[n], h, s)
           next == [type |-> "add_block", block |-> h]
<1>1. th.call.type = "COMMIT" /\ pbft[n] \in Engine /\ QuorumsOf(pbft[n])
  BY DEF OnCommit, CertInv, NodeInv, ProtocolOK, Quorums
<1>2. h \in Hashes /\ s \in Nodes
  BY <1>1, ThreadCall, CallFields DEF CertInv, NodeInv
<1>3. e \in Engine
  BY <1>1, <1>2, EngineTypes
<1>4. /\ Advances(pbft[n], e) /\ QuorumsOf(e)
      /\ \A g \in Hashes :
           /\ Prepares(e, g) = Prepares(pbft[n], g)
           /\ Commits(e, g) \subseteq Commits(pbft[n], g) \cup IF g = h THEN {s} ELSE {}
  BY <1>1, <1>2, CommitStep
<1>5. next \in Call /\ {} \in SUBSET Message
  BY <1>2, MadeCalls DEF Call
<1>6. pbft' = [pbft EXCEPT ![n] = e] /\ (Finish(n, th) \/ Continue(n, th, next, {}))
  BY DEF OnCommit
<1>7. Backed(next)'
  BY DEF Backed
<1>8. \A msg \in {} : Backed(msg)'
  OBVIOUS
<1>9. \A g \in Hashes : \A q \in Commits(e, g) :
        q \in Commits(pbft[n], g) \/ (q = s /\ g = h)
  BY <1>4
<1> HIDE DEF e, next
<1> QED
  BY <1>1, <1>3, <1>4, <1>5, <1>6, <1>7, <1>8, <1>9, HandlerBacked

\* Steps that are no votes.
LEMMA OthersBacked ==
  ASSUME CertInv, NEW n \in Nodes, NEW th \in threads[n],
         \/ OnTransaction(n, th) \/ PoolTransaction(n, th)
         \/ ProposeBlock(n, th) \/ CommitBlock(n, th)
  PROVE  CertOK
<1>1. UNCHANGED pbft
  BY DEF OnTransaction, PoolTransaction, ProposeBlock, CommitBlock, protocolVars
<1>2. EnginesAdvance /\ Counted' /\ Quorums'
  BY <1>1, Unmoved, CountedStays
<1>3. ASSUME NEW call \in Call, NEW owes \in SUBSET Message, Continue(n, th, call, owes),
             call.type \notin {"PREPARE", "COMMIT"},
             \A msg \in owes : msg.type \notin {"PREPARE", "COMMIT"}
      PROVE  Backing'
  <2>1. Backed(call)' /\ \A msg \in owes : Backed(msg)'
    BY <1>3 DEF Backed
  <2> QED
    BY <1>2, <1>3, <2>1, ContinueBacked
<1>4. CASE Finish(n, th)
  BY <1>2, <1>4, FinishBacked DEF CertOK
<1>5. ASSUME NEW t \in Txs, NEW kind \in {"add_transaction", "create_block"},
             Continue(n, th, [type |-> kind, tx |-> t], {})
      PROVE  CertOK
  <2> DEFINE call == [type |-> kind, tx |-> t]
  <2>1. call \in Call /\ call.type \notin {"PREPARE", "COMMIT"} /\ {} \in SUBSET Message
    BY MadeCalls DEF Call
  <2>2. Continue(n, th, call, {})
    BY <1>5
  <2> HIDE DEF call
  <2>3. Backing'
    BY <1>3, <2>1, <2>2
  <2> QED
    BY <1>2, <2>3 DEF CertOK
<1>6. ASSUME NEW h \in Hashes,
             Continue(n, th, Vote("PRE-PREPARE", n, h), {Vote("PRE-PREPARE", n, h)})
      PROVE  CertOK
  <2> DEFINE call == Vote("PRE-PREPARE", n, h)
  <2>1. call \in Call /\ {call} \in SUBSET Message /\ call.type \notin {"PREPARE", "COMMIT"}
    BY MadeCalls DEF Call, Vote
  <2>2. Continue(n, th, call, {call})
    BY <1>6
  <2> HIDE DEF call
  <2>3. Backing'
    BY <1>3, <2>1, <2>2
  <2> QED
    BY <1>2, <2>3 DEF CertOK
<1>7. th.call.type \in {"TRANSACTION", "add_transaction"} => th.call.tx \in Txs
  BY ThreadCall, CallFields DEF CertInv, NodeInv
<1>8. CASE OnTransaction(n, th)
  BY <1>4, <1>5, <1>7, <1>8 DEF OnTransaction
<1>9. CASE PoolTransaction(n, th)
  BY <1>4, <1>5, <1>7, <1>9 DEF PoolTransaction
<1>10. CASE ProposeBlock(n, th)
  BY <1>4, <1>6, <1>10 DEF ProposeBlock
<1>11. CASE CommitBlock(n, th)
  BY <1>4, <1>11 DEF CommitBlock
<1> QED
  BY <1>8, <1>9, <1>10, <1>11

LEMMA SubmitBacked ==
  ASSUME CertInv, NEW n \in Nodes, NEW t \in Txs, Submit(n, t)
  PROVE  CertOK
<1> DEFINE msg == Transaction(n, t)
           th == [call |-> msg, owed |-> {msg}]
<1>1. UNCHANGED pbft /\ threads' = [threads EXCEPT ![n] = @ \cup {th}]
  BY DEF Submit, protocolVars
<1>2. EnginesAdvance /\ Counted' /\ Quorums'
  BY <1>1, Unmoved, CountedStays
<1>3. Backed(msg)'
  BY DEF Backed, Transaction
<1>4. th.call = msg /\ th.owed = {msg}
  OBVIOUS
<1>5. ThreadsOK
  BY DEF CertInv, NodeInv
<1> HIDE DEF th, msg
<1>6. Backing'
  <2> SUFFICES ASSUME NEW m \in Nodes, NEW x \in threads'[m]
               PROVE  Backed(x.call)' /\ \A y \in x.owed : Backed(y)'
    BY DEF Backing
  <2>1. x \in threads[m] \/ x = th
    BY <1>1, <1>5 DEF ThreadsOK
  <2>2. CASE x \in threads[m]
    <3>1. x.call \in Call /\ x.owed \subseteq Call
      BY <1>5, <2>2, ThreadCall DEF Call
    <3> QED
      BY <1>2, <2>2, <3>1, BackedStays DEF CertInv, Backing
  <2>3. CASE x = th
    BY <1>3, <1>4, <2>3
  <2> QED
    BY <2>1, <2>2, <2>3
<1> QED
  BY <1>2, <1>6 DEF CertOK

LEMMA LossesBacked ==
  ASSUME CertInv, NEW n \in Nodes, Lose(n) \/ Crash(n)
  PROVE  CertOK
<1>1. UNCHANGED pbft
  BY DEF Lose, Crash, protocolVars
<1>2. EnginesAdvance /\ Counted' /\ Quorums'
  BY <1>1, Unmoved, CountedStays
<1>3. threads \in [Nodes -> SUBSET Thread]
  BY DEF CertInv, NodeInv, ThreadsOK
<1>4. CASE Lose(n)
  <2>1. \A m \in Nodes : threads'[m] \subseteq threads[m]
    BY <1>3, <1>4 DEF Lose
  <2> QED
    BY <1>2, <2>1, FewerBacked DEF CertOK
<1>5. CASE Crash(n)
  <2>1. InFlight(n) \subseteq threads[n]
    BY DEF InFlight
  <2>2. PICK unsent : threads' =
          [m \in Nodes |-> IF m = n THEN IF n \in MayRestart THEN InFlight(n) ELSE {}
                           ELSE {th \in threads[m] : <<m, th>> \notin unsent}]
    BY <1>5 DEF Crash
  <2>3. \A m \in Nodes : threads'[m] \subseteq threads[m]
    BY <2>1, <2>2
  <2> QED
    BY <1>2, <2>3, FewerBacked DEF CertOK
<1> QED
  BY <1>4, <1>5

\* A node that restarts does not remember, so nothing rests on it; it has counted
\* no vote.
LEMMA RestartBacked ==
  ASSUME CertInv, NEW n \in Nodes, Restart(n)
  PROVE  CertOK
<1>1. ThreadsOK /\ ProtocolOK
  BY DEF CertInv, NodeInv
<1>2. ~Remembers(n)
  BY DEF Restart, Remembers
<1>3. pbft'[n] = NewEngine /\ \A m \in Nodes : m # n => pbft'[m] = pbft[m]
  BY <1>1 DEF Restart, ProtocolOK
<1>4. EnginesAdvance
  <2>1. \A m \in Nodes : Advances(pbft[m], pbft[m])
    BY DEF Advances
  <2> QED
    BY <1>2, <1>3, <2>1 DEF EnginesAdvance
<1>5. \A m \in Nodes : threads'[m] \subseteq threads[m]
  <2>1. PICK unfailed \in SUBSET threads[n] : threads' = [threads EXCEPT ![n] = unfailed]
    BY DEF Restart
  <2> QED
    BY <1>1, <2>1 DEF ThreadsOK
<1>6. Counted'
  <2> SUFFICES ASSUME NEW m \in Nodes, NEW h \in Hashes
               PROVE  /\ \A q \in Prepares(pbft'[m], h) : Remembers(q) => Known(pbft'[q], h)
                      /\ \A q \in Commits(pbft'[m], h) :
                           Remembers(q) => pbft'[q].status[h] \in Moved
    BY DEF Counted, Prepares, Commits, Remembers, Known
  <2>1. CASE m = n
    BY <1>3, <2>1 DEF Prepares, Commits, NewEngine
  <2>2. CASE m # n
    <3>1. Prepares(pbft[m], h) \subseteq Nodes /\ Commits(pbft[m], h) \subseteq Nodes
      BY <1>1 DEF ProtocolOK, Engine, Prepares, Commits
    <3> QED
      BY <1>3, <1>4, <2>2, <3>1 DEF EnginesAdvance, Advances, CertInv, Counted
  <2> QED
    BY <2>1, <2>2
<1>7. Quorums'
  <2>1. QuorumsOf(NewEngine)
    BY DEF QuorumsOf, NewEngine, Moved
  <2>2. \A m \in Nodes : QuorumsOf(pbft'[m])
    BY <1>3, <2>1 DEF CertInv, Quorums
  <2> QED
    BY <2>2 DEF Quorums, QuorumsOf
<1> QED
  BY <1>4, <1>5, <1>6, <1>7, FewerBacked DEF CertOK

LEMMA CertInit == Init => CertInv
<1> SUFFICES ASSUME Init PROVE CertInv
  OBVIOUS
<1>1. pbft = [n \in Nodes |-> NewEngine] /\ threads = [n \in Nodes |-> {}]
  BY DEF Init
<1>2. Backing
  BY <1>1 DEF Backing
<1>3. Counted
  BY <1>1 DEF Counted, Prepares, Commits, NewEngine
<1>4. Quorums
  BY <1>1 DEF Quorums, QuorumsOf, NewEngine, Moved
<1> QED
  BY <1>2, <1>3, <1>4, InitOK DEF CertInv

LEMMA CertStep == CertInv /\ [Next]_vars => CertInv'
<1> SUFFICES ASSUME CertInv, [Next]_vars PROVE CertInv'
  OBVIOUS
<1>1. NodeInv'
  BY StepKeeps DEF CertInv
<1>2. CASE UNCHANGED vars
  <2>1. UNCHANGED <<pbft, threads>>
    BY <1>2 DEF vars
  <2>2. EnginesAdvance /\ Counted' /\ Quorums'
    BY <2>1, Unmoved, CountedStays
  <2>3. Backing'
    BY <2>1, <2>2, FewerBacked
  <2> QED
    BY <1>1, <2>2, <2>3 DEF CertInv
<1>3. ASSUME NEW n \in Nodes, Run(n) PROVE CertOK
  BY <1>3, OnPrePrepareBacked, OnPrepareBacked, OnCommitBacked, OthersBacked DEF Run, Step
<1>4. ASSUME NEW n \in Nodes,
             (\E t \in Txs : Submit(n, t)) \/ Lose(n) \/ Crash(n) \/ Restart(n)
      PROVE  CertOK
  BY <1>4, SubmitBacked, LossesBacked, RestartBacked
<1> QED
  BY <1>1, <1>2, <1>3, <1>4 DEF Next, CertInv, CertOK

LEMMA CertInvariant == Spec => []CertInv
BY CertInit, CertStep, PTL DEF Spec

(***************************************************************************)
(* A committed block carries the whole certificate (pbft.py:119-160): a    *)
(* quorum of COMMITs, each cast by a node that had its quorum of PREPAREs, *)
(* each cast by a node that had the proposal, for any number of nodes and  *)
(* faults.                                                                 *)
(***************************************************************************)
THEOREM EveryCommitIsCertified == Spec => []CommitCertificate
<1>1. CertInv => CommitCertificate
  <2> SUFFICES ASSUME CertInv, NEW n \in Nodes, NEW h \in Hashes, Committed(n, h)
               PROVE  /\ Cardinality(pbft[n].commit_votes[h]) >= 2 * f + 1
                      /\ \A q \in pbft[n].commit_votes[h] : Remembers(q) =>
                           /\ pbft[q].status[h] \in {"prepared", "committed"}
                           /\ Cardinality(pbft[q].prepare_votes[h]) >= 2 * f
                           /\ \A p \in pbft[q].prepare_votes[h] :
                                Remembers(p) => Known(pbft[p], h)
    BY DEF CommitCertificate
  <2>1. Cardinality(pbft[n].commit_votes[h]) >= 2 * f + 1
    BY DEF CertInv, Quorums, QuorumsOf, Committed
  <2>2. ASSUME NEW q \in pbft[n].commit_votes[h], Remembers(q)
        PROVE  /\ pbft[q].status[h] \in {"prepared", "committed"}
               /\ Cardinality(pbft[q].prepare_votes[h]) >= 2 * f
               /\ \A p \in pbft[q].prepare_votes[h] : Remembers(p) => Known(pbft[p], h)
    <3>1. q \in Nodes
      BY DEF CertInv, NodeInv, ProtocolOK, Engine
    <3>2. pbft[q].status[h] \in Moved
      BY <2>2 DEF CertInv, Counted, Commits
    <3> QED
      BY <3>1, <3>2 DEF CertInv, Quorums, QuorumsOf, Counted, Prepares, Moved
  <2> QED
    BY <2>1, <2>2
<1> QED
  BY <1>1, CertInvariant, PTL

-----------------------------------------------------------------------------
(***************************************************************************)
(* Any two COMMIT quorums have members in common: of 3f+1 nodes, f+1.      *)
(***************************************************************************)
LEMMA QuorumsMeet ==
  ASSUME NEW S \in SUBSET Nodes, NEW T \in SUBSET Nodes,
         Cardinality(S) >= 2 * f + 1, Cardinality(T) >= 2 * f + 1
  PROVE  Cardinality(S \cap T) + total_nodes >= 2 * (2 * f + 1)
<1>1. IsFiniteSet(S) /\ IsFiniteSet(T) /\ IsFiniteSet(S \cap T) /\ IsFiniteSet(S \cup T)
  BY NodesAssumption, FS_Subset
<1>2. Cardinality(S \cup T) <= total_nodes
  BY NodesAssumption, FS_Subset DEF total_nodes
<1>3. Cardinality(S \cup T) = Cardinality(S) + Cardinality(T) - Cardinality(S \cap T)
  BY <1>1, FS_Union
<1>4. /\ Cardinality(S) \in Nat /\ Cardinality(T) \in Nat
      /\ Cardinality(S \cap T) \in Nat /\ total_nodes \in Nat /\ f \in Int
  BY <1>1, NodesAssumption, FS_CardinalityType DEF total_nodes, f
<1> QED
  BY <1>2, <1>3, <1>4

(***************************************************************************)
(* Rival blocks do not commit by separate quorums (pbft.py:119, 150, which *)
(* look at one block each): behind any two committed blocks there are, of  *)
(* 3f+1 nodes, f+1 that cast COMMIT for both, and each of them that has    *)
(* not started over has prepared both.                                     *)
(***************************************************************************)
CommitsShareVoters ==
  \A n, m \in Nodes, h, k \in Hashes : Committed(n, h) /\ Committed(m, k) =>
    LET both == pbft[n].commit_votes[h] \cap pbft[m].commit_votes[k]
    IN  /\ Cardinality(both) + total_nodes >= 2 * (2 * f + 1)
        /\ \A q \in both : Remembers(q) =>
             {pbft[q].status[h], pbft[q].status[k]} \subseteq {"prepared", "committed"}

THEOREM RivalsShareVoters == Spec => []CommitsShareVoters
<1>1. TypeOK /\ CommitCertificate => CommitsShareVoters
  <2> SUFFICES ASSUME TypeOK, CommitCertificate, NEW n \in Nodes, NEW m \in Nodes,
                      NEW h \in Hashes, NEW k \in Hashes, Committed(n, h), Committed(m, k)
               PROVE  LET both == pbft[n].commit_votes[h] \cap pbft[m].commit_votes[k]
                      IN  /\ Cardinality(both) + total_nodes >= 2 * (2 * f + 1)
                          /\ \A q \in both : Remembers(q) =>
                               {pbft[q].status[h], pbft[q].status[k]}
                                 \subseteq {"prepared", "committed"}
    BY DEF CommitsShareVoters
  <2> DEFINE S == pbft[n].commit_votes[h]
             T == pbft[m].commit_votes[k]
  <2>1. Cardinality(S) >= 2 * f + 1 /\ Cardinality(T) >= 2 * f + 1
    BY DEF CommitCertificate
  <2>2. S \in SUBSET Nodes /\ T \in SUBSET Nodes
    BY DEF TypeOK, Engine
  <2>3. \A q \in S \cap T : Remembers(q) =>
          {pbft[q].status[h], pbft[q].status[k]} \subseteq {"prepared", "committed"}
    BY DEF CommitCertificate
  <2> HIDE DEF S, T
  <2>4. Cardinality(S \cap T) + total_nodes >= 2 * (2 * f + 1)
    BY <2>1, <2>2, QuorumsMeet
  <2> QED
    BY <2>3, <2>4 DEF S, T
<1> QED
  BY <1>1, TypeCorrect, EveryCommitIsCertified, PTL

-----------------------------------------------------------------------------
(***************************************************************************)
(* Decisions: what a node that runs all the time has to send is counted,   *)
(* or on its way, at every other such node; and a quorum that has not been *)
(* acted on waits for the node's own vote, which is coming.                *)
(***************************************************************************)
VoteKind == {"PRE-PREPARE", "PREPARE", "COMMIT"}

\* The votes that n has reason to send, and those that an engine has counted.
Cast(kind, n, h) ==
  \/ kind = "PRE-PREPARE" /\ n = LEADER_NODE /\ h \in DOMAIN blocks
  \/ kind = "PREPARE" /\ Known(pbft[n], h)
  \/ kind = "COMMIT" /\ pbft[n].status[h] \in Moved

Counts(e, kind, n, h) ==
  \/ kind = "PRE-PREPARE" /\ Known(e, h)
  \/ kind = "PREPARE" /\ n \in Prepares(e, h)
  \/ kind = "COMMIT" /\ n \in Commits(e, h)

\* A thread of m handles c next; or one of n will send it to m when it ends.
Coming(m, c) == \E th \in threads[m] : th.call = c
OnItsWay(n, m, c) == Coming(m, c) \/ (n # m /\ \E th \in threads[n] : c \in th.owed)

\* What is buffered is counted when the proposal is known.
Emptied(e) ==
  \A h \in Hashes : Known(e, h) => e.prepare_buffer[h] = {} /\ e.commit_buffer[h] = {}

\* A quorum is complete and has not been acted on.
Overdue(e, kind, h) ==
  \/ /\ kind = "PREPARE" /\ e.status[h] = "pending"
     /\ Cardinality(e.prepare_votes[h]) >= prepare_threshold
  \/ /\ kind = "COMMIT" /\ e.status[h] = "prepared"
     /\ Cardinality(e.commit_votes[h]) >= commit_threshold

Arrives ==
  \A n, m \in Steady, kind \in VoteKind, h \in Hashes :
    Cast(kind, n, h) => Counts(pbft[m], kind, n, h) \/ OnItsWay(n, m, Vote(kind, n, h))

Attends(n) ==
  /\ Emptied(pbft[n])
  /\ \A kind \in {"PREPARE", "COMMIT"}, h \in Hashes :
       Overdue(pbft[n], kind, h) => Coming(n, Vote(kind, n, h))

ReceivedOwesNothing == \A n \in Nodes : \A th \in InFlight(n) : th.owed = {}

DecisionInv ==
  /\ NodeInv
  /\ ReceivedOwesNothing
  /\ Steady \subseteq up
  /\ \A n \in Steady : Attends(n)
  /\ lost = 0 => Arrives

-----------------------------------------------------------------------------
(***************************************************************************)
(* What handling a message does to an engine: no vote is forgotten, the    *)
(* vote it carries is counted, the quorum it belongs to is not left        *)
(* overdue, and the status moves only if the handler says which vote to    *)
(* cast next.                                                              *)
(***************************************************************************)
KeepsVotes(e, new) ==
  \A g \in Hashes :
    /\ Known(e, g) => Known(new, g)
    /\ Prepares(e, g) \subseteq Prepares(new, g)
    /\ Commits(e, g) \subseteq Commits(new, g)

Effect(e, new, kind, s, h, next) ==
  /\ KeepsVotes(e, new) /\ Emptied(new) /\ Counts(new, kind, s, h)
  /\ \A k \in {"PREPARE", "COMMIT"}, g \in Hashes :
       Overdue(new, k, g) =>
         \/ Overdue(e, k, g) /\ ~(k = kind /\ g = h)
         \/ k = next /\ g = h
  /\ \A g \in Hashes :
       /\ Known(new, g) => Known(e, g) \/ (next = "PREPARE" /\ g = h)
       /\ new.status[g] \in Moved => e.status[g] \in Moved \/ (next = "COMMIT" /\ g = h)

LEMMA PrePrepareEffect ==
  ASSUME NEW e \in Engine, NEW h \in Hashes, NEW s \in Nodes, Emptied(e),
         NEW next, ShouldPrepare(e, h) => next = "PREPARE"
  PROVE  Effect(e, HandlePrePrepare(e, h), "PRE-PREPARE", s, h, next)
<1> DEFINE new == HandlePrePrepare(e, h)
<1>1. CASE Known(e, h)
  <2>1. new = e
    BY <1>1 DEF HandlePrePrepare, ShouldPrepare
  <2> HIDE DEF new
  <2> QED
    BY <1>1, <2>1 DEF Effect, KeepsVotes, Counts, new
<1>2. CASE ~Known(e, h)
  <2>1. new = [e EXCEPT !.status[h] = "pending",
                        !.prepare_votes[h] = @ \cup e.prepare_buffer[h],
                        !.commit_votes[h] = @ \cup e.commit_buffer[h],
                        !.prepare_buffer[h] = {},
                        !.commit_buffer[h] = {}]
    BY <1>2 DEF HandlePrePrepare, ShouldPrepare
  <2>2. \A g \in Hashes :
          /\ new.status[g] = IF g = h THEN "pending" ELSE e.status[g]
          /\ new.prepare_votes[g] = IF g = h THEN Prepares(e, h) ELSE e.prepare_votes[g]
          /\ new.commit_votes[g] = IF g = h THEN Commits(e, h) ELSE e.commit_votes[g]
          /\ new.prepare_buffer[g] = IF g = h THEN {} ELSE e.prepare_buffer[g]
          /\ new.commit_buffer[g] = IF g = h THEN {} ELSE e.commit_buffer[g]
    BY <2>1 DEF Engine, Prepares, Commits
  <2>3. next = "PREPARE"
    BY <1>2 DEF ShouldPrepare
  <2> HIDE DEF new
  <2>4. KeepsVotes(e, new)
    BY <2>2 DEF KeepsVotes, Known, Prepares, Commits
  <2>5. Emptied(new) /\ Counts(new, "PRE-PREPARE", s, h)
    BY <2>2 DEF Emptied, Known, Counts
  <2>6. ASSUME NEW k \in {"PREPARE", "COMMIT"}, NEW g \in Hashes, Overdue(new, k, g)
        PROVE  (Overdue(e, k, g) /\ k # "PRE-PREPARE") \/ (k = next /\ g = h)
    BY <2>2, <2>3, <2>6 DEF Overdue
  <2>7. ASSUME NEW g \in Hashes
        PROVE  /\ Known(new, g) => Known(e, g) \/ (next = "PREPARE" /\ g = h)
               /\ new.status[g] \in Moved => e.status[g] \in Moved
    BY <2>2, <2>3 DEF Known, Moved
  <2> QED
    BY <2>4, <2>5, <2>6, <2>7 DEF Effect, new
<1> QED
  BY <1>1, <1>2

LEMMA PrepareEffect ==
  ASSUME NEW e \in Engine, NEW h \in Hashes, NEW s \in Nodes, Emptied(e),
         NEW next, ShouldCommit(e, h, s) => next = "COMMIT"
  PROVE  Effect(e, HandlePrepare(e, h, s), "PREPARE", s, h, next)
<1> DEFINE new == HandlePrepare(e, h, s)
           votes == e.prepare_votes[h] \cup {s}
<1>1. CASE ~Known(e, h)
  <2>1. new = [e EXCEPT !.prepare_buffer[h] = @ \cup {s}]
    BY <1>1 DEF HandlePrepare
  <2>2. /\ new.status = e.status /\ new.prepare_votes = e.prepare_votes
        /\ new.commit_votes = e.commit_votes /\ new.commit_buffer = e.commit_buffer
        /\ \A g \in Hashes : new.prepare_buffer[g] =
             IF g = h THEN e.prepare_buffer[h] \cup {s} ELSE e.prepare_buffer[g]
    BY <2>1 DEF Engine
  <2> HIDE DEF new
  <2>3. KeepsVotes(e, new)
    BY <2>2 DEF KeepsVotes, Known, Prepares, Commits
  <2>4. Emptied(new) /\ Counts(new, "PREPARE", s, h)
    BY <1>1, <2>2 DEF Emptied, Known, Counts, Prepares
  <2>5. ASSUME NEW k \in {"PREPARE", "COMMIT"}, NEW g \in Hashes, Overdue(new, k, g)
        PROVE  Overdue(e, k, g) /\ ~(k = "PREPARE" /\ g = h)
    BY <1>1, <2>2, <2>5 DEF Overdue, Known
  <2>6. \A g \in Hashes : /\ Known(new, g) => Known(e, g)
                          /\ new.status[g] \in Moved => e.status[g] \in Moved
    BY <2>2 DEF Known
  <2> QED
    BY <2>3, <2>4, <2>5, <2>6 DEF Effect, new
<1>2. CASE Known(e, h)
  <2>1. new = [e EXCEPT !.prepare_votes[h] = @ \cup {s},
                        !.status[h] = IF ShouldCommit(e, h, s) THEN "prepared" ELSE @]
    BY <1>2 DEF HandlePrepare
  <2>2. /\ new.prepare_buffer = e.prepare_buffer
        /\ new.commit_votes = e.commit_votes /\ new.commit_buffer = e.commit_buffer
        /\ \A g \in Hashes :
             /\ new.prepare_votes[g] = IF g = h THEN votes ELSE e.prepare_votes[g]
             /\ new.status[g] = IF g = h /\ ShouldCommit(e, h, s)
                                THEN "prepared" ELSE e.status[g]
    BY <2>1 DEF Engine
  <2> HIDE DEF new, votes
  <2>3. e.prepare_votes[h] \subseteq votes /\ s \in votes
    BY DEF votes
  <2>4. ShouldCommit(e, h, s) <=>
          e.status[h] = "pending" /\ Cardinality(votes) >= prepare_threshold
    BY DEF ShouldCommit, votes
  <2>5. KeepsVotes(e, new)
    BY <2>2, <2>3, <2>4 DEF KeepsVotes, Known, Prepares, Commits
  <2>6. Emptied(new) /\ Counts(new, "PREPARE", s, h)
    BY <1>2, <2>2, <2>3, <2>4 DEF Emptied, Known, Counts, Prepares
  <2>7. ASSUME NEW k \in {"PREPARE", "COMMIT"}, NEW g \in Hashes, Overdue(new, k, g)
        PROVE  \/ Overdue(e, k, g) /\ ~(k = "PREPARE" /\ g = h)
               \/ k = next /\ g = h
    <3>1. CASE g # h
      BY <2>2, <2>7, <3>1 DEF Overdue
    <3>2. CASE g = h
      BY <2>2, <2>4, <2>7, <3>2 DEF Overdue
    <3> QED
      BY <3>1, <3>2
  <2>8. ASSUME NEW g \in Hashes
        PROVE  /\ Known(new, g) => Known(e, g)
               /\ new.status[g] \in Moved =>
                    e.status[g] \in Moved \/ (next = "COMMIT" /\ g = h)
    BY <1>2, <2>2 DEF Known
  <2> QED
    BY <2>5, <2>6, <2>7, <2>8 DEF Effect, new
<1> QED
  BY <1>1, <1>2

LEMMA CommitEffect ==
  ASSUME NEW e \in Engine, NEW h \in Hashes, NEW s \in Nodes, Emptied(e), NEW next
  PROVE  Effect(e, HandleCommit(e, h, s), "COMMIT", s, h, next)
<1> DEFINE new == HandleCommit(e, h, s)
           votes == e.commit_votes[h] \cup {s}
<1>1. CASE ~Known(e, h)
  <2>1. new = [e EXCEPT !.commit_buffer[h] = @ \cup {s}]
    BY <1>1 DEF HandleCommit
  <2>2. /\ new.status = e.status /\ new.prepare_votes = e.prepare_votes
        /\ new.commit_votes = e.commit_votes /\ new.prepare_buffer = e.prepare_buffer
        /\ \A g \in Hashes : new.commit_buffer[g] =
             IF g = h THEN e.commit_buffer[h] \cup {s} ELSE e.commit_buffer[g]
    BY <2>1 DEF Engine
  <2> HIDE DEF new
  <2>3. KeepsVotes(e, new)
    BY <2>2 DEF KeepsVotes, Known, Prepares, Commits
  <2>4. Emptied(new) /\ Counts(new, "COMMIT", s, h)
    BY <1>1, <2>2 DEF Emptied, Known, Counts, Commits
  <2>5. ASSUME NEW k \in {"PREPARE", "COMMIT"}, NEW g \in Hashes, Overdue(new, k, g)
        PROVE  Overdue(e, k, g) /\ ~(k = "COMMIT" /\ g = h)
    BY <1>1, <2>2, <2>5 DEF Overdue, Known
  <2>6. \A g \in Hashes : /\ Known(new, g) => Known(e, g)
                          /\ new.status[g] \in Moved => e.status[g] \in Moved
    BY <2>2 DEF Known
  <2> QED
    BY <2>3, <2>4, <2>5, <2>6 DEF Effect, new
<1>2. CASE Known(e, h)
  <2>1. new = [e EXCEPT !.commit_votes[h] = @ \cup {s},
                        !.status[h] = IF ShouldAdd(e, h, s) THEN "committed" ELSE @]
    BY <1>2 DEF HandleCommit
  <2>2. /\ new.prepare_votes = e.prepare_votes
        /\ new.prepare_buffer = e.prepare_buffer /\ new.commit_buffer = e.commit_buffer
        /\ \A g \in Hashes :
             /\ new.commit_votes[g] = IF g = h THEN votes ELSE e.commit_votes[g]
             /\ new.status[g] = IF g = h /\ ShouldAdd(e, h, s)
                                THEN "committed" ELSE e.status[g]
    BY <2>1 DEF Engine
  <2> HIDE DEF new, votes
  <2>3. e.commit_votes[h] \subseteq votes /\ s \in votes
    BY DEF votes
  <2>4. ShouldAdd(e, h, s) <=>
          e.status[h] = "prepared" /\ Cardinality(votes) >= commit_threshold
    BY DEF ShouldAdd, votes
  <2>5. KeepsVotes(e, new)
    BY <2>2, <2>3, <2>4 DEF KeepsVotes, Known, Prepares, Commits
  <2>6. Emptied(new) /\ Counts(new, "COMMIT", s, h)
    BY <1>2, <2>2, <2>3, <2>4 DEF Emptied, Known, Counts, Commits
  <2>7. ASSUME NEW k \in {"PREPARE", "COMMIT"}, NEW g \in Hashes, Overdue(new, k, g)
        PROVE  Overdue(e, k, g) /\ ~(k = "COMMIT" /\ g = h)
    <3>1. CASE g # h
      BY <2>2, <2>7, <3>1 DEF Overdue
    <3>2. CASE g = h
      BY <2>2, <2>4, <2>7, <3>2 DEF Overdue
    <3> QED
      BY <3>1, <3>2
  <2>8. ASSUME NEW g \in Hashes
        PROVE  /\ Known(new, g) => Known(e, g)
               /\ new.status[g] \in Moved => e.status[g] \in Moved
    BY <1>2, <2>2, <2>4 DEF Known, Moved
  <2> QED
    BY <2>5, <2>6, <2>7, <2>8 DEF Effect, new
<1> QED
  BY <1>1, <1>2

-----------------------------------------------------------------------------
(***************************************************************************)
(* What a step does to the votes that are on their way.                    *)
(***************************************************************************)
\* A thread ends, or goes on to a call of its own node.
Proceeds(n, th) ==
  \/ Finish(n, th)
  \/ \E call \in Call, owes \in SUBSET Message :
       /\ Continue(n, th, call, owes)
       /\ call.type \in MessageType => call.sender = n

LEMMA ContinueHolds ==
  ASSUME threads \in [Nodes -> SUBSET Thread], NEW n \in Nodes, NEW th \in threads[n],
         NEW call, NEW owes, Continue(n, th, call, owes)
  PROVE  /\ [call |-> call, owed |-> th.owed \cup owes] \in threads'[n]
         /\ \A m \in Nodes : \A x \in threads[m] : ~(m = n /\ x = th) => x \in threads'[m]
<1>1. threads'[n] = (threads[n] \ {th}) \cup {[call |-> call, owed |-> th.owed \cup owes]}
  BY DEF Continue
<1>2. \A m \in Nodes : m # n => threads'[m] = threads[m]
  BY DEF Continue
<1> QED
  BY <1>1, <1>2

LEMMA FinishHolds ==
  ASSUME threads \in [Nodes -> SUBSET Thread], NEW n \in Nodes, NEW th \in threads[n],
         Finish(n, th)
  PROVE  /\ \A m \in Nodes : m # n /\ m \in up => \A msg \in th.owed : Receive(msg) \in threads'[m]
         /\ \A m \in Nodes : \A x \in threads[m] : ~(m = n /\ x = th) => x \in threads'[m]
BY DEF Finish

\* A thread that proceeds takes nothing off the way but what it has handled.
LEMMA StillComing ==
  ASSUME threads \in [Nodes -> SUBSET Thread],
         NEW n \in Nodes, NEW th \in threads[n], Proceeds(n, th),
         NEW m \in Nodes, NEW c, Coming(m, c), ~(m = n /\ th.call = c)
  PROVE  Coming(m, c)'
<1>1. PICK x \in threads[m] : x.call = c
  BY DEF Coming
<1>2. ~(m = n /\ x = th)
  BY <1>1
<1>3. x \in threads'[m]
  BY <1>2, ContinueHolds, FinishHolds DEF Proceeds
<1> QED
  BY <1>1, <1>3 DEF Coming

LEMMA StillOnItsWay ==
  ASSUME threads \in [Nodes -> SUBSET Thread], Steady \subseteq up,
         NEW n \in Nodes, NEW th \in threads[n], Proceeds(n, th),
         NEW q \in Steady, NEW m \in Steady, NEW c,
         OnItsWay(q, m, c), ~(m = n /\ th.call = c)
  PROVE  OnItsWay(q, m, c)'
<1>1. q \in Nodes /\ m \in Nodes /\ m \in up
  BY DEF Steady
<1>2. CASE Coming(m, c)
  BY <1>1, <1>2, StillComing DEF OnItsWay
<1>3. CASE q # m /\ \E x \in threads[q] : c \in x.owed
  <2>1. PICK x \in threads[q] : c \in x.owed
    BY <1>3
  <2>2. CASE ~(q = n /\ x = th)
    <3>1. x \in threads'[q]
      BY <1>1, <2>2, ContinueHolds, FinishHolds DEF Proceeds
    <3> QED
      BY <1>3, <2>1, <3>1 DEF OnItsWay
  <2>3. CASE q = n /\ x = th
    <3>1. CASE Finish(n, th)
      <4>1. Receive(c) \in threads'[m]
        BY <1>1, <1>3, <2>1, <2>3, <3>1, FinishHolds
      <4> QED
        BY <4>1 DEF Receive, OnItsWay, Coming
    <3>2. ASSUME NEW call \in Call, NEW owes \in SUBSET Message, Continue(n, th, call, owes)
          PROVE  OnItsWay(q, m, c)'
      <4> DEFINE y == [call |-> call, owed |-> th.owed \cup owes]
      <4>1. y \in threads'[q]
        BY <2>3, <3>2, ContinueHolds
      <4>2. c \in y.owed
        BY <2>1, <2>3
      <4> HIDE DEF y
      <4> QED
        BY <1>3, <4>1, <4>2 DEF OnItsWay
    <3> QED
      BY <3>1, <3>2 DEF Proceeds
  <2> QED
    BY <2>2, <2>3
<1> QED
  BY <1>2, <1>3 DEF OnItsWay

\* A vote that a thread casts is handled by its own node next, and on its way to
\* the others.
LEMMA VoteLeaves ==
  ASSUME threads \in [Nodes -> SUBSET Thread], NEW n \in Nodes, NEW th \in threads[n],
         NEW vote, Continue(n, th, vote, {vote}), NEW m
  PROVE  Coming(n, vote)' /\ OnItsWay(n, m, vote)'
<1> DEFINE x == [call |-> vote, owed |-> th.owed \cup {vote}]
<1>1. x \in threads'[n] /\ x.call = vote /\ vote \in x.owed
  BY ContinueHolds
<1> HIDE DEF x
<1> QED
  BY <1>1 DEF Coming, OnItsWay

DecisionOK ==
  /\ \A n \in Steady : Attends(n)'
  /\ lost' = 0 => Arrives'

\* Handling a message: what was on its way to the node is now counted there, and
\* what its new status gives it reason to send is sent.
LEMMA HandlerDecides ==
  ASSUME DecisionInv, NEW n \in Nodes, NEW th \in threads[n], Proceeds(n, th),
         NEW kind \in VoteKind, NEW s \in Nodes, NEW h \in Hashes,
         th.call.type = kind, th.call.sender = s, th.call.block = h,
         NEW e, pbft' = [pbft EXCEPT ![n] = e],
         NEW next, n \in Steady => Effect(pbft[n], e, kind, s, h, next),
         next \in {"PREPARE", "COMMIT"} =>
           Continue(n, th, Vote(next, n, h), {Vote(next, n, h)}),
         blocks' = blocks, lost' = lost
  PROVE  DecisionOK
<1>1. threads \in [Nodes -> SUBSET Thread] /\ Steady \subseteq up /\ Steady \subseteq Nodes
  BY DEF DecisionInv, NodeInv, ThreadsOK, Steady
<1>2. pbft'[n] = e /\ \A m \in Nodes : m # n => pbft'[m] = pbft[m]
  BY DEF DecisionInv, NodeInv, ProtocolOK
<1>3. \A k, q, g : th.call = Vote(k, q, g) => k = kind /\ q = s /\ g = h
  BY DEF Vote
<1>4. ASSUME NEW m \in Steady PROVE Attends(m)'
  <2>1. Attends(m) /\ m \in Nodes
    BY <1>1 DEF DecisionInv
  <2>2. Emptied(pbft'[m])
    BY <1>2, <2>1 DEF Effect, Attends
  <2>3. ASSUME NEW k \in {"PREPARE", "COMMIT"}, NEW g \in Hashes, Overdue(pbft'[m], k, g)
        PROVE  Coming(m, Vote(k, m, g))'
    <3>1. CASE m = n /\ k = next /\ g = h
      BY <1>1, <3>1, VoteLeaves
    <3>2. CASE ~(m = n /\ k = next /\ g = h)
      <4>1. Overdue(pbft[m], k, g) /\ ~(m = n /\ k = kind /\ g = h)
        BY <1>2, <2>1, <2>3, <3>2 DEF Effect
      <4>2. Coming(m, Vote(k, m, g))
        BY <2>1, <4>1 DEF Attends
      <4>3. ~(m = n /\ th.call = Vote(k, m, g))
        BY <1>3, <4>1
      <4> QED
        BY <1>1, <2>1, <4>2, <4>3, StillComing
    <3> QED
      BY <3>1, <3>2
  <2> QED
    BY <2>2, <2>3 DEF Attends, Emptied, Overdue, Known
<1>5. ASSUME lost = 0, NEW q \in Steady, NEW m \in Steady,
             NEW k \in VoteKind, NEW g \in Hashes, Cast(k, q, g)'
      PROVE  Counts(pbft'[m], k, q, g) \/ OnItsWay(q, m, Vote(k, q, g))'
  <2>1. q \in Nodes /\ m \in Nodes
    BY <1>1
  <2>2. CASE Cast(k, q, g)
    <3>1. Counts(pbft[m], k, q, g) \/ OnItsWay(q, m, Vote(k, q, g))
      BY <1>5, <2>2 DEF DecisionInv, Arrives
    <3>2. CASE Counts(pbft[m], k, q, g)
      BY <1>2, <2>1, <3>2 DEF Effect, KeepsVotes, Counts
    <3>3. CASE OnItsWay(q, m, Vote(k, q, g)) /\ ~(m = n /\ th.call = Vote(k, q, g))
      BY <1>1, <3>3, StillOnItsWay
    <3>4. CASE m = n /\ th.call = Vote(k, q, g)
      BY <1>2, <1>3, <3>4 DEF Effect
    <3> QED
      BY <3>1, <3>2, <3>3, <3>4
  <2>3. CASE ~Cast(k, q, g)
    <3>1. q = n /\ k = next /\ g = h
      BY <1>2, <1>5, <2>1, <2>3 DEF Cast, Effect, Known
    <3>2. k \in {"PREPARE", "COMMIT"}
      BY <1>5, <2>3 DEF Cast, VoteKind
    <3> QED
      BY <1>1, <3>1, <3>2, VoteLeaves
  <2> QED
    BY <2>2, <2>3
<1>6. lost = 0 => Arrives'
  BY <1>5 DEF Arrives, Cast, Counts, Known, Prepares, Commits
<1> QED
  BY <1>4, <1>6 DEF DecisionOK

LEMMA StepProceeds ==
  ASSUME NodeInv, NEW n \in Nodes, NEW th \in threads[n], Step(n, th)
  PROVE  Proceeds(n, th)
<1>1. /\ th.call \in Call
      /\ th.call.type \in {"TRANSACTION", "add_transaction"} => th.call.tx \in Txs
      /\ th.call.type \in BlockCall => th.call.block \in Hashes
  BY ThreadCall, CallFields DEF NodeInv, BlockCall
<1>2. ASSUME NEW t \in Txs, NEW kind \in {"add_transaction", "create_block"},
             Continue(n, th, [type |-> kind, tx |-> t], {})
      PROVE  Proceeds(n, th)
  <2> DEFINE call == [type |-> kind, tx |-> t]
  <2>1. call \in Call /\ call.type \notin MessageType /\ {} \in SUBSET Message
    BY MadeCalls DEF Call, MessageType
  <2>2. Continue(n, th, call, {})
    BY <1>2
  <2> HIDE DEF call
  <2> QED
    BY <2>1, <2>2 DEF Proceeds
<1>3. ASSUME NEW h \in Hashes, Continue(n, th, [type |-> "add_block", block |-> h], {})
      PROVE  Proceeds(n, th)
  <2> DEFINE call == [type |-> "add_block", block |-> h]
  <2>1. call \in Call /\ call.type \notin MessageType /\ {} \in SUBSET Message
    BY MadeCalls DEF Call, MessageType
  <2>2. Continue(n, th, call, {})
    BY <1>3
  <2> HIDE DEF call
  <2> QED
    BY <2>1, <2>2 DEF Proceeds
<1>4. ASSUME NEW h \in Hashes, NEW kind \in VoteKind,
             Continue(n, th, Vote(kind, n, h), {Vote(kind, n, h)})
      PROVE  Proceeds(n, th)
  <2> DEFINE call == Vote(kind, n, h)
  <2>1. call \in Call /\ call.sender = n /\ {call} \in SUBSET Message
    BY MadeCalls DEF Call, VoteKind, Vote
  <2>2. Continue(n, th, call, {call})
    BY <1>4
  <2> HIDE DEF call
  <2> QED
    BY <2>1, <2>2 DEF Proceeds
<1>5. CASE Finish(n, th)
  BY <1>5 DEF Proceeds
<1>6. CASE OnTransaction(n, th)
  BY <1>1, <1>2, <1>5, <1>6 DEF OnTransaction
<1>7. CASE PoolTransaction(n, th)
  BY <1>1, <1>2, <1>5, <1>7 DEF PoolTransaction
<1>8. CASE ProposeBlock(n, th)
  BY <1>4, <1>5, <1>8 DEF ProposeBlock, VoteKind
<1>9. CASE OnPrePrepare(n, th)
  BY <1>1, <1>4, <1>5, <1>9 DEF OnPrePrepare, VoteKind, BlockCall
<1>10. CASE OnPrepare(n, th)
  BY <1>1, <1>4, <1>5, <1>10 DEF OnPrepare, VoteKind, BlockCall
<1>11. CASE OnCommit(n, th)
  BY <1>1, <1>3, <1>5, <1>11 DEF OnCommit, BlockCall
<1>12. CASE CommitBlock(n, th)
  BY <1>5, <1>12 DEF CommitBlock
<1> QED
  BY <1>6, <1>7, <1>8, <1>9, <1>10, <1>11, <1>12 DEF Step

LEMMA OnPrePrepareDecides ==
  ASSUME DecisionInv, NEW n \in Nodes, NEW th \in threads[n], OnPrePrepare(n, th), lost' = lost
  PROVE  DecisionOK
<1> DEFINE h == th.call.block
           s == th.call.sender
           e == HandlePrePrepare(pbft[n], h)
           next == IF ShouldPrepare(pbft[n], h) THEN "PREPARE" ELSE "none"
<1>1. th.call.type = "PRE-PREPARE" /\ pbft[n] \in Engine
  BY DEF OnPrePrepare, DecisionInv, NodeInv, ProtocolOK
<1>2. h \in Hashes /\ s \in Nodes
  BY <1>1, ThreadCall, CallFields DEF DecisionInv, NodeInv
<1>3. n \in Steady => Emptied(pbft[n])
  BY DEF DecisionInv, Attends
<1>4. n \in Steady => Effect(pbft[n], e, "PRE-PREPARE", s, h, next)
  <2>1. ShouldPrepare(pbft[n], h) => next = "PREPARE"
    OBVIOUS
  <2> HIDE DEF h, s, next
  <2> QED
    BY <1>1, <1>2, <1>3, <2>1, PrePrepareEffect
<1>5. Proceeds(n, th)
  BY StepProceeds DEF DecisionInv, Step
<1>6. /\ pbft' = [pbft EXCEPT ![n] = e] /\ blocks' = blocks
      /\ next \in {"PREPARE", "COMMIT"} => Continue(n, th, Vote(next, n, h), {Vote(next, n, h)})
  BY DEF OnPrePrepare, ledgerVars
<1> HIDE DEF h, s, e, next
<1> QED
  BY <1>1, <1>2, <1>4, <1>5, <1>6, HandlerDecides DEF VoteKind, h, s

LEMMA OnPrepareDecides ==
  ASSUME DecisionInv, NEW n \in Nodes, NEW th \in threads[n], OnPrepare(n, th), lost' = lost
  PROVE  DecisionOK
<1> DEFINE h == th.call.block
           s == th.call.sender
           e == HandlePrepare(pbft[n], h, s)
           next == IF ShouldCommit(pbft[n], h, s) THEN "COMMIT" ELSE "none"
<1>1. th.call.type = "PREPARE" /\ pbft[n] \in Engine
  BY DEF OnPrepare, DecisionInv, NodeInv, ProtocolOK
<1>2. h \in Hashes /\ s \in Nodes
  BY <1>1, ThreadCall, CallFields DEF DecisionInv, NodeInv
<1>3. n \in Steady => Emptied(pbft[n])
  BY DEF DecisionInv, Attends
<1>4. n \in Steady => Effect(pbft[n], e, "PREPARE", s, h, next)
  <2>1. ShouldCommit(pbft[n], h, s) => next = "COMMIT"
    OBVIOUS
  <2> HIDE DEF h, s, next
  <2> QED
    BY <1>1, <1>2, <1>3, <2>1, PrepareEffect
<1>5. Proceeds(n, th)
  BY StepProceeds DEF DecisionInv, Step
<1>6. /\ pbft' = [pbft EXCEPT ![n] = e] /\ blocks' = blocks
      /\ next \in {"PREPARE", "COMMIT"} => Continue(n, th, Vote(next, n, h), {Vote(next, n, h)})
  BY DEF OnPrepare, ledgerVars
<1> HIDE DEF h, s, e, next
<1> QED
  BY <1>1, <1>2, <1>4, <1>5, <1>6, HandlerDecides DEF VoteKind, h, s

LEMMA OnCommitDecides ==
  ASSUME DecisionInv, NEW n \in Nodes, NEW th \in threads[n], OnCommit(n, th), lost' = lost
  PROVE  DecisionOK
<1> DEFINE h == th.call.block
           s == th.call.sender
           e == HandleCommit(pbft[n], h, s)
<1>1. th.call.type = "COMMIT" /\ pbft[n] \in Engine
  BY DEF OnCommit, DecisionInv, NodeInv, ProtocolOK
<1>2. h \in Hashes /\ s \in Nodes
  BY <1>1, ThreadCall, CallFields DEF DecisionInv, NodeInv
<1>3. n \in Steady => Emptied(pbft[n])
  BY DEF DecisionInv, Attends
<1>4. n \in Steady => Effect(pbft[n], e, "COMMIT", s, h, "none")
  <2> HIDE DEF h, s
  <2> QED
    BY <1>1, <1>2, <1>3, CommitEffect
<1>5. Proceeds(n, th)
  BY StepProceeds DEF DecisionInv, Step
<1>6. pbft' = [pbft EXCEPT ![n] = e] /\ blocks' = blocks
  BY DEF OnCommit, ledgerVars
<1> HIDE DEF h, s, e
<1> QED
  BY <1>1, <1>2, <1>4, <1>5, <1>6, HandlerDecides DEF VoteKind, h, s

\* Steps of threads that handle no vote: at most they make a proposal, and send it.
LEMMA QuietDecides ==
  ASSUME DecisionInv, NEW n \in Nodes, NEW th \in threads[n], Proceeds(n, th),
         th.call.type \notin VoteKind, UNCHANGED <<pbft, lost>>,
         \A h \in Hashes :
           \/ h \in DOMAIN blocks' => h \in DOMAIN blocks
           \/ /\ n = LEADER_NODE
              /\ Continue(n, th, Vote("PRE-PREPARE", n, h), {Vote("PRE-PREPARE", n, h)})
  PROVE  DecisionOK
<1>1. threads \in [Nodes -> SUBSET Thread] /\ Steady \subseteq up /\ Steady \subseteq Nodes
  BY DEF DecisionInv, NodeInv, ThreadsOK, Steady
<1>2. \A k \in VoteKind : \A q, g : th.call # Vote(k, q, g)
  BY DEF Vote
<1>3. ASSUME NEW m \in Steady PROVE Attends(m)'
  <2>1. Attends(m) /\ m \in Nodes
    BY <1>1 DEF DecisionInv
  <2>2. ASSUME NEW k \in {"PREPARE", "COMMIT"}, NEW g \in Hashes, Overdue(pbft[m], k, g)
        PROVE  Coming(m, Vote(k, m, g))'
    <3>1. Coming(m, Vote(k, m, g)) /\ k \in VoteKind
      BY <2>1, <2>2 DEF Attends, VoteKind
    <3> QED
      BY <1>1, <1>2, <2>1, <3>1, StillComing
  <2> QED
    BY <2>1, <2>2 DEF Attends, Emptied, Overdue, Known
<1>4. ASSUME lost = 0, NEW q \in Steady, NEW m \in Steady,
             NEW k \in VoteKind, NEW g \in Hashes, Cast(k, q, g)'
      PROVE  Counts(pbft[m], k, q, g) \/ OnItsWay(q, m, Vote(k, q, g))'
  <2>1. CASE Cast(k, q, g)
    <3>1. Counts(pbft[m], k, q, g) \/ OnItsWay(q, m, Vote(k, q, g))
      BY <1>4, <2>1 DEF DecisionInv, Arrives
    <3> QED
      BY <1>1, <1>2, <3>1, StillOnItsWay
  <2>2. CASE ~Cast(k, q, g)
    <3>1. /\ k = "PRE-PREPARE" /\ q = LEADER_NODE
          /\ n = LEADER_NODE
          /\ Continue(n, th, Vote("PRE-PREPARE", n, g), {Vote("PRE-PREPARE", n, g)})
      BY <1>4, <2>2 DEF Cast, Known
    <3> QED
      BY <1>1, <3>1, VoteLeaves
  <2> QED
    BY <2>1, <2>2
<1>5. lost' = 0 => Arrives'
  BY <1>4 DEF Arrives, Cast, Counts, Known, Prepares, Commits
<1> QED
  BY <1>3, <1>5 DEF DecisionOK

LEMMA OthersDecide ==
  ASSUME DecisionInv, NEW n \in Nodes, NEW th \in threads[n], lost' = lost,
         \/ OnTransaction(n, th) \/ PoolTransaction(n, th)
         \/ ProposeBlock(n, th) \/ CommitBlock(n, th)
  PROVE  DecisionOK
<1>1. Proceeds(n, th)
  BY StepProceeds DEF DecisionInv, Step
<1>2. th.call.type \notin VoteKind /\ UNCHANGED pbft
  BY DEF OnTransaction, PoolTransaction, ProposeBlock, CommitBlock, protocolVars, VoteKind
<1>3. ASSUME blocks' = blocks PROVE DecisionOK
  BY <1>1, <1>2, <1>3, QuietDecides
<1>4. CASE OnTransaction(n, th) \/ PoolTransaction(n, th) \/ CommitBlock(n, th)
  <2>1. blocks' = blocks
    BY <1>4 DEF OnTransaction, PoolTransaction, CommitBlock, AddTransaction, AddBlock, ledgerVars
  <2> QED
    BY <1>3, <2>1
<1>5. CASE ProposeBlock(n, th)
  <2>1. CASE UNCHANGED ledgerVars
    BY <1>3, <2>1 DEF ledgerVars
  <2>2. ASSUME NEW h \in Hashes, CreateBlock(n, h),
               Continue(n, th, Vote("PRE-PREPARE", n, h), {Vote("PRE-PREPARE", n, h)})
        PROVE  DecisionOK
    <3>1. DOMAIN blocks' = DOMAIN blocks \cup {h}
      BY <2>2, CreateBlockAdds DEF DecisionInv, NodeInv
    <3>2. n = LEADER_NODE
      BY <1>5, ThreadCall DEF ProposeBlock, DecisionInv, NodeInv
    <3>3. \A g \in Hashes : g # h => (g \in DOMAIN blocks' => g \in DOMAIN blocks)
      BY <3>1
    <3> QED
      BY <1>1, <1>2, <2>2, <3>2, <3>3, QuietDecides
  <2> QED
    BY <1>5, <2>1, <2>2 DEF ProposeBlock
<1> QED
  BY <1>4, <1>5

\* Steps of no thread.
LEMMA ElsewhereDecides ==
  ASSUME DecisionInv, blocks' = blocks, \A m \in Steady : pbft'[m] = pbft[m],
         \A m \in Steady, k \in VoteKind, h \in Hashes :
           Coming(m, Vote(k, m, h)) => Coming(m, Vote(k, m, h))',
         \/ lost' # 0
         \/ /\ lost' = lost
            /\ \A q, m \in Steady, k \in VoteKind, h \in Hashes :
                 OnItsWay(q, m, Vote(k, q, h)) => OnItsWay(q, m, Vote(k, q, h))'
  PROVE  DecisionOK
<1>1. ASSUME NEW m \in Steady PROVE Attends(m)'
  <2>1. Attends(m)
    BY DEF DecisionInv
  <2>2. \A k \in {"PREPARE", "COMMIT"}, h \in Hashes :
          Overdue(pbft[m], k, h) => Coming(m, Vote(k, m, h))'
    BY <2>1 DEF Attends, VoteKind
  <2> QED
    BY <2>1, <2>2 DEF Attends, Emptied, Overdue, Known
<1>2. lost' = 0 => Arrives'
  BY DEF DecisionInv, Arrives, Cast, Counts, Known, Prepares, Commits
<1> QED
  BY <1>1, <1>2 DEF DecisionOK

LEMMA StutterDecides ==
  ASSUME DecisionInv, UNCHANGED vars
  PROVE  DecisionOK
<1>1. UNCHANGED <<blocks, pbft, lost, threads>>
  BY DEF vars
<1>2. \A q, m, c : OnItsWay(q, m, c) => OnItsWay(q, m, c)'
  BY <1>1 DEF OnItsWay, Coming
<1>3. \A m, c : Coming(m, c) => Coming(m, c)'
  BY <1>1 DEF Coming
<1> QED
  BY <1>1, <1>2, <1>3, ElsewhereDecides

LEMMA SubmitDecides ==
  ASSUME DecisionInv, NEW n \in Nodes, NEW t \in Txs, Submit(n, t)
  PROVE  DecisionOK
<1>1. UNCHANGED <<blocks, pbft, lost>>
  BY DEF Submit, ledgerVars, protocolVars
<1>2. \A m \in Steady : threads[m] \subseteq threads'[m]
  BY DEF Submit, DecisionInv, NodeInv, ThreadsOK, Steady
<1>3. \A q, m \in Steady : \A c : OnItsWay(q, m, c) => OnItsWay(q, m, c)'
  BY <1>2 DEF OnItsWay, Coming
<1>4. \A m \in Steady : \A c : Coming(m, c) => Coming(m, c)'
  BY <1>2 DEF Coming
<1> QED
  BY <1>1, <1>3, <1>4, ElsewhereDecides

\* What is lost was sent by another node.
LEMMA LoseDecides ==
  ASSUME DecisionInv, NEW n \in Nodes, Lose(n)
  PROVE  DecisionOK
<1>1. UNCHANGED <<blocks, pbft>> /\ lost' # 0
  BY DEF Lose, ledgerVars, protocolVars, DecisionInv, NodeInv, NetworkOK
<1>2. \A m \in Nodes : \A th \in threads[m] : th.call.sender = m => th \in threads'[m]
  BY DEF Lose, InFlight, DecisionInv, NodeInv, ThreadsOK
<1>3. ASSUME NEW m \in Steady, NEW k \in VoteKind, NEW h \in Hashes, Coming(m, Vote(k, m, h))
      PROVE  Coming(m, Vote(k, m, h))'
  <2>1. Vote(k, m, h).sender = m /\ m \in Nodes
    BY DEF Vote, Steady
  <2> QED
    BY <1>2, <1>3, <2>1 DEF Coming
<1> QED
  BY <1>1, <1>3, ElsewhereDecides

\* A crash takes from the others what they have of the node's own messages, and a
\* thread that handles a received message owes nothing.
LEMMA CrashDecides ==
  ASSUME DecisionInv, NEW n \in Nodes, Crash(n)
  PROVE  DecisionOK
<1>1. UNCHANGED <<blocks, pbft, lost>> /\ n \notin Steady
  BY DEF Crash, ledgerVars, protocolVars, Steady
<1>2. \A m \in Steady : \A th \in threads[m] :
        th \in threads'[m] \/ (th \in InFlight(m) /\ th.call.sender = n)
  <2>1. PICK unsent \in SUBSET UNION {{m} \X SentBy(n, m) : m \in up} :
          threads' = [m \in Nodes |->
                        IF m = n THEN IF n \in MayRestart THEN InFlight(n) ELSE {}
                        ELSE {th \in threads[m] : <<m, th>> \notin unsent}]
    BY DEF Crash
  <2>2. ASSUME NEW m \in Steady, NEW th \in threads[m]
        PROVE  th \in threads'[m] \/ (th \in InFlight(m) /\ th.call.sender = n)
    <3>1. threads'[m] = {x \in threads[m] : <<m, x>> \notin unsent}
      BY <1>1, <2>1 DEF Steady
    <3>2. CASE <<m, th>> \in unsent
      <4>1. PICK k \in up : <<m, th>> \in {k} \X SentBy(n, k)
        BY <3>2
      <4>2. th \in SentBy(n, m)
        BY <4>1
      <4> QED
        BY <4>2 DEF SentBy
    <3> QED
      BY <3>1, <3>2
  <2> QED
    BY <2>2
<1>3. \A m \in Steady : \A th \in threads[m] : th.call.sender = m \/ th.owed # {} => th \in threads'[m]
  <2>1. \A m \in Steady : \A th \in InFlight(m) : th.call.sender # m /\ th.owed = {}
    BY DEF DecisionInv, ReceivedOwesNothing, InFlight, Steady
  <2> QED
    BY <1>2, <2>1
<1>4. ASSUME NEW q \in Steady, NEW m \in Steady, NEW k \in VoteKind, NEW h \in Hashes,
             Coming(m, Vote(k, q, h))
      PROVE  Coming(m, Vote(k, q, h))'
  <2>1. Vote(k, q, h).sender # n
    BY <1>1 DEF Vote
  <2> QED
    BY <1>2, <1>4, <2>1 DEF Coming
<1>5. ASSUME NEW q \in Steady, NEW m \in Steady, NEW k \in VoteKind, NEW h \in Hashes,
             OnItsWay(q, m, Vote(k, q, h))
      PROVE  OnItsWay(q, m, Vote(k, q, h))'
  <2>1. CASE Coming(m, Vote(k, q, h))
    BY <1>4, <2>1 DEF OnItsWay
  <2>2. ASSUME q # m, NEW th \in threads[q], Vote(k, q, h) \in th.owed
        PROVE  OnItsWay(q, m, Vote(k, q, h))'
    <3>1. th \in threads'[q]
      BY <1>3, <2>2
    <3> QED
      BY <2>2, <3>1 DEF OnItsWay
  <2> QED
    BY <1>5, <2>1, <2>2 DEF OnItsWay
<1> QED
  BY <1>1, <1>4, <1>5, ElsewhereDecides

LEMMA RestartDecides ==
  ASSUME DecisionInv, NEW n \in Nodes, Restart(n)
  PROVE  DecisionOK
<1>1. UNCHANGED <<blocks, lost>> /\ n \notin Steady
  BY DEF Restart, DecisionInv
<1>2. \A m \in Steady : pbft'[m] = pbft[m] /\ threads'[m] = threads[m]
  <2>1. PICK unfailed \in SUBSET threads[n] : threads' = [threads EXCEPT ![n] = unfailed]
    BY DEF Restart
  <2> QED
    BY <1>1, <2>1 DEF Restart, DecisionInv, NodeInv, ThreadsOK, ProtocolOK, Steady
<1>3. \A q, m \in Steady : \A c : OnItsWay(q, m, c) => OnItsWay(q, m, c)'
  BY <1>2 DEF OnItsWay, Coming
<1>4. \A m \in Steady : \A c : Coming(m, c) => Coming(m, c)'
  BY <1>2 DEF Coming
<1> QED
  BY <1>1, <1>2, <1>3, <1>4, ElsewhereDecides

-----------------------------------------------------------------------------
LEMMA OwesStep == DecisionInv /\ [Next]_vars => ReceivedOwesNothing'
<1> SUFFICES ASSUME DecisionInv, [Next]_vars,
                    NEW m \in Nodes, NEW x \in threads'[m],
                    x.call.type \in MessageType, x.call.sender # m
             PROVE  x.owed = {}
  BY DEF ReceivedOwesNothing, InFlight
<1>1. threads \in [Nodes -> SUBSET Thread] /\ NodeInv
  BY DEF DecisionInv, NodeInv, ThreadsOK
<1>2. CASE x \in threads[m]
  BY <1>2 DEF DecisionInv, ReceivedOwesNothing, InFlight
<1>3. ASSUME NEW n \in Nodes, Run(n) PROVE x.owed = {}
  <2>1. PICK th \in threads[n] : Proceeds(n, th)
    BY <1>1, <1>3, StepProceeds DEF Run
  <2>2. CASE Finish(n, th)
    BY <1>1, <1>2, <2>2, FinishThreads DEF Receive
  <2>3. ASSUME NEW call \in Call, NEW owes \in SUBSET Message, Continue(n, th, call, owes),
               call.type \in MessageType => call.sender = n
        PROVE  x.owed = {}
    <3>1. x \in threads[m] \/ (m = n /\ x = [call |-> call, owed |-> th.owed \cup owes])
      BY <1>1, <2>3, ContinueThreads
    <3>2. ~(m = n /\ x.call = call)
      BY <2>3
    <3> QED
      BY <1>2, <3>1, <3>2
  <2> QED
    BY <2>1, <2>2, <2>3 DEF Proceeds
<1>4. ASSUME NEW n \in Nodes, NEW t \in Txs, Submit(n, t) PROVE x.owed = {}
  <2>1. x \in threads[m] \/ (m = n /\ x.call = Transaction(n, t))
    BY <1>1, <1>4 DEF Submit
  <2> QED
    BY <1>2, <2>1 DEF Transaction
<1>5. ASSUME NEW n \in Nodes, Lose(n) \/ Crash(n) \/ Restart(n) PROVE x.owed = {}
  <2>1. x \in threads[m]
    BY <1>1, <1>5 DEF Lose, Crash, Restart, InFlight
  <2> QED
    BY <1>2, <2>1
<1>6. CASE UNCHANGED vars
  BY <1>2, <1>6 DEF vars
<1> QED
  BY <1>3, <1>4, <1>5, <1>6 DEF Next

LEMMA DecisionInit == Init => DecisionInv
<1> SUFFICES ASSUME Init PROVE DecisionInv
  OBVIOUS
<1>1. /\ pbft = [n \in Nodes |-> NewEngine] /\ threads = [n \in Nodes |-> {}]
      /\ up = Nodes \ Down /\ DOMAIN blocks = {Genesis}
  BY DEF Init, InitLedgers
<1>2. \A n \in Nodes, h \in Hashes : ~Known(pbft[n], h) /\ pbft[n].status[h] = "absent"
  BY <1>1 DEF Known, NewEngine
<1>3. ReceivedOwesNothing /\ Steady \subseteq up
  BY <1>1 DEF ReceivedOwesNothing, InFlight, Steady
<1>4. \A n \in Steady : Attends(n)
  BY <1>2 DEF Attends, Emptied, Overdue, Steady
<1>5. Arrives
  BY <1>1, <1>2, LedgerAssumption DEF Arrives, Cast, Moved, Steady
<1> QED
  BY <1>3, <1>4, <1>5, InitOK DEF DecisionInv

LEMMA DecisionStep == DecisionInv /\ [Next]_vars => DecisionInv'
<1> SUFFICES ASSUME DecisionInv, [Next]_vars PROVE DecisionInv'
  OBVIOUS
<1>1. NodeInv' /\ ReceivedOwesNothing'
  BY StepKeeps, OwesStep DEF DecisionInv
<1>2. Steady \subseteq up'
  BY DEF DecisionInv, Next, Run, Submit, Lose, Crash, Restart, vars, Steady
<1>3. ASSUME NEW n \in Nodes, Run(n) PROVE DecisionOK
  <2>1. PICK th \in threads[n] : Step(n, th)
    BY <1>3 DEF Run
  <2>2. lost' = lost
    BY <1>3 DEF Run
  <2> QED
    BY <2>1, <2>2, OnPrePrepareDecides, OnPrepareDecides, OnCommitDecides, OthersDecide DEF Step
<1>4. DecisionOK
  BY <1>3, StutterDecides, SubmitDecides, LoseDecides, CrashDecides, RestartDecides DEF Next
<1>5. \A n \in Steady : Attends(n)'
  BY <1>4 DEF DecisionOK
<1> QED
  BY <1>1, <1>2, <1>4, <1>5 DEF DecisionInv, DecisionOK, Steady

LEMMA DecisionInvariant == Spec => []DecisionInv
BY DecisionInit, DecisionStep, PTL DEF Spec

\* When nothing is left to do, all that had to be sent is counted, and the votes of
\* the nodes that run all the time are quorums.
LEMMA AllDecided == DecisionInv => ProposalsAreDecided
<1> SUFFICES ASSUME DecisionInv, Quiescent, lost = 0,
                    LEADER_NODE \in Steady, Cardinality(Steady) >= 2 * f + 1,
                    NEW h \in DOMAIN blocks \ {Genesis}, NEW n \in Steady
             PROVE  Committed(n, h)
  BY DEF ProposalsAreDecided
<1>1. \A m \in Steady : threads[m] = {}
  BY DEF DecisionInv, Quiescent
<1>2. \A q, m \in Steady, k \in VoteKind : Cast(k, q, h) => Counts(pbft[m], k, q, h)
  <2>1. h \in Hashes
    BY DEF DecisionInv, NodeInv, LedgersOK, Block
  <2> QED
    BY <1>1, <2>1 DEF DecisionInv, Arrives, OnItsWay, Coming
<1>3. /\ h \in Hashes /\ n \in Nodes /\ Steady \subseteq Nodes
      /\ \A m \in Steady : pbft[m] \in Engine /\ Attends(m)
  BY DEF DecisionInv, NodeInv, LedgersOK, Block, ProtocolOK, Steady
<1>4. \A m \in Steady : Known(pbft[m], h)
  BY <1>2 DEF Cast, Counts, VoteKind
<1>5. ASSUME NEW votes \in SUBSET Nodes, Steady \subseteq votes
      PROVE  Cardinality(votes) >= prepare_threshold /\ Cardinality(votes) >= commit_threshold
  <2>1. Cardinality(votes) >= Cardinality(Steady) /\ Cardinality(votes) \in Nat /\ Cardinality(Steady) \in Nat
    BY <1>5, MoreVotes
  <2> QED
    BY <2>1, ThresholdType DEF prepare_threshold, commit_threshold
<1>6. \A m \in Steady : \A k \in {"PREPARE", "COMMIT"} : ~Overdue(pbft[m], k, h)
  BY <1>1, <1>3 DEF Attends, Coming
<1>7. \A m \in Steady : pbft[m].prepare_buffer[h] = {} /\ pbft[m].commit_buffer[h] = {}
  BY <1>3, <1>4 DEF Attends, Emptied
<1>8. ASSUME NEW m \in Steady PROVE pbft[m].status[h] \in Moved
  <2>1. Steady \subseteq pbft[m].prepare_votes[h]
    BY <1>2, <1>4, <1>7 DEF Cast, Counts, Prepares, VoteKind
  <2>2. pbft[m].prepare_votes[h] \in SUBSET Nodes /\ pbft[m].status[h] \in Status
    BY <1>3 DEF Engine
  <2>3. pbft[m].status[h] # "pending"
    BY <1>5, <1>6, <2>1, <2>2 DEF Overdue
  <2> QED
    BY <1>4, <2>2, <2>3 DEF Status, Moved, Known
<1>9. Steady \subseteq pbft[n].commit_votes[h]
  BY <1>2, <1>7, <1>8 DEF Cast, Counts, Commits, VoteKind
<1>10. pbft[n].commit_votes[h] \in SUBSET Nodes
  BY <1>3 DEF Engine
<1>11. pbft[n].status[h] # "prepared"
  BY <1>5, <1>6, <1>9, <1>10 DEF Overdue
<1> QED
  BY <1>8, <1>11 DEF Moved, Committed

(***************************************************************************)
(* Nobody waits for a vote that nobody will cast (node.py:191-231): with   *)
(* the leader and 2f others running all the time and no message lost,      *)
(* every proposal has been committed by each of them when nothing is left  *)
(* to do, for any number of nodes, proposals and crashes of the others.    *)
(***************************************************************************)
THEOREM NoProposalIsLeftUndecided == Spec => []ProposalsAreDecided
BY DecisionInvariant, AllDecided, PTL
=============================================================================
