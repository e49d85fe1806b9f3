----------------------------- MODULE RestProofs -----------------------------
(***************************************************************************)
(* Where the transactions are, and what the reading endpoints report of    *)
(* it.  The first part is about pools and ledgers under the protocol, for  *)
(* any finite set of nodes, any number of transactions and blocks, and any *)
(* node that stops or restarts, the leader included.  The second adds a    *)
(* request, whose node keeps running.  The third is about what is left in  *)
(* the pool of a leader that keeps running.                                *)
(***************************************************************************)
EXTENDS Rest, NodeProofs

\* The threads that are about to put a transaction into the pool of n, and what
\* has been seen and is past that point.
Adders(n) == {th \in threads[n] : th.call.type = "add_transaction"}
Adding(n) == {th.call.tx : th \in Adders(n)}
Pooled(n) == seen[n] \ Adding(n)

-----------------------------------------------------------------------------
(***************************************************************************)
(* Where threads come from.  A thread owes messages of its own node, only  *)
(* the leader's owe proposals, and a node that is down has no thread but   *)
(* messages that are still being sent to it.                               *)
(***************************************************************************)
OriginsOK ==
  \A n \in Nodes : \A th \in threads[n] :
    /\ \A msg \in th.owed :
         msg.sender = n /\ (msg.type = "PRE-PREPARE" => n = LEADER_NODE)
    /\ th.call.type = "PRE-PREPARE" => th.call.sender = LEADER_NODE
    /\ n \notin up => th \in InFlight(n)

LEMMA FewerOrigins ==
  ASSUME OriginsOK, \A m \in Nodes : threads'[m] \subseteq threads[m], up' = up
  PROVE  OriginsOK'
BY DEF OriginsOK, InFlight

LEMMA ContinueOrigins ==
  ASSUME NodeInv, OriginsOK, up' = up, NEW n \in up, n \in Nodes, NEW th \in threads[n],
         NEW call \in Call, NEW owes \in SUBSET Message, Continue(n, th, call, owes),
         call.type = "PRE-PREPARE" => call.sender = LEADER_NODE,
         \A msg \in owes : msg.sender = n /\ (msg.type = "PRE-PREPARE" => n = LEADER_NODE)
  PROVE  OriginsOK'
<1>1. threads \in [Nodes -> SUBSET Thread]
  BY DEF NodeInv, ThreadsOK
<1>2. \A m \in Nodes : \A x \in threads'[m] :
        \/ x \in threads[m]
        \/ m = n /\ x = [call |-> call, owed |-> th.owed \cup owes]
  BY <1>1, ContinueThreads
<1> SUFFICES ASSUME NEW m \in Nodes, NEW x \in threads'[m]
             PROVE  /\ \A msg \in x.owed :
                         msg.sender = m /\ (msg.type = "PRE-PREPARE" => m = LEADER_NODE)
                    /\ x.call.type = "PRE-PREPARE" => x.call.sender = LEADER_NODE
                    /\ m \notin up => x.call.type \in MessageType /\ x.call.sender # m
  BY DEF OriginsOK, InFlight
<1>3. CASE x \in threads[m]
  BY <1>3 DEF OriginsOK, InFlight
<1>4. CASE m = n /\ x = [call |-> call, owed |-> th.owed \cup owes]
  <2>1. x.call = call /\ x.owed = th.owed \cup owes
    BY <1>4
  <2> QED
    BY <1>4, <2>1 DEF OriginsOK
<1> QED
  BY <1>2, <1>3, <1>4

LEMMA FinishOrigins ==
  ASSUME NodeInv, OriginsOK, up' = up, NEW n \in up, n \in Nodes, NEW th \in threads[n],
         Finish(n, th)
  PROVE  OriginsOK'
<1>1. th.owed \subseteq Message
  BY DEF NodeInv, ThreadsOK, Thread
<1>2. \A m \in Nodes : \A x \in threads'[m] :
        x \in threads[m] \/ (m # n /\ \E msg \in th.owed : x = Receive(msg))
  BY DEF Finish
<1> SUFFICES ASSUME NEW m \in Nodes, NEW x \in threads'[m]
             PROVE  /\ \A msg \in x.owed :
                         msg.sender = m /\ (msg.type = "PRE-PREPARE" => m = LEADER_NODE)
                    /\ x.call.type = "PRE-PREPARE" => x.call.sender = LEADER_NODE
                    /\ m \notin up => x.call.type \in MessageType /\ x.call.sender # m
  BY DEF OriginsOK, InFlight
<1>3. CASE x \in threads[m]
  BY <1>3 DEF OriginsOK, InFlight
<1>4. ASSUME NEW msg \in th.owed, x = Receive(msg), m # n
      PROVE  /\ x.owed = {} /\ x.call = msg
             /\ msg.sender = n /\ (msg.type = "PRE-PREPARE" => n = LEADER_NODE)
             /\ msg.type \in MessageType
  BY <1>1, <1>4 DEF Receive, OriginsOK, Message, MessageType
<1> QED
  BY <1>2, <1>3, <1>4

-----------------------------------------------------------------------------
(***************************************************************************)
(* What a step does to the threads that are about to fill a pool.          *)
(***************************************************************************)
LEMMA ContinueAdders ==
  ASSUME NodeInv, NEW n \in Nodes, NEW th \in threads[n],
         NEW call, NEW owes, Continue(n, th, call, owes)
  PROVE  /\ \A m \in Nodes : m # n => Adders(m)' = Adders(m)
         /\ Adders(n)' = (Adders(n) \ {th}) \cup
              IF call.type = "add_transaction"
              THEN {[call |-> call, owed |-> th.owed \cup owes]} ELSE {}
<1> DEFINE new == [call |-> call, owed |-> th.owed \cup owes]
<1>1. threads'[n] = (threads[n] \ {th}) \cup {new}
  BY DEF Continue, NodeInv, ThreadsOK
<1>2. \A m \in Nodes : m # n => threads'[m] = threads[m]
  BY DEF Continue, NodeInv, ThreadsOK
<1>3. new.call = call
  OBVIOUS
<1> HIDE DEF new
<1> QED
  BY <1>1, <1>2, <1>3 DEF Adders, new

LEMMA FinishAdders ==
  ASSUME NodeInv, NEW n \in Nodes, NEW th \in threads[n], Finish(n, th)
  PROVE  /\ \A m \in Nodes : m # n => Adders(m)' = Adders(m)
         /\ Adders(n)' = Adders(n) \ {th}
<1>1. threads'[n] = threads[n] \ {th}
  BY DEF Finish
<1>2. \A msg \in th.owed : Receive(msg).call.type # "add_transaction"
  BY DEF Receive, NodeInv, ThreadsOK, Thread, Message
<1>3. ASSUME NEW m \in Nodes, m # n
      PROVE  threads'[m] = threads[m] \/ threads'[m] = threads[m] \cup {Receive(msg) : msg \in th.owed}
  BY <1>3 DEF Finish
<1>4. \A m \in Nodes : m # n => Adders(m)' = Adders(m)
  BY <1>2, <1>3 DEF Adders
<1> QED
  BY <1>1, <1>4 DEF Adders

\* A step that neither starts nor ends an adder.
LEMMA SameAdders ==
  ASSUME NodeInv, NEW n \in Nodes, NEW th \in threads[n], th.call.type # "add_transaction",
         \/ Finish(n, th)
         \/ \E call \in Call, owes \in SUBSET Message :
              Continue(n, th, call, owes) /\ call.type # "add_transaction"
  PROVE  \A m \in Nodes : Adders(m)' = Adders(m)
<1>1. th \notin Adders(n)
  BY DEF Adders
<1>2. CASE Finish(n, th)
  BY <1>1, <1>2, FinishAdders
<1>3. ASSUME NEW call \in Call, NEW owes \in SUBSET Message,
             Continue(n, th, call, owes), call.type # "add_transaction"
      PROVE  \A m \in Nodes : Adders(m)' = Adders(m)
  BY <1>1, <1>3, ContinueAdders
<1> QED
  BY <1>2, <1>3

-----------------------------------------------------------------------------
(***************************************************************************)
(* A transaction is added once: _seen_lock lets one thread through.        *)
(***************************************************************************)
AddersOK ==
  \A n \in Nodes :
    /\ Adding(n) \subseteq seen[n]
    /\ \A x, y \in Adders(n) : x.call.tx = y.call.tx => x = y

SamePools == AddersOK' /\ \A m \in Nodes : Pooled(m)' = Pooled(m)

LEMMA PoolsStay ==
  ASSUME AddersOK, seen' = seen, \A m \in Nodes : Adders(m)' = Adders(m)
  PROVE  SamePools
<1>1. \A m \in Nodes : Adding(m)' = Adding(m)
  BY DEF Adding
<1> QED
  BY <1>1 DEF AddersOK, Pooled, SamePools

LEMMA OnTransactionPools ==
  ASSUME NodeInv, AddersOK, NEW n \in Nodes, NEW th \in threads[n], OnTransaction(n, th)
  PROVE  SamePools
<1> DEFINE t == th.call.tx
           call == [type |-> "add_transaction", tx |-> t]
           owes == {}
           new  == [call |-> call, owed |-> th.owed \cup owes]
<1>1. th \notin Adders(n) /\ t \in Txs
  BY ThreadCall, CallFields DEF OnTransaction, Adders, NodeInv
<1>2. seen'[n] = seen[n] \cup {t} /\ \A m \in Nodes : m # n => seen'[m] = seen[m]
  BY DEF OnTransaction, NodeInv, ProtocolOK
<1>3. CASE t \in seen[n]
  <2>1. Finish(n, th) /\ seen' = seen
    BY <1>3 DEF OnTransaction, NodeInv, ProtocolOK
  <2>2. \A m \in Nodes : Adders(m)' = Adders(m)
    BY <1>1, <2>1, FinishAdders
  <2> QED
    BY <2>1, <2>2, PoolsStay
<1>4. CASE t \notin seen[n]
  <2>1. Continue(n, th, call, owes) /\ call.type = "add_transaction"
    BY <1>4 DEF OnTransaction
  <2>2. /\ \A m \in Nodes : m # n => Adders(m)' = Adders(m)
        /\ Adders(n)' = Adders(n) \cup {new}
    <3> HIDE DEF call, owes
    <3>1. Adders(n)' = (Adders(n) \ {th}) \cup {new}
      BY <2>1, ContinueAdders
    <3>2. \A m \in Nodes : m # n => Adders(m)' = Adders(m)
      BY <2>1, ContinueAdders
    <3> QED
      BY <1>1, <3>1, <3>2
  <2>3. new.call.tx = t
    OBVIOUS
  <2> HIDE DEF new
  <2>4. /\ \A m \in Nodes : m # n => Adding(m)' = Adding(m)
        /\ Adding(n)' = Adding(n) \cup {t}
    BY <2>2, <2>3 DEF Adding
  <2>5. \A m \in Nodes : Pooled(m)' = Pooled(m)
    BY <1>2, <1>4, <2>4 DEF Pooled
  <2>6. AddersOK'
    <3>1. \A x \in Adders(n) : x.call.tx # t
      BY <1>4 DEF AddersOK, Adding
    <3>2. \A m \in Nodes : Adding(m)' \subseteq seen'[m]
      BY <1>2, <2>4 DEF AddersOK
    <3>3. \A m \in Nodes : \A x, y \in Adders(m)' : x.call.tx = y.call.tx => x = y
      BY <2>2, <2>3, <3>1 DEF AddersOK
    <3> QED
      BY <3>2, <3>3 DEF AddersOK
  <2> QED
    BY <2>5, <2>6 DEF SamePools
<1> QED
  BY <1>3, <1>4

LEMMA PoolTransactionPools ==
  ASSUME NodeInv, AddersOK, NEW n \in Nodes, NEW th \in threads[n], PoolTransaction(n, th)
  PROVE  /\ AddersOK'
         /\ \A m \in Nodes : m # n => Pooled(m)' = Pooled(m)
         /\ Pooled(n)' = Pooled(n) \cup {th.call.tx}
         /\ th.call.tx \notin Pooled(n)
<1> DEFINE t == th.call.tx
<1>1. th \in Adders(n) /\ seen' = seen
  BY DEF PoolTransaction, Adders, protocolVars
<1>2. /\ \A m \in Nodes : m # n => Adders(m)' = Adders(m)
      /\ Adders(n)' = Adders(n) \ {th}
  <2>1. CASE Finish(n, th)
    BY <2>1, FinishAdders
  <2>2. CASE Continue(n, th, [type |-> "create_block", tx |-> t], {})
    BY <2>2, ContinueAdders
  <2> QED
    BY <2>1, <2>2 DEF PoolTransaction
<1>3. t \in seen[n] /\ \A x \in Adders(n) : x.call.tx = t => x = th
  BY <1>1 DEF AddersOK, Adding
<1>4. /\ \A m \in Nodes : m # n => Adding(m)' = Adding(m)
      /\ Adding(n)' = Adding(n) \ {t}
  BY <1>1, <1>2, <1>3 DEF Adding
<1>5. t \in Adding(n)
  BY <1>1 DEF Adding
<1>6. AddersOK'
  BY <1>1, <1>2, <1>4 DEF AddersOK
<1> QED
  BY <1>1, <1>3, <1>4, <1>5, <1>6 DEF Pooled

LEMMA OtherPools ==
  ASSUME NodeInv, AddersOK, NEW n \in Nodes, NEW th \in threads[n],
         \/ ProposeBlock(n, th) \/ OnPrePrepare(n, th) \/ OnPrepare(n, th)
         \/ OnCommit(n, th) \/ CommitBlock(n, th)
  PROVE  SamePools
<1>1. seen' = seen
  BY DEF ProposeBlock, OnPrePrepare, OnPrepare, OnCommit, CommitBlock, protocolVars
<1>2. /\ th.call.type # "add_transaction"
      /\ th.call.type \in {"PRE-PREPARE", "PREPARE", "COMMIT"} => th.call.block \in Hashes
  BY ThreadCall, CallFields
     DEF NodeInv, ProposeBlock, OnPrePrepare, OnPrepare, OnCommit, CommitBlock
<1>3. \/ Finish(n, th)
      \/ \E call \in Call, owes \in SUBSET Message :
           Continue(n, th, call, owes) /\ call.type # "add_transaction"
  <2>1. ASSUME NEW h \in Hashes, NEW kind \in {"PRE-PREPARE", "PREPARE", "COMMIT"},
               Continue(n, th, Vote(kind, n, h), {Vote(kind, n, h)})
        PROVE  \E call \in Call, owes \in SUBSET Message :
                 Continue(n, th, call, owes) /\ call.type # "add_transaction"
    <3> DEFINE vote == Vote(kind, n, h)
    <3>1. vote \in Call /\ {vote} \in SUBSET Message /\ vote.type # "add_transaction"
      BY MadeCalls DEF Call, Vote
    <3> HIDE DEF vote
    <3> QED
      BY <2>1, <3>1 DEF vote
  <2>2. ASSUME NEW h \in Hashes, Continue(n, th, [type |-> "add_block", block |-> h], {})
        PROVE  \E call \in Call, owes \in SUBSET Message :
                 Continue(n, th, call, owes) /\ call.type # "add_transaction"
    <3> DEFINE call == [type |-> "add_block", block |-> h]
    <3>1. call \in Call /\ {} \in SUBSET Message /\ call.type # "add_transaction"
      BY MadeCalls DEF Call
    <3> HIDE DEF call
    <3> QED
      BY <2>2, <3>1 DEF call
  <2> QED
    BY <1>2, <2>1, <2>2 DEF ProposeBlock, OnPrePrepare, OnPrepare, OnCommit, CommitBlock
<1>4. \A m \in Nodes : Adders(m)' = Adders(m)
  BY <1>2, <1>3, SameAdders
<1> QED
  BY <1>1, <1>4, PoolsStay

LEMMA SubmitPools ==
  ASSUME NodeInv, AddersOK, NEW n \in Nodes, NEW t \in Txs, Submit(n, t)
  PROVE  SamePools
<1> DEFINE th == [call |-> Transaction(n, t), owed |-> {Transaction(n, t)}]
<1>1. seen' = seen /\ threads' = [threads EXCEPT ![n] = @ \cup {th}]
  BY DEF Submit, protocolVars
<1>2. th.call.type # "add_transaction"
  BY DEF Transaction
<1> HIDE DEF th
<1>3. \A m \in Nodes : Adders(m)' = Adders(m)
  BY <1>1, <1>2 DEF Adders, NodeInv, ThreadsOK
<1> QED
  BY <1>1, <1>3, PoolsStay

LEMMA LosePools ==
  ASSUME NodeInv, AddersOK, NEW n \in Nodes, Lose(n)
  PROVE  SamePools
<1>1. seen' = seen /\ \E th \in InFlight(n) : threads' = [threads EXCEPT ![n] = @ \ {th}]
  BY DEF Lose, protocolVars
<1>2. \A m \in Nodes : Adders(m)' = Adders(m)
  BY <1>1 DEF Adders, NodeInv, ThreadsOK, InFlight, MessageType
<1> QED
  BY <1>1, <1>2, PoolsStay

\* A node that stops loses the threads that were about to fill its pool, and no
\* other node does.
LEMMA CrashPools ==
  ASSUME NodeInv, AddersOK, NEW n \in Nodes, Crash(n)
  PROVE  /\ AddersOK'
         /\ \A m \in Nodes : m # n => Pooled(m)' = Pooled(m)
<1>1. seen' = seen
  BY DEF Crash, protocolVars
<1>2. PICK unsent \in SUBSET UNION {{m} \X SentBy(n, m) : m \in up} : threads' =
        [m \in Nodes |-> IF m = n THEN IF n \in MayRestart THEN InFlight(n) ELSE {}
                         ELSE {th \in threads[m] : <<m, th>> \notin unsent}]
  BY DEF Crash
<1>3. ASSUME NEW m \in Nodes, m # n PROVE Adders(m)' = Adders(m)
  <2>1. threads'[m] = {th \in threads[m] : <<m, th>> \notin unsent}
    BY <1>2, <1>3
  <2>2. ASSUME NEW th \in Adders(m) PROVE <<m, th>> \notin unsent
    <3>1. th \notin SentBy(n, m)
      BY DEF SentBy, InFlight, Adders, MessageType
    <3>2. \A k \in up : <<m, th>> \in {k} \X SentBy(n, k) => th \in SentBy(n, m)
      OBVIOUS
    <3> QED
      BY <3>1, <3>2
  <2> QED
    BY <2>1, <2>2 DEF Adders
<1>4. Adders(n)' = {}
  BY <1>2 DEF Adders, InFlight, MessageType
<1>5. \A m \in Nodes : Adding(m)' = IF m = n THEN {} ELSE Adding(m)
  BY <1>3, <1>4 DEF Adding
<1>6. AddersOK'
  BY <1>1, <1>3, <1>4, <1>5 DEF AddersOK
<1> QED
  BY <1>1, <1>5, <1>6 DEF Pooled

LEMMA RestartPools ==
  ASSUME NodeInv, OriginsOK, AddersOK, NEW n \in Nodes, Restart(n)
  PROVE  /\ AddersOK'
         /\ \A m \in Nodes : m # n => Pooled(m)' = Pooled(m)
         /\ Pooled(n)' = {}
<1>1. seen'[n] = {} /\ \A m \in Nodes : m # n => seen'[m] = seen[m]
  BY DEF Restart, NodeInv, ProtocolOK
<1>2. PICK unfailed \in SUBSET threads[n] : threads' = [threads EXCEPT ![n] = unfailed]
  BY DEF Restart
<1>3. Adders(n)' = {}
  <2>1. \A th \in threads[n] : th.call.type \in MessageType
    BY DEF Restart, OriginsOK, InFlight
  <2> QED
    BY <1>2, <2>1 DEF Adders, MessageType, NodeInv, ThreadsOK
<1>4. \A m \in Nodes : m # n => Adders(m)' = Adders(m)
  BY <1>2 DEF Adders, NodeInv, ThreadsOK
<1>5. \A m \in Nodes : Adding(m)' = IF m = n THEN {} ELSE Adding(m)
  BY <1>3, <1>4 DEF Adding
<1>6. AddersOK'
  BY <1>1, <1>3, <1>4, <1>5 DEF AddersOK
<1> QED
  BY <1>1, <1>5, <1>6 DEF Pooled

-----------------------------------------------------------------------------
(***************************************************************************)
(* OriginsOK is preserved.                                                 *)
(***************************************************************************)
LEMMA HandlerOrigins ==
  ASSUME NodeInv, OriginsOK, up' = up, NEW n \in up, n \in Nodes, NEW th \in threads[n],
         Step(n, th)
  PROVE  OriginsOK'
<1>1. /\ th.call.type \in {"TRANSACTION", "add_transaction"} => th.call.tx \in Txs
      /\ th.call.type \in {"PRE-PREPARE", "PREPARE", "COMMIT"} => th.call.block \in Hashes
      /\ th.call.type = "create_block" => n = LEADER_NODE
  BY ThreadCall, CallFields DEF NodeInv
<1>2. CASE Finish(n, th)
  BY <1>2, FinishOrigins
<1>3. ASSUME NEW call \in LedgerCall, Continue(n, th, call, {})
      PROVE  OriginsOK'
  <2>1. call \in Call /\ call.type # "PRE-PREPARE" /\ {} \in SUBSET Message
    BY DEF Call, LedgerCall
  <2> DEFINE owes == {}
  <2>2. owes \in SUBSET Message /\ Continue(n, th, call, owes) /\ \A msg \in owes : FALSE
    BY <1>3
  <2> HIDE DEF owes
  <2> QED
    BY <2>1, <2>2, ContinueOrigins
<1>4. ASSUME NEW kind \in {"PRE-PREPARE", "PREPARE", "COMMIT"}, NEW h \in Hashes,
             kind = "PRE-PREPARE" => n = LEADER_NODE,
             Continue(n, th, Vote(kind, n, h), {Vote(kind, n, h)})
      PROVE  OriginsOK'
  <2> DEFINE call == Vote(kind, n, h)
             owes == {call}
  <2>1. /\ call \in Call /\ owes \in SUBSET Message
        /\ call.type = kind /\ call.sender = n /\ \A msg \in owes : msg = call
    BY MadeCalls DEF Call, Vote
  <2>2. Continue(n, th, call, owes)
    BY <1>4
  <2> HIDE DEF call, owes
  <2>3. /\ call.type = "PRE-PREPARE" => call.sender = LEADER_NODE
        /\ \A msg \in owes : msg.sender = n /\ (msg.type = "PRE-PREPARE" => n = LEADER_NODE)
    BY <1>4, <2>1
  <2> QED
    BY <2>1, <2>2, <2>3, ContinueOrigins
<1>5. CASE OnTransaction(n, th)
  <2>1. [type |-> "add_transaction", tx |-> th.call.tx] \in LedgerCall
    BY <1>1, <1>5, MadeCalls DEF OnTransaction
  <2> QED
    BY <1>2, <1>3, <1>5, <2>1 DEF OnTransaction
<1>6. CASE PoolTransaction(n, th)
  <2>1. [type |-> "create_block", tx |-> th.call.tx] \in LedgerCall
    BY <1>1, <1>6, MadeCalls DEF PoolTransaction
  <2> QED
    BY <1>2, <1>3, <1>6, <2>1 DEF PoolTransaction
<1>7. CASE ProposeBlock(n, th)
  BY <1>1, <1>2, <1>4, <1>7 DEF ProposeBlock
<1>8. CASE OnPrePrepare(n, th)
  BY <1>1, <1>2, <1>4, <1>8 DEF OnPrePrepare
<1>9. CASE OnPrepare(n, th)
  BY <1>1, <1>2, <1>4, <1>9 DEF OnPrepare
<1>10. CASE OnCommit(n, th)
  <2>1. [type |-> "add_block", block |-> th.call.block] \in LedgerCall
    BY <1>1, <1>10, MadeCalls DEF OnCommit
  <2> QED
    BY <1>2, <1>3, <1>10, <2>1 DEF OnCommit
<1>11. CASE CommitBlock(n, th)
  BY <1>2, <1>11 DEF CommitBlock
<1> QED
  BY <1>5, <1>6, <1>7, <1>8, <1>9, <1>10, <1>11 DEF Step

LEMMA SubmitOrigins ==
  ASSUME NodeInv, OriginsOK, NEW n \in Nodes, NEW t \in Txs, Submit(n, t)
  PROVE  OriginsOK'
<1> DEFINE msg == Transaction(n, t)
           th == [call |-> msg, owed |-> {msg}]
<1>1. up' = up /\ n \in up /\ threads' = [threads EXCEPT ![n] = @ \cup {th}]
  BY DEF Submit
<1>2. th.call = msg /\ th.owed = {msg} /\ msg.sender = n /\ msg.type = "TRANSACTION"
  BY DEF Transaction
<1>3. threads \in [Nodes -> SUBSET Thread]
  BY DEF NodeInv, ThreadsOK
<1> HIDE DEF th, msg
<1>4. \A m \in Nodes : \A x \in threads'[m] : x \in threads[m] \/ (m = n /\ x = th)
  BY <1>1, <1>3
<1> SUFFICES ASSUME NEW m \in Nodes, NEW x \in threads'[m]
             PROVE  /\ \A y \in x.owed :
                         y.sender = m /\ (y.type = "PRE-PREPARE" => m = LEADER_NODE)
                    /\ x.call.type = "PRE-PREPARE" => x.call.sender = LEADER_NODE
                    /\ m \notin up => x.call.type \in MessageType /\ x.call.sender # m
  BY <1>1 DEF OriginsOK, InFlight
<1>5. CASE x \in threads[m]
  BY <1>5 DEF OriginsOK, InFlight
<1> QED
  BY <1>1, <1>2, <1>4, <1>5

\* A node that stops keeps no thread of its own; one that comes back has none.
LEMMA ChurnOrigins ==
  ASSUME NodeInv, OriginsOK, NEW n \in Nodes, Lose(n) \/ Crash(n) \/ Restart(n)
  PROVE  OriginsOK'
<1>1. threads \in [Nodes -> SUBSET Thread]
  BY DEF NodeInv, ThreadsOK
<1>2. CASE Lose(n)
  <2>1. up' = up /\ \A m \in Nodes : threads'[m] \subseteq threads[m]
    BY <1>1, <1>2 DEF Lose
  <2> QED
    BY <2>1, FewerOrigins
<1>3. CASE Crash(n)
  <2>1. PICK unsent : threads' =
          [m \in Nodes |-> IF m = n THEN IF n \in MayRestart THEN InFlight(n) ELSE {}
                           ELSE {th \in threads[m] : <<m, th>> \notin unsent}]
    BY <1>3 DEF Crash
  <2>2. /\ \A m \in Nodes : threads'[m] \subseteq threads[m]
        /\ threads'[n] \subseteq InFlight(n)
    BY <2>1 DEF InFlight
  <2>3. up' = up \ {n}
    BY <1>3 DEF Crash
  <2> QED
    BY <2>2, <2>3 DEF OriginsOK, InFlight
<1>4. CASE Restart(n)
  <2>1. PICK unfailed \in SUBSET threads[n] : threads' = [threads EXCEPT ![n] = unfailed]
    BY <1>4 DEF Restart
  <2>2. \A m \in Nodes : threads'[m] \subseteq threads[m]
    BY <1>1, <2>1
  <2>3. up' = up \cup {n}
    BY <1>4 DEF Restart
  <2> QED
    BY <2>2, <2>3 DEF OriginsOK, InFlight
<1> QED
  BY <1>2, <1>3, <1>4

-----------------------------------------------------------------------------
(***************************************************************************)
(* What the operations of a ledger do to the sets of transactions.         *)
(***************************************************************************)
Waiting(n) == Elements(pending[n])

SameTxs(m) == Waiting(m)' = Waiting(m) /\ ChainTxs(m)' = ChainTxs(m)

LEMMA ChainSpan ==
  ASSUME LedgersOK, NEW n \in Nodes
  PROVE  /\ chain[n] \in Seq(Block) /\ Len(chain[n]) \in Nat
         /\ DOMAIN chain[n] = 1 .. Len(chain[n])
         /\ Tip(n) \in DOMAIN blocks
<1>1. chain[n] \in Seq(Block) /\ Len(chain[n]) >= 1
  BY DEF LedgersOK
<1>2. Len(chain[n]) \in Nat /\ DOMAIN chain[n] = 1 .. Len(chain[n])
  BY <1>1
<1>3. Len(chain[n]) \in 1 .. Len(chain[n])
  BY <1>1, <1>2
<1> QED
  BY <1>1, <1>2, <1>3 DEF LedgersOK, Tip

LEMMA SameLedgerTxs ==
  ASSUME blocks' = blocks, NEW m \in Nodes, chain'[m] = chain[m], pending'[m] = pending[m]
  PROVE  SameTxs(m)
<1>1. Waiting(m)' = Waiting(m)
  BY DEF Waiting, Elements
<1>2. ChainTxs(m)' = ChainTxs(m)
  BY DEF ChainTxs, TxsOf, Elements
<1> QED
  BY <1>1, <1>2 DEF SameTxs

LEMMA LedgersStayTxs ==
  ASSUME UNCHANGED ledgerVars
  PROVE  \A m \in Nodes : SameTxs(m)
BY DEF ledgerVars, SameTxs, Waiting, ChainTxs, TxsOf, Elements

LEMMA AddTransactionTxs ==
  ASSUME LedgersOK, NEW n \in Nodes, NEW t \in Txs, AddTransaction(n, t)
  PROVE  /\ Waiting(n)' = Waiting(n) \cup {t}
         /\ ChainTxs(n)' = ChainTxs(n)
         /\ \A m \in Nodes : m # n => SameTxs(m)
<1>1. UNCHANGED <<blocks, chain>>
  BY DEF AddTransaction
<1>2. \A m \in Nodes : ChainTxs(m)' = ChainTxs(m)
  BY <1>1 DEF ChainTxs, TxsOf, Elements
<1>3. pending \in [Nodes -> Seq(Txs)]
  BY DEF LedgersOK
<1>4. CASE t \in Waiting(n)
  BY <1>2, <1>4 DEF AddTransaction, Waiting, SameTxs
<1>5. CASE t \notin Waiting(n)
  <2>1. pending'[n] = Append(pending[n], t) /\ \A m \in Nodes : m # n => pending'[m] = pending[m]
    BY <1>3, <1>5 DEF AddTransaction, Waiting
  <2>2. Elements(Append(pending[n], t)) = Elements(pending[n]) \cup {t}
    <3> DEFINE s == pending[n]
               L == Len(s)
    <3>1. s \in Seq(Txs) /\ L \in Nat /\ DOMAIN s = 1 .. L
      BY <1>3
    <3> HIDE DEF s
    <3>2. /\ DOMAIN Append(s, t) = 1 .. (L + 1)
          /\ Append(s, t)[L + 1] = t
          /\ \A i \in 1 .. L : Append(s, t)[i] = s[i]
      BY <3>1
    <3>3. Elements(Append(s, t)) \subseteq Elements(s) \cup {t}
      BY <3>1, <3>2 DEF Elements
    <3>4. t \in Elements(Append(s, t))
      <4>1. L + 1 \in 1 .. (L + 1)
        BY <3>1
      <4> QED
        BY <3>2, <4>1 DEF Elements
    <3>5. Elements(s) \subseteq Elements(Append(s, t))
      BY <3>1, <3>2 DEF Elements
    <3> QED
      BY <3>3, <3>4, <3>5 DEF s
  <2> QED
    BY <1>2, <2>1, <2>2 DEF Waiting, SameTxs, Elements
<1> QED
  BY <1>4, <1>5

LEMMA CreateBlockTxs ==
  ASSUME LedgersOK, Heights, NEW n \in Nodes, NEW h \in Hashes, CreateBlock(n, h)
  PROVE  /\ \A b \in DOMAIN blocks : TxsOf(b)' = TxsOf(b)
         /\ TxsOf(h)' \subseteq Waiting(n)
         /\ \A m \in Nodes : SameTxs(m)
<1>1. /\ DOMAIN blocks' = DOMAIN blocks \cup {h}
      /\ \A b \in DOMAIN blocks : blocks'[b] = blocks[b]
      /\ chain' = chain /\ pending' = pending
  BY CreateBlockAdds
<1>2. \A b \in DOMAIN blocks : TxsOf(b)' = TxsOf(b)
  BY <1>1 DEF TxsOf, Elements
<1>3. TxsOf(h)' \subseteq Waiting(n)
  <2> DEFINE s == pending[n]
             size == IF Len(s) < MAX_TRANSACTIONS_PER_BLOCK
                     THEN Len(s) ELSE MAX_TRANSACTIONS_PER_BLOCK
             batch == SubSeq(s, 1, size)
  <2>1. blocks'[h] = Candidate(n)
    BY DEF CreateBlock
  <2>2. blocks'[h].transactions = batch
    <3>1. Candidate(n).transactions = batch
      BY DEF Candidate
    <3> QED
      BY <2>1, <3>1
  <2>3. s \in Seq(Txs) /\ size \in 0 .. Len(s)
    BY LedgerAssumption DEF LedgersOK
  <2> HIDE DEF s, size
  <2>4. DOMAIN batch = 1 .. size /\ \A i \in 1 .. size : batch[i] = s[i] /\ i \in DOMAIN s
    BY <2>3
  <2>5. Elements(batch) \subseteq Elements(s)
    BY <2>4 DEF Elements
  <2> QED
    BY <2>2, <2>5 DEF TxsOf, Elements, Waiting, s
<1>4. ASSUME NEW m \in Nodes PROVE ChainTxs(m)' = ChainTxs(m)
  <2>1. \A i \in DOMAIN chain[m] : chain[m][i] \in DOMAIN blocks
    BY ChainSpan DEF LedgersOK
  <2>2. \A i \in DOMAIN chain[m] : TxsOf(chain[m][i])' = TxsOf(chain[m][i])
    BY <1>1, <2>1 DEF TxsOf, Elements
  <2> QED
    BY <1>1, <2>2 DEF ChainTxs
<1> QED
  BY <1>1, <1>2, <1>3, <1>4 DEF SameTxs, Waiting, Elements

LEMMA AddBlockTxs ==
  ASSUME LedgersOK, Heights, NEW n \in Nodes, NEW h \in Hashes,
         h \in DOMAIN blocks, AddBlock(n, h)
  PROVE  /\ blocks' = blocks
         /\ \A m \in Nodes : m # n => SameTxs(m)
         /\ \/ SameTxs(n)
            \/ /\ Waiting(n)' = Waiting(n) \ TxsOf(h)
               /\ ChainTxs(n)' = ChainTxs(n) \cup TxsOf(h)
<1>1. CASE ~Acceptable(n, h)
  <2>1. UNCHANGED ledgerVars
    BY <1>1 DEF AddBlock
  <2> QED
    BY <2>1, LedgersStayTxs DEF ledgerVars
<1>2. CASE Acceptable(n, h)
  <2>1. PICK rest \in Without(pending[n], TxsOf(h)) :
          pending' = [pending EXCEPT ![n] = rest]
    BY <1>2 DEF AddBlock
  <2>2. chain' = [chain EXCEPT ![n] = Append(@, h)] /\ blocks' = blocks
    BY <1>2 DEF AddBlock
  <2>3. Elements(rest) = Elements(pending[n]) \ TxsOf(h)
    BY <2>1 DEF Without
  <2>4. /\ Waiting(n)' = Waiting(n) \ TxsOf(h)
        /\ \A m \in Nodes : m # n => Waiting(m)' = Waiting(m)
    BY <2>1, <2>3 DEF Waiting, Elements, LedgersOK
  <2>5. chain'[n] = Append(chain[n], h) /\ \A m \in Nodes : m # n => chain'[m] = chain[m]
    BY <2>2 DEF LedgersOK
  <2>6. \A m \in Nodes : m # n => ChainTxs(m)' = ChainTxs(m)
    BY <2>2, <2>5 DEF ChainTxs, TxsOf, Elements
  <2>7. ChainTxs(n)' = ChainTxs(n) \cup TxsOf(h)
    <3> DEFINE s == chain[n]
               L == Len(s)
    <3>1. s \in Seq(Block) /\ L \in Nat /\ DOMAIN s = 1 .. L /\ h \in Block
      BY ChainSpan DEF Block
    <3> HIDE DEF s
    <3>2. /\ DOMAIN Append(s, h) = (1 .. L) \cup {L + 1}
          /\ Append(s, h)[L + 1] = h
          /\ \A i \in 1 .. L : Append(s, h)[i] = s[i]
      BY <3>1
    <3>3. UNION {TxsOf(Append(s, h)[i]) : i \in DOMAIN Append(s, h)} =
            (UNION {TxsOf(s[i]) : i \in DOMAIN s}) \cup TxsOf(h)
      BY <3>1, <3>2
    <3> DEFINE r == Append(s, h)
    <3>4. chain'[n] = r /\ blocks' = blocks
      BY <2>2, <2>5 DEF s
    <3> HIDE DEF r
    <3>5. ChainTxs(n)' = UNION {TxsOf(r[i]) : i \in DOMAIN r}
      BY <3>4 DEF ChainTxs, TxsOf, Elements
    <3> QED
      BY <3>3, <3>5 DEF ChainTxs, s, r
  <2> QED
    BY <2>2, <2>4, <2>6, <2>7 DEF SameTxs
<1> QED
  BY <1>1, <1>2

-----------------------------------------------------------------------------
(***************************************************************************)
(* How the transactions of a running node move in a step: not at all, one  *)
(* into the pool, those of a block from the pool to the ledger, or all of  *)
(* them away with the process.                                             *)
(***************************************************************************)
Stays(m) == Pooled(m)' = Pooled(m) /\ SameTxs(m)

TakesIn(m) ==
  \E t \in Txs \ Pooled(m) :
    /\ Pooled(m)' = Pooled(m) \cup {t}
    /\ Waiting(m)' = Waiting(m) \cup {t}
    /\ ChainTxs(m)' = ChainTxs(m)

Moves(m) ==
  \E th \in threads[m] :
    /\ th.call.type = "add_block"
    /\ Pooled(m)' = Pooled(m)
    /\ Waiting(m)' = Waiting(m) \ TxsOf(th.call.block)
    /\ ChainTxs(m)' = ChainTxs(m) \cup TxsOf(th.call.block)

Forgets(m) == m \notin up /\ Pooled(m)' = {} /\ Waiting(m)' = {} /\ ChainTxs(m)' = {}

Flow(m) == Stays(m) \/ TakesIn(m) \/ Moves(m)
FlowOrForget(m) == (m \in up /\ Flow(m)) \/ Forgets(m)

GenesisEmpty == TxsOf(Genesis) = {}

LEMMA RunFlow ==
  ASSUME NodeInv, AddersOK, NEW n \in Nodes, NEW th \in threads[n], Step(n, th)
  PROVE  AddersOK' /\ \A m \in Nodes : Flow(m)
<1>1. LedgersOK /\ Heights /\ ThreadsOK
  BY DEF NodeInv
<1>2. CASE OnTransaction(n, th)
  <2>1. SamePools /\ \A m \in Nodes : SameTxs(m)
    BY <1>2, OnTransactionPools, LedgersStayTxs DEF OnTransaction
  <2> QED
    BY <2>1 DEF SamePools, Flow, Stays
<1>3. CASE PoolTransaction(n, th)
  <2> DEFINE t == th.call.tx
  <2>1. t \in Txs /\ AddTransaction(n, t)
    BY <1>1, <1>3, ThreadCall, CallFields DEF PoolTransaction
  <2>2. /\ Waiting(n)' = Waiting(n) \cup {t}
        /\ ChainTxs(n)' = ChainTxs(n)
        /\ \A m \in Nodes : m # n => SameTxs(m)
    BY <1>1, <2>1, AddTransactionTxs
  <2>3. /\ AddersOK'
        /\ \A m \in Nodes : m # n => Pooled(m)' = Pooled(m)
        /\ Pooled(n)' = Pooled(n) \cup {t}
        /\ t \notin Pooled(n)
    BY <1>3, PoolTransactionPools
  <2> HIDE DEF t
  <2>4. TakesIn(n)
    BY <2>1, <2>2, <2>3 DEF TakesIn
  <2> QED
    BY <2>2, <2>3, <2>4 DEF Flow, Stays
<1>4. CASE ProposeBlock(n, th)
  <2>1. SamePools
    BY <1>4, OtherPools
  <2>2. \A m \in Nodes : SameTxs(m)
    BY <1>1, <1>4, CreateBlockTxs, LedgersStayTxs DEF ProposeBlock
  <2> QED
    BY <2>1, <2>2 DEF SamePools, Flow, Stays
<1>5. CASE OnPrePrepare(n, th) \/ OnPrepare(n, th) \/ OnCommit(n, th)
  <2>1. SamePools
    BY <1>5, OtherPools
  <2>2. \A m \in Nodes : SameTxs(m)
    BY <1>5, LedgersStayTxs DEF OnPrePrepare, OnPrepare, OnCommit
  <2> QED
    BY <2>1, <2>2 DEF SamePools, Flow, Stays
<1>6. CASE CommitBlock(n, th)
  <2>1. SamePools
    BY <1>6, OtherPools
  <2>2. th.call.type = "add_block" /\ AddBlock(n, th.call.block)
    BY <1>6 DEF CommitBlock
  <2>3. th.call.block \in Hashes /\ th.call.block \in DOMAIN blocks
    BY <1>1, <2>2, ThreadCall, CallFields DEF Exists, BlockCall
  <2>4. /\ \A m \in Nodes : m # n => SameTxs(m)
        /\ \/ SameTxs(n)
           \/ /\ Waiting(n)' = Waiting(n) \ TxsOf(th.call.block)
              /\ ChainTxs(n)' = ChainTxs(n) \cup TxsOf(th.call.block)
    BY <1>1, <2>2, <2>3, AddBlockTxs
  <2>5. SameTxs(n) \/ Moves(n)
    BY <2>1, <2>2, <2>4 DEF Moves, SamePools
  <2> QED
    BY <2>1, <2>4, <2>5 DEF SamePools, Flow, Stays
<1> QED
  BY <1>2, <1>3, <1>4, <1>5, <1>6 DEF Step

LEMMA RestartFlow ==
  ASSUME NodeInv, OriginsOK, AddersOK, GenesisEmpty, NEW n \in Nodes, Restart(n)
  PROVE  AddersOK' /\ Forgets(n) /\ \A m \in Nodes : m # n => Flow(m)
<1>1. /\ AddersOK'
      /\ \A m \in Nodes : m # n => Pooled(m)' = Pooled(m)
      /\ Pooled(n)' = {}
  BY RestartPools
<1>2. /\ chain'[n] = <<Genesis>> /\ pending'[n] = <<>> /\ blocks' = blocks
      /\ \A m \in Nodes : m # n => chain'[m] = chain[m] /\ pending'[m] = pending[m]
  BY DEF Restart, NodeInv, LedgersOK
<1>3. Waiting(n)' = {}
  BY <1>2 DEF Waiting, Elements
<1>4. ChainTxs(n)' = {}
  <2>1. /\ DOMAIN chain'[n] = {1} /\ chain'[n][1] = Genesis
    BY <1>2
  <2>2. {blocks[Genesis].transactions[i] : i \in DOMAIN blocks[Genesis].transactions} = {}
    BY DEF GenesisEmpty, TxsOf, Elements
  <2>3. ChainTxs(n)' = UNION {{blocks[chain'[n][i]].transactions[j] :
                                 j \in DOMAIN blocks[chain'[n][i]].transactions} :
                               i \in DOMAIN chain'[n]}
    BY <1>2 DEF ChainTxs, TxsOf, Elements
  <2> QED
    BY <2>1, <2>2, <2>3
<1>5. ASSUME NEW m \in Nodes, m # n PROVE SameTxs(m)
  BY <1>2, <1>5, SameLedgerTxs
<1>6. n \notin up
  BY DEF Restart
<1> QED
  BY <1>1, <1>3, <1>4, <1>5, <1>6 DEF Flow, Forgets, Stays

LEMMA StepFlow ==
  ASSUME NodeInv, OriginsOK, AddersOK, GenesisEmpty, [Next]_vars
  PROVE  AddersOK' /\ \A m \in up' : FlowOrForget(m)
<1>1. up \subseteq Nodes
  BY DEF NodeInv, NetworkOK
<1>2. ASSUME NEW n \in Nodes, Run(n) PROVE AddersOK' /\ \A m \in up' : FlowOrForget(m)
  BY <1>1, <1>2, RunFlow DEF Run, FlowOrForget
<1>3. ASSUME NEW n \in Nodes, NEW t \in Txs, Submit(n, t)
      PROVE  AddersOK' /\ \A m \in up' : FlowOrForget(m)
  <2>1. up' = up /\ UNCHANGED ledgerVars
    BY <1>3 DEF Submit
  <2>2. SamePools /\ \A m \in Nodes : SameTxs(m)
    BY <1>3, <2>1, SubmitPools, LedgersStayTxs
  <2> QED
    BY <1>1, <2>1, <2>2 DEF SamePools, FlowOrForget, Flow, Stays
<1>4. ASSUME NEW n \in Nodes, Lose(n) PROVE AddersOK' /\ \A m \in up' : FlowOrForget(m)
  <2>1. up' = up /\ UNCHANGED ledgerVars
    BY <1>4 DEF Lose
  <2>2. SamePools /\ \A m \in Nodes : SameTxs(m)
    BY <1>4, <2>1, LosePools, LedgersStayTxs
  <2> QED
    BY <1>1, <2>1, <2>2 DEF SamePools, FlowOrForget, Flow, Stays
<1>5. ASSUME NEW n \in Nodes, Crash(n) PROVE AddersOK' /\ \A m \in up' : FlowOrForget(m)
  <2>1. up' = up \ {n} /\ UNCHANGED ledgerVars
    BY <1>5 DEF Crash
  <2>2. /\ AddersOK' /\ \A m \in Nodes : SameTxs(m)
        /\ \A m \in Nodes : m # n => Pooled(m)' = Pooled(m)
    BY <1>5, <2>1, CrashPools, LedgersStayTxs
  <2> QED
    BY <1>1, <2>1, <2>2 DEF FlowOrForget, Flow, Stays
<1>6. ASSUME NEW n \in Nodes, Restart(n) PROVE AddersOK' /\ \A m \in up' : FlowOrForget(m)
  <2>1. up' = up \cup {n}
    BY <1>6 DEF Restart
  <2> QED
    BY <1>1, <1>6, <2>1, RestartFlow DEF FlowOrForget
<1>7. CASE UNCHANGED vars
  <2>1. UNCHANGED <<up, seen, threads>> /\ UNCHANGED ledgerVars
    BY <1>7 DEF vars, ledgerVars
  <2>2. \A m \in Nodes : Adders(m)' = Adders(m)
    BY <2>1 DEF Adders
  <2>3. SamePools /\ \A m \in Nodes : SameTxs(m)
    BY <2>1, <2>2, PoolsStay, LedgersStayTxs
  <2> QED
    BY <1>1, <2>1, <2>3 DEF SamePools, FlowOrForget, Flow, Stays
<1> QED
  BY <1>2, <1>3, <1>4, <1>5, <1>6, <1>7 DEF Next

-----------------------------------------------------------------------------
(***************************************************************************)
(* The blocks that the leader has proposed in its present life, and may    *)
(* still append.                                                           *)
(***************************************************************************)
Speaks(th) == th.call.type \in {"PRE-PREPARE", "add_block"}

Proposed(h) ==
  \/ Known(pbft[LEADER_NODE], h)
  \/ \E th \in threads[LEADER_NODE] : Speaks(th) /\ th.call.block = h

LEMMA EngineLearns ==
  ASSUME NEW e \in Engine, NEW h \in Hashes, NEW s \in Nodes, NEW g \in Hashes
  PROVE  /\ Known(HandlePrePrepare(e, h), g) => Known(e, g) \/ g = h
         /\ Known(HandlePrepare(e, h, s), g) => Known(e, g)
         /\ Known(HandleCommit(e, h, s), g) => Known(e, g)
<1>1. Known(HandlePrePrepare(e, h), g) => Known(e, g) \/ g = h
  BY DEF HandlePrePrepare, Known, Engine
<1>2. Known(HandlePrepare(e, h, s), g) => Known(e, g)
  BY DEF HandlePrepare, ShouldCommit, Known, Engine
<1>3. Known(HandleCommit(e, h, s), g) => Known(e, g)
  BY DEF HandleCommit, ShouldAdd, Known, Engine
<1> QED
  BY <1>1, <1>2, <1>3

\* No proposal is received by the node that makes them all.
LEMMA FinishSpeaks ==
  ASSUME NodeInv, OriginsOK, NEW n \in Nodes, NEW th \in threads[n], Finish(n, th)
  PROVE  \A x \in threads'[LEADER_NODE] : Speaks(x) => x \in threads[LEADER_NODE]
<1>1. th.owed \subseteq Message
  BY DEF NodeInv, ThreadsOK, Thread
<1>2. \A x \in threads'[LEADER_NODE] :
        \/ x \in threads[LEADER_NODE]
        \/ LEADER_NODE # n /\ \E msg \in th.owed : x = Receive(msg)
  BY NodeAssumption DEF Finish
<1>3. ASSUME NEW msg \in th.owed, LEADER_NODE # n PROVE ~Speaks(Receive(msg))
  <2>1. msg.type # "PRE-PREPARE" /\ msg.type # "add_block"
    BY <1>1, <1>3 DEF OriginsOK, Message
  <2> QED
    BY <2>1 DEF Speaks, Receive
<1> QED
  BY <1>2, <1>3

LEMMA ContinueSpeaks ==
  ASSUME NodeInv, NEW n \in Nodes, NEW th \in threads[n], NEW call, NEW owes,
         Continue(n, th, call, owes)
  PROVE  \A x \in threads'[LEADER_NODE] :
           x \in threads[LEADER_NODE] \/ (n = LEADER_NODE /\ x.call = call)
<1> DEFINE new == [call |-> call, owed |-> th.owed \cup owes]
<1>1. \A x \in threads'[LEADER_NODE] :
        x \in threads[LEADER_NODE] \/ (n = LEADER_NODE /\ x = new)
  BY NodeAssumption DEF Continue, NodeInv, ThreadsOK
<1>2. new.call = call
  OBVIOUS
<1> HIDE DEF new
<1> QED
  BY <1>1, <1>2

\* Nothing new is proposed.
NoneProposed == \A h \in Hashes : Proposed(h)' => Proposed(h)

LEMMA QuietProposed ==
  ASSUME pbft' = pbft,
         \A x \in threads'[LEADER_NODE] : Speaks(x) => x \in threads[LEADER_NODE]
  PROVE  NoneProposed
BY DEF NoneProposed, Proposed, Speaks, Known

LEMMA HandlerProposed ==
  ASSUME NodeInv, OriginsOK, NEW n \in Nodes, NEW th \in threads[n],
         OnPrePrepare(n, th) \/ OnPrepare(n, th) \/ OnCommit(n, th)
  PROVE  NoneProposed
<1> DEFINE h == th.call.block
<1>1. /\ pbft \in [Nodes -> Engine] /\ th.call.type \in {"PRE-PREPARE", "PREPARE", "COMMIT"}
      /\ h \in Hashes /\ th.call.sender \in Nodes
  BY ThreadCall, CallFields DEF OnPrePrepare, OnPrepare, OnCommit, NodeInv, ProtocolOK
<1>2. \A m \in Nodes : m # n => pbft'[m] = pbft[m]
  BY <1>1 DEF OnPrePrepare, OnPrepare, OnCommit
<1>3. CASE OnPrePrepare(n, th)
  <2>1. pbft'[n] = HandlePrePrepare(pbft[n], h) /\ th.call.type = "PRE-PREPARE"
    BY <1>1, <1>3 DEF OnPrePrepare
  <2>2. \A g \in Hashes : Known(pbft'[LEADER_NODE], g) => Proposed(g)
    <3>1. CASE n # LEADER_NODE
      BY <1>2, <3>1, NodeAssumption DEF Proposed
    <3>2. CASE n = LEADER_NODE
      <4>1. Proposed(h)
        BY <2>1, <3>2 DEF Proposed, Speaks
      <4>2. pbft[n] \in Engine
        BY <1>1
      <4> QED
        BY <1>1, <2>1, <3>2, <4>1, <4>2, EngineLearns DEF Proposed
    <3> QED
      BY <3>1, <3>2
  <2>3. \A x \in threads'[LEADER_NODE] : Speaks(x) => x \in threads[LEADER_NODE]
    <3>1. Finish(n, th) \/ Continue(n, th, Vote("PREPARE", n, h), {Vote("PREPARE", n, h)})
      BY <1>3 DEF OnPrePrepare
    <3>2. Vote("PREPARE", n, h).type \notin {"PRE-PREPARE", "add_block"}
      BY DEF Vote
    <3> QED
      BY <3>1, <3>2, FinishSpeaks, ContinueSpeaks DEF Speaks
  <2> QED
    BY <2>2, <2>3 DEF NoneProposed, Proposed, Speaks, Known
<1>4. CASE OnPrepare(n, th)
  <2>1. pbft'[n] = HandlePrepare(pbft[n], h, th.call.sender)
    BY <1>1, <1>4 DEF OnPrepare
  <2>2. \A g \in Hashes : Known(pbft'[LEADER_NODE], g) => Known(pbft[LEADER_NODE], g)
    BY <1>1, <1>2, <2>1, NodeAssumption, EngineLearns
  <2>3. \A x \in threads'[LEADER_NODE] : Speaks(x) => x \in threads[LEADER_NODE]
    <3>1. Finish(n, th) \/ Continue(n, th, Vote("COMMIT", n, h), {Vote("COMMIT", n, h)})
      BY <1>4 DEF OnPrepare
    <3>2. Vote("COMMIT", n, h).type \notin {"PRE-PREPARE", "add_block"}
      BY DEF Vote
    <3> QED
      BY <3>1, <3>2, FinishSpeaks, ContinueSpeaks DEF Speaks
  <2> QED
    BY <2>2, <2>3 DEF NoneProposed, Proposed, Speaks, Known
<1>5. CASE OnCommit(n, th)
  <2>1. pbft'[n] = HandleCommit(pbft[n], h, th.call.sender)
    BY <1>1, <1>5 DEF OnCommit
  <2>2. \A g \in Hashes : Known(pbft'[LEADER_NODE], g) => Known(pbft[LEADER_NODE], g)
    BY <1>1, <1>2, <2>1, NodeAssumption, EngineLearns
  <2>3. \A x \in threads'[LEADER_NODE] :
          Speaks(x) => x \in threads[LEADER_NODE] \/ Proposed(x.call.block)
    <3>1. \/ Finish(n, th)
          \/ /\ Continue(n, th, [type |-> "add_block", block |-> h], {})
             /\ Known(pbft[n], h)
      BY <1>5 DEF OnCommit, ShouldAdd, Known
    <3>2. CASE Finish(n, th)
      BY <3>2, FinishSpeaks
    <3>3. CASE /\ Continue(n, th, [type |-> "add_block", block |-> h], {})
               /\ Known(pbft[n], h)
      <4>1. \A x \in threads'[LEADER_NODE] :
              \/ x \in threads[LEADER_NODE]
              \/ n = LEADER_NODE /\ x.call = [type |-> "add_block", block |-> h]
        BY <3>3, ContinueSpeaks
      <4> QED
        BY <3>3, <4>1 DEF Proposed
    <3> QED
      BY <3>1, <3>2, <3>3
  <2> QED
    BY <2>2, <2>3 DEF NoneProposed, Proposed, Speaks, Known
<1> QED
  BY <1>3, <1>4, <1>5

\* A block that has just been proposed carries what waits in the leader's pool.
LeaderOffers ==
  \A h \in Hashes \cap DOMAIN blocks' : Proposed(h)' =>
    /\ LEADER_NODE \in up
    /\ \/ h \in DOMAIN blocks /\ Proposed(h) /\ TxsOf(h)' = TxsOf(h)
       \/ TxsOf(h)' \subseteq Waiting(LEADER_NODE)

LEMMA NoOffer ==
  ASSUME LEADER_NODE \in up, blocks' = blocks, NoneProposed
  PROVE  LeaderOffers
BY DEF LeaderOffers, NoneProposed, TxsOf, Elements

LEMMA RunOffers ==
  ASSUME NodeInv, OriginsOK, LEADER_NODE \in up,
         NEW n \in Nodes, NEW th \in threads[n], Step(n, th)
  PROVE  LeaderOffers
<1>1. LedgersOK /\ Heights /\ ThreadsOK
  BY DEF NodeInv
<1>2. CASE OnTransaction(n, th)
  <2>1. pbft' = pbft /\ blocks' = blocks
    BY <1>2 DEF OnTransaction, ledgerVars
  <2> DEFINE call == [type |-> "add_transaction", tx |-> th.call.tx]
             owes == {}
  <2>2. Finish(n, th) \/ Continue(n, th, call, owes)
    BY <1>2 DEF OnTransaction
  <2>3. call.type \notin {"PRE-PREPARE", "add_block"}
    OBVIOUS
  <2> HIDE DEF call, owes
  <2>4. \A x \in threads'[LEADER_NODE] : Speaks(x) => x \in threads[LEADER_NODE]
    BY <2>2, <2>3, FinishSpeaks, ContinueSpeaks DEF Speaks
  <2> QED
    BY <2>1, <2>4, QuietProposed, NoOffer
<1>3. CASE PoolTransaction(n, th)
  <2>1. pbft' = pbft /\ blocks' = blocks
    BY <1>3 DEF PoolTransaction, protocolVars, AddTransaction
  <2> DEFINE call == [type |-> "create_block", tx |-> th.call.tx]
             owes == {}
  <2>2. Finish(n, th) \/ Continue(n, th, call, owes)
    BY <1>3 DEF PoolTransaction
  <2>3. call.type \notin {"PRE-PREPARE", "add_block"}
    OBVIOUS
  <2> HIDE DEF call, owes
  <2>4. \A x \in threads'[LEADER_NODE] : Speaks(x) => x \in threads[LEADER_NODE]
    BY <2>2, <2>3, FinishSpeaks, ContinueSpeaks DEF Speaks
  <2> QED
    BY <2>1, <2>4, QuietProposed, NoOffer
<1>4. CASE ProposeBlock(n, th)
  <2>1. pbft' = pbft /\ n = LEADER_NODE
    BY <1>1, <1>4, ThreadCall DEF ProposeBlock, protocolVars
  <2>2. CASE Finish(n, th) /\ UNCHANGED ledgerVars
    BY <2>1, <2>2, FinishSpeaks, QuietProposed, NoOffer DEF ledgerVars
  <2>3. ASSUME NEW h \in Hashes, CreateBlock(n, h),
               Continue(n, th, Vote("PRE-PREPARE", n, h), {Vote("PRE-PREPARE", n, h)})
        PROVE  LeaderOffers
    <3>1. /\ DOMAIN blocks' = DOMAIN blocks \cup {h}
          /\ \A b \in DOMAIN blocks : TxsOf(b)' = TxsOf(b)
          /\ TxsOf(h)' \subseteq Waiting(n)
      BY <1>1, <2>3, CreateBlockAdds, CreateBlockTxs
    <3>2. \A x \in threads'[LEADER_NODE] :
            x \in threads[LEADER_NODE] \/ x.call = Vote("PRE-PREPARE", n, h)
      BY <2>3, ContinueSpeaks
    <3>3. \A g \in Hashes : Proposed(g)' => Proposed(g) \/ g = h
      BY <2>1, <3>2 DEF Proposed, Known, Vote, Speaks
    <3> QED
      BY <2>1, <3>1, <3>3 DEF LeaderOffers
  <2> QED
    BY <1>4, <2>2, <2>3 DEF ProposeBlock
<1>5. CASE OnPrePrepare(n, th) \/ OnPrepare(n, th) \/ OnCommit(n, th)
  <2>1. NoneProposed
    BY <1>5, HandlerProposed
  <2>2. blocks' = blocks
    BY <1>5 DEF OnPrePrepare, OnPrepare, OnCommit, ledgerVars
  <2> QED
    BY <2>1, <2>2, NoOffer
<1>6. CASE CommitBlock(n, th)
  <2>1. pbft' = pbft /\ Finish(n, th)
    BY <1>6 DEF CommitBlock, protocolVars
  <2>2. blocks' = blocks
    BY <1>6 DEF CommitBlock, AddBlock, ledgerVars
  <2> QED
    BY <2>1, <2>2, FinishSpeaks, QuietProposed, NoOffer
<1> QED
  BY <1>2, <1>3, <1>4, <1>5, <1>6 DEF Step

\* A leader that has come back has proposed nothing, although blocks of its
\* former life are still on their way to others.
LEMMA StepOffers ==
  ASSUME NodeInv, OriginsOK, [Next]_vars, LEADER_NODE \in up'
  PROVE  LeaderOffers
<1>1. threads \in [Nodes -> SUBSET Thread] /\ pbft \in [Nodes -> Engine]
  BY DEF NodeInv, ThreadsOK, ProtocolOK
<1>2. ASSUME NEW n \in Nodes, Run(n) PROVE LeaderOffers
  BY <1>2, RunOffers DEF Run
<1>3. ASSUME NEW n \in Nodes, NEW t \in Txs, Submit(n, t) PROVE LeaderOffers
  <2> DEFINE th == [call |-> Transaction(n, t), owed |-> {Transaction(n, t)}]
  <2>1. up' = up /\ pbft' = pbft /\ blocks' = blocks
        /\ threads' = [threads EXCEPT ![n] = @ \cup {th}]
    BY <1>3 DEF Submit, protocolVars, ledgerVars
  <2>2. ~Speaks(th)
    BY DEF Speaks, Transaction
  <2> HIDE DEF th
  <2>3. \A x \in threads'[LEADER_NODE] : Speaks(x) => x \in threads[LEADER_NODE]
    BY <1>1, <2>1, <2>2, NodeAssumption
  <2> QED
    BY <2>1, <2>3, QuietProposed, NoOffer
<1>4. ASSUME NEW n \in Nodes, Lose(n) PROVE LeaderOffers
  <2>1. up' = up /\ pbft' = pbft /\ blocks' = blocks
        /\ threads'[LEADER_NODE] \subseteq threads[LEADER_NODE]
    BY <1>1, <1>4, NodeAssumption DEF Lose, protocolVars, ledgerVars
  <2> QED
    BY <2>1, QuietProposed, NoOffer
<1>5. ASSUME NEW n \in Nodes, Crash(n) PROVE LeaderOffers
  <2>1. up' = up \ {n} /\ pbft' = pbft /\ blocks' = blocks
    BY <1>5 DEF Crash, protocolVars, ledgerVars
  <2>2. PICK unsent : threads' =
          [m \in Nodes |-> IF m = n THEN IF n \in MayRestart THEN InFlight(n) ELSE {}
                           ELSE {th \in threads[m] : <<m, th>> \notin unsent}]
    BY <1>5 DEF Crash
  <2>3. threads'[LEADER_NODE] \subseteq threads[LEADER_NODE]
    BY <2>1, <2>2, NodeAssumption
  <2> QED
    BY <2>1, <2>3, QuietProposed, NoOffer
<1>6. ASSUME NEW n \in Nodes, n # LEADER_NODE, Restart(n) PROVE LeaderOffers
  <2>1. up' = up \cup {n} /\ blocks' = blocks /\ pbft'[LEADER_NODE] = pbft[LEADER_NODE]
    BY <1>1, <1>6, NodeAssumption DEF Restart
  <2>2. PICK unfailed \in SUBSET threads[n] : threads' = [threads EXCEPT ![n] = unfailed]
    BY <1>6 DEF Restart
  <2>3. threads'[LEADER_NODE] = threads[LEADER_NODE]
    BY <1>1, <1>6, <2>2, NodeAssumption
  <2>4. NoneProposed
    BY <2>1, <2>3 DEF NoneProposed, Proposed, Known
  <2> QED
    BY <1>6, <2>1, <2>4, NoOffer
<1>7. CASE Restart(LEADER_NODE)
  <2>1. pbft'[LEADER_NODE] = NewEngine /\ LEADER_NODE \notin up
    BY <1>1, <1>7, NodeAssumption DEF Restart
  <2>2. PICK unfailed \in SUBSET threads[LEADER_NODE] :
          threads' = [threads EXCEPT ![LEADER_NODE] = unfailed]
    BY <1>7 DEF Restart
  <2>3. threads'[LEADER_NODE] \subseteq threads[LEADER_NODE]
    BY <1>1, <2>2, NodeAssumption
  <2>4. \A x \in threads[LEADER_NODE] : ~Speaks(x)
    BY <2>1, NodeAssumption DEF OriginsOK, InFlight, Speaks, MessageType
  <2>5. \A h \in Hashes : ~Proposed(h)'
    BY <2>1, <2>3, <2>4 DEF Proposed, Known, NewEngine, Speaks
  <2> QED
    BY <2>5 DEF LeaderOffers
<1>8. CASE UNCHANGED vars
  <2>1. up' = up /\ pbft' = pbft /\ blocks' = blocks /\ threads' = threads
    BY <1>8 DEF vars
  <2> QED
    BY <2>1, QuietProposed, NoOffer
<1> QED
  BY <1>2, <1>3, <1>4, <1>5, <1>6, <1>7, <1>8 DEF Next

-----------------------------------------------------------------------------
(***************************************************************************)
(* The invariant.  Every running node holds what it has taken in, in its   *)
(* pool or on its ledger.  The leader holds it in one of them only, since  *)
(* what it may still append carries nothing that it has not taken in: a    *)
(* transaction can reach the pool of a follower after the block that       *)
(* carries it, but not the leader's.                                       *)
(***************************************************************************)
Held == \A n \in up : Pooled(n) \subseteq Waiting(n) \cup ChainTxs(n)

LeaderOK ==
  LEADER_NODE \in up =>
    /\ \A h \in Hashes \cap DOMAIN blocks :
         Proposed(h) => TxsOf(h) \subseteq Pooled(LEADER_NODE)
    /\ ChainTxs(LEADER_NODE) \subseteq Pooled(LEADER_NODE)
    /\ Waiting(LEADER_NODE) = Pooled(LEADER_NODE) \ ChainTxs(LEADER_NODE)

PoolInv == NodeInv /\ OriginsOK /\ AddersOK /\ GenesisEmpty /\ Held /\ LeaderOK

LEMMA PoolInit == Init => PoolInv
<1> SUFFICES ASSUME Init PROVE PoolInv
  OBVIOUS
<1>1. /\ blocks = [h \in {Genesis} |-> GenesisBlock]
      /\ chain = [n \in Nodes |-> <<Genesis>>]
      /\ pending = [n \in Nodes |-> <<>>]
      /\ up \subseteq Nodes
      /\ seen = [n \in Nodes |-> {}]
      /\ pbft = [n \in Nodes |-> NewEngine]
      /\ threads = [n \in Nodes |-> {}]
  BY DEF Init, InitLedgers
<1>2. OriginsOK /\ AddersOK
  BY <1>1 DEF OriginsOK, AddersOK, Adders, Adding
<1>3. GenesisEmpty
  BY <1>1 DEF GenesisEmpty, TxsOf, Elements, GenesisBlock
<1>4. \A n \in Nodes : Pooled(n) = {} /\ Waiting(n) = {} /\ ChainTxs(n) = {}
  <2> TAKE n \in Nodes
  <2>1. Pooled(n) = {} /\ Waiting(n) = {}
    BY <1>1 DEF Pooled, Waiting, Elements
  <2>2. DOMAIN chain[n] = {1} /\ chain[n][1] = Genesis
    BY <1>1
  <2>3. ChainTxs(n) = {}
    BY <1>3, <2>2 DEF ChainTxs, GenesisEmpty
  <2> QED
    BY <2>1, <2>3
<1>5. \A h \in Hashes : ~Proposed(h)
  BY <1>1, NodeAssumption DEF Proposed, Known, NewEngine
<1> QED
  BY <1>1, <1>2, <1>3, <1>4, <1>5, NodeAssumption, InitOK DEF PoolInv, Held, LeaderOK

LEMMA OriginsStep ==
  ASSUME NodeInv, OriginsOK, [Next]_vars
  PROVE  OriginsOK'
<1>1. up \subseteq Nodes
  BY DEF NodeInv, NetworkOK
<1>2. ASSUME NEW n \in Nodes, Run(n) PROVE OriginsOK'
  BY <1>2, HandlerOrigins DEF Run
<1>3. CASE UNCHANGED vars
  BY <1>3, FewerOrigins DEF vars
<1> QED
  BY <1>2, <1>3, SubmitOrigins, ChurnOrigins DEF Next

LEMMA GenesisStep ==
  ASSUME NodeInv, GenesisEmpty, [Next]_vars
  PROVE  GenesisEmpty'
<1>1. LedgersOK /\ Heights /\ ThreadsOK
  BY DEF NodeInv
<1>2. CASE blocks' = blocks
  BY <1>2 DEF GenesisEmpty, TxsOf, Elements
<1>3. ASSUME NEW n \in Nodes, NEW h \in Hashes, CreateBlock(n, h) PROVE GenesisEmpty'
  <2>1. Genesis \in DOMAIN blocks
    BY <1>1 DEF LedgersOK
  <2>2. TxsOf(Genesis)' = TxsOf(Genesis)
    BY <1>1, <1>3, <2>1, CreateBlockTxs
  <2> QED
    BY <2>2 DEF GenesisEmpty
<1>4. ASSUME NEW n \in Nodes, NEW th \in threads[n], Step(n, th) PROVE GenesisEmpty'
  BY <1>2, <1>3, <1>4 DEF Step, OnTransaction, PoolTransaction, ProposeBlock, OnPrePrepare,
     OnPrepare, OnCommit, CommitBlock, AddTransaction, AddBlock, ledgerVars
<1>5. CASE UNCHANGED vars
  BY <1>2, <1>5 DEF vars
<1> QED
  BY <1>2, <1>4, <1>5 DEF Next, Run, Submit, Lose, Crash, Restart, ledgerVars

LEMMA HeldStep ==
  ASSUME PoolInv, \A m \in up' : FlowOrForget(m)
  PROVE  Held'
<1> SUFFICES ASSUME NEW m \in up'
             PROVE  Pooled(m)' \subseteq Waiting(m)' \cup ChainTxs(m)'
  BY DEF Held
<1> QED
  BY DEF PoolInv, Held, FlowOrForget, Flow, Stays, SameTxs, TakesIn, Moves, Forgets

LEMMA LeaderStep ==
  ASSUME PoolInv, \A m \in up' : FlowOrForget(m), LEADER_NODE \in up' => LeaderOffers
  PROVE  LeaderOK'
<1> DEFINE L == LEADER_NODE
<1> SUFFICES ASSUME L \in up'
             PROVE  /\ \A h \in Hashes \cap DOMAIN blocks' :
                         Proposed(h)' => TxsOf(h)' \subseteq Pooled(L)'
                    /\ ChainTxs(L)' \subseteq Pooled(L)'
                    /\ Waiting(L)' = Pooled(L)' \ ChainTxs(L)'
  BY DEF LeaderOK
<1>1. CASE Forgets(L)
  BY <1>1 DEF Forgets, LeaderOffers
<1>2. CASE ~Forgets(L)
  <2>1. /\ L \in up
        /\ \A h \in Hashes \cap DOMAIN blocks : Proposed(h) => TxsOf(h) \subseteq Pooled(L)
        /\ ChainTxs(L) \subseteq Pooled(L)
        /\ Waiting(L) = Pooled(L) \ ChainTxs(L)
    BY <1>2 DEF PoolInv, LeaderOK, FlowOrForget
  <2>2. Stays(L) \/ TakesIn(L) \/ Moves(L)
    BY <1>2 DEF FlowOrForget, Flow
  <2>3. Pooled(L) \subseteq Pooled(L)'
    BY <2>2 DEF Stays, TakesIn, Moves
  <2>4. \A h \in Hashes \cap DOMAIN blocks' : Proposed(h)' => TxsOf(h)' \subseteq Pooled(L)'
    BY <2>1, <2>3 DEF LeaderOffers
  <2>5. CASE Stays(L)
    BY <2>1, <2>4, <2>5 DEF Stays, SameTxs
  <2>6. CASE TakesIn(L)
    BY <2>1, <2>4, <2>6 DEF TakesIn
  <2>7. CASE Moves(L)
    <3>1. PICK th \in threads[L] :
            /\ th.call.type = "add_block"
            /\ Pooled(L)' = Pooled(L)
            /\ Waiting(L)' = Waiting(L) \ TxsOf(th.call.block)
            /\ ChainTxs(L)' = ChainTxs(L) \cup TxsOf(th.call.block)
      BY <2>7 DEF Moves
    <3>2. th.call.block \in Hashes \cap DOMAIN blocks
      BY <3>1, NodeAssumption, ThreadCall, CallFields DEF PoolInv, NodeInv, Exists, BlockCall
    <3>3. TxsOf(th.call.block) \subseteq Pooled(L)
      BY <2>1, <3>1, <3>2 DEF Proposed, Speaks
    <3> QED
      BY <2>1, <2>4, <3>1, <3>3
  <2> QED
    BY <2>2, <2>5, <2>6, <2>7
<1> QED
  BY <1>1, <1>2

LEMMA PoolStep == PoolInv /\ [Next]_vars => PoolInv'
<1> SUFFICES ASSUME PoolInv, [Next]_vars PROVE PoolInv'
  OBVIOUS
<1>1. NodeInv' /\ OriginsOK' /\ GenesisEmpty'
  BY StepKeeps, OriginsStep, GenesisStep DEF PoolInv
<1>2. AddersOK' /\ \A m \in up' : FlowOrForget(m)
  BY StepFlow DEF PoolInv
<1>3. LEADER_NODE \in up' => LeaderOffers
  BY StepOffers DEF PoolInv
<1>4. Held'
  BY <1>2, HeldStep
<1>5. LeaderOK'
  BY <1>2, <1>3, LeaderStep
<1> QED
  BY <1>1, <1>2, <1>4, <1>5 DEF PoolInv

LEMMA PoolInvariant == Spec => []PoolInv
BY PoolInit, PoolStep, PTL DEF Spec

(***************************************************************************)
(* No transaction vanishes from a running node, whoever else stops         *)
(* (node.py:160-171, blockchain.py:174-182, 234-242).                      *)
(***************************************************************************)
THEOREM NoTransactionVanishes == Spec => []NothingVanishes
<1>1. PoolInv => NothingVanishes
  <2> SUFFICES ASSUME PoolInv, NEW n \in up, NEW t \in seen[n]
               PROVE  \/ t \in Elements(pending[n]) \cup ChainTxs(n)
                      \/ \E th \in threads[n] :
                           th.call.type = "add_transaction" /\ th.call.tx = t
    BY DEF NothingVanishes
  <2>1. CASE t \in Adding(n)
    BY <2>1 DEF Adding, Adders
  <2>2. CASE t \in Pooled(n)
    BY <2>2 DEF PoolInv, Held, Waiting
  <2> QED
    BY <2>1, <2>2 DEF Pooled
<1> QED
  BY <1>1, PoolInvariant, PTL

(***************************************************************************)
(* The leader's pool is what it has taken in and not yet appended: no      *)
(* transaction of its ledger is ever offered again, also after it has been *)
(* restarted (blockchain.py:190, 238-242).                                 *)
(***************************************************************************)
THEOREM LeaderOffersTheRest == Spec => []LeaderPoolIsTheRest
<1>1. PoolInv => LeaderPoolIsTheRest
  <2> SUFFICES ASSUME PoolInv, LEADER_NODE \in up
               PROVE  Elements(pending[LEADER_NODE]) =
                        {t \in seen[LEADER_NODE] :
                           \A th \in threads[LEADER_NODE] :
                             th.call.type = "add_transaction" => th.call.tx # t}
                          \ ChainTxs(LEADER_NODE)
    BY DEF LeaderPoolIsTheRest
  <2>1. Pooled(LEADER_NODE) =
          {t \in seen[LEADER_NODE] :
             \A th \in threads[LEADER_NODE] :
               th.call.type = "add_transaction" => th.call.tx # t}
    BY DEF Pooled, Adding, Adders
  <2> QED
    BY <2>1 DEF PoolInv, LeaderOK, Waiting
<1> QED
  BY <1>1, PoolInvariant, PTL

-----------------------------------------------------------------------------
(***************************************************************************)
(* Lineages.  The first k blocks of s lead from the genesis block from     *)
(* child to child, whether some ledger still holds them or not: a leader   *)
(* that is restarted forgets a ledger that others may still extend.        *)
(***************************************************************************)
Lineage(s, k) ==
  /\ s[1] = Genesis
  /\ \A i \in 2 .. k :
       /\ s[i] \in DOMAIN blocks \ {Genesis}
       /\ blocks[s[i]].index = i - 1
       /\ blocks[s[i]].previous_hash = s[i - 1]

\* Every ledger is one.
LedgersAreLineages == \A n \in Nodes : Lineage(chain[n], Len(chain[n]))

\* A block is on one only.
OneLineage ==
  \A s, t \in Seq(Block) : \A k \in 1 .. Len(s), j \in 1 .. Len(t) :
    Lineage(s, k) /\ Lineage(t, j) /\ s[k] = t[j] =>
      k = j /\ \A i \in 1 .. k : s[i] = t[i]

\* No transaction is on it twice.
NoTxTwiceOn ==
  \A s \in Seq(Block) : \A k \in 1 .. Len(s) :
    Lineage(s, k) =>
      \A i, j \in 1 .. k : i # j => TxsOf(s[i]) \cap TxsOf(s[j]) = {}

ParentsExist ==
  \A b \in DOMAIN blocks \ {Genesis} : blocks[b].previous_hash \in DOMAIN blocks

LineageInv == LedgersAreLineages /\ OneLineage /\ NoTxTwiceOn /\ ParentsExist

\* Blocks that stay as they are have the lineages they had.
LEMMA SameLineages ==
  ASSUME OneLineage, NoTxTwiceOn, ParentsExist,
         DOMAIN blocks' = DOMAIN blocks, \A b \in DOMAIN blocks : blocks'[b] = blocks[b],
         Genesis \in DOMAIN blocks
  PROVE  /\ OneLineage' /\ NoTxTwiceOn' /\ ParentsExist'
         /\ \A s \in Seq(Block) : \A k \in 1 .. Len(s) : Lineage(s, k)' <=> Lineage(s, k)
<1>1. \A s \in Seq(Block) : \A k \in 1 .. Len(s) : Lineage(s, k)' <=> Lineage(s, k)
  BY DEF Lineage
<1>2. ASSUME NEW s \in Seq(Block), NEW k \in 1 .. Len(s), Lineage(s, k), NEW i \in 1 .. k
      PROVE  TxsOf(s[i])' = TxsOf(s[i])
  <2>1. s[i] \in DOMAIN blocks
    BY <1>2 DEF Lineage
  <2> QED
    BY <2>1 DEF TxsOf, Elements
<1>3. OneLineage'
  BY <1>1 DEF OneLineage
<1>4. NoTxTwiceOn'
  <2> SUFFICES ASSUME NEW s \in Seq(Block), NEW k \in 1 .. Len(s), Lineage(s, k)',
                      NEW i \in 1 .. k, NEW j \in 1 .. k, i # j
               PROVE  TxsOf(s[i])' \cap TxsOf(s[j])' = {}
    BY DEF NoTxTwiceOn
  <2>1. Lineage(s, k)
    BY <1>1
  <2>2. TxsOf(s[i])' = TxsOf(s[i]) /\ TxsOf(s[j])' = TxsOf(s[j])
    BY <1>2, <2>1
  <2> QED
    BY <2>1, <2>2 DEF NoTxTwiceOn
<1>5. ParentsExist'
  BY DEF ParentsExist
<1> QED
  BY <1>1, <1>3, <1>4, <1>5

\* A new block ends every lineage it is on, which is that of its maker's ledger.
LEMMA NewLineage ==
  ASSUME LineageInv, LedgersOK, Heights, NEW n \in Nodes, NEW h \in Hashes,
         h \notin DOMAIN blocks, CreateBlock(n, h),
         NEW s \in Seq(Block), NEW k \in 1 .. Len(s), Lineage(s, k)'
  PROVE  /\ s[k] # h => Lineage(s, k) /\ \A i \in 1 .. k : s[i] \in DOMAIN blocks
         /\ s[k] = h => /\ k = Len(chain[n]) + 1
                        /\ \A i \in 1 .. Len(chain[n]) : s[i] = chain[n][i]
<1> DEFINE L == Len(chain[n])
<1>1. /\ DOMAIN blocks' = DOMAIN blocks \cup {h}
      /\ \A b \in DOMAIN blocks : blocks'[b] = blocks[b]
      /\ blocks'[h].index = L
      /\ blocks'[h].previous_hash = Tip(n)
  BY CreateBlockAdds
<1>2. /\ Genesis \in DOMAIN blocks /\ h # Genesis
      /\ L \in Nat /\ L >= 1 /\ Tip(n) = chain[n][L] /\ Tip(n) \in DOMAIN blocks
  BY ChainSpan, LedgerAssumption DEF LedgersOK, Tip
<1>3. /\ s[1] = Genesis /\ k \in Nat /\ k >= 1
      /\ \A i \in 2 .. k : /\ s[i] \in DOMAIN blocks' \ {Genesis}
                           /\ blocks'[s[i]].index = i - 1
                           /\ blocks'[s[i]].previous_hash = s[i - 1]
  BY DEF Lineage
<1> HIDE DEF L
<1>4. ASSUME NEW i \in 1 .. k, i < k PROVE s[i] # h
  <2>1. i + 1 \in 2 .. k /\ (i + 1) - 1 = i
    BY <1>3, <1>4
  <2>2. s[i + 1] \in DOMAIN blocks' \ {Genesis} /\ blocks'[s[i + 1]].previous_hash = s[i]
    BY <1>3, <2>1
  <2>3. CASE s[i + 1] = h
    BY <1>1, <1>2, <2>2, <2>3
  <2>4. CASE s[i + 1] \in DOMAIN blocks
    BY <1>1, <2>2, <2>4 DEF LineageInv, ParentsExist
  <2> QED
    BY <1>1, <2>2, <2>3, <2>4
\* Below the last place nothing has changed.
<1>5. ASSUME NEW j \in 1 .. k, \A i \in 1 .. j : s[i] # h
      PROVE  Lineage(s, j) /\ \A i \in 1 .. j : s[i] \in DOMAIN blocks
  <2>1. \A i \in 2 .. j : i \in 2 .. k /\ s[i] # h
    BY <1>3, <1>5
  <2>2. \A i \in 2 .. j : /\ s[i] \in DOMAIN blocks \ {Genesis}
                          /\ blocks[s[i]].index = i - 1
                          /\ blocks[s[i]].previous_hash = s[i - 1]
    BY <1>1, <1>3, <2>1
  <2>3. \A i \in 1 .. j : i = 1 \/ i \in 2 .. j
    BY <1>3
  <2> QED
    BY <1>2, <1>3, <2>2, <2>3 DEF Lineage
<1>6. CASE s[k] # h
  <2>1. \A i \in 1 .. k : s[i] # h
    BY <1>3, <1>4, <1>6
  <2> QED
    BY <1>3, <1>5, <1>6, <2>1
<1>7. CASE s[k] = h
  <2>1. k \in 2 .. k /\ k - 1 \in 1 .. k /\ k - 1 < k
    BY <1>2, <1>3, <1>7
  <2>2. k = L + 1 /\ s[k - 1] = Tip(n)
    BY <1>1, <1>2, <1>3, <1>7, <2>1
  <2>3. \A i \in 1 .. (k - 1) : s[i] # h
    BY <1>3, <1>4
  <2>4. Lineage(s, k - 1)
    BY <1>5, <2>1, <2>3
  <2>5. Lineage(chain[n], L) /\ chain[n] \in Seq(Block) /\ L \in 1 .. Len(chain[n])
    BY <1>2, ChainSpan DEF LineageInv, LedgersAreLineages, L
  <2>6. k - 1 \in 1 .. Len(s)
    BY <1>3, <2>1
  <2>7. \A i \in 1 .. (k - 1) : s[i] = chain[n][i]
    BY <1>2, <2>2, <2>4, <2>5, <2>6 DEF LineageInv, OneLineage
  <2> QED
    BY <1>2, <1>7, <2>2, <2>7 DEF L
<1> QED
  BY <1>6, <1>7

\* The leader's proposal carries nothing of its own ledger.
LEMMA CreateBlockLineages ==
  ASSUME LineageInv, LedgersOK, Heights, NEW n \in Nodes, NEW h \in Hashes,
         CreateBlock(n, h), Waiting(n) \cap ChainTxs(n) = {}
  PROVE  LineageInv'
<1> DEFINE L == Len(chain[n])
<1>1. /\ DOMAIN blocks' = DOMAIN blocks \cup {h}
      /\ \A b \in DOMAIN blocks : blocks'[b] = blocks[b]
      /\ blocks'[h].previous_hash = Tip(n)
      /\ chain' = chain
  BY CreateBlockAdds
<1>2. /\ \A m \in Nodes : chain[m] \in Seq(Block) /\ Len(chain[m]) \in 1 .. Len(chain[m])
      /\ Genesis \in DOMAIN blocks /\ Tip(n) \in DOMAIN blocks /\ L \in Nat
  BY ChainSpan DEF LedgersOK
<1>3. ParentsExist'
  BY <1>1, <1>2 DEF LineageInv, ParentsExist
<1>4. LedgersAreLineages'
  <2> SUFFICES ASSUME NEW m \in Nodes PROVE Lineage(chain[m], Len(chain[m]))'
    BY DEF LedgersAreLineages
  <2>1. Lineage(chain[m], Len(chain[m]))
    BY DEF LineageInv, LedgersAreLineages
  <2> QED
    BY <1>1, <2>1 DEF Lineage
<1>5. CASE h \in DOMAIN blocks
  <2>1. OneLineage' /\ NoTxTwiceOn'
    BY <1>1, <1>2, <1>5, SameLineages DEF LineageInv
  <2> QED
    BY <1>3, <1>4, <2>1 DEF LineageInv
<1>6. CASE h \notin DOMAIN blocks
  <2>1. ASSUME NEW s \in Seq(Block), NEW k \in 1 .. Len(s), Lineage(s, k)'
        PROVE  /\ s[k] # h => Lineage(s, k) /\ \A i \in 1 .. k : s[i] \in DOMAIN blocks
               /\ s[k] = h => k = L + 1 /\ \A i \in 1 .. L : s[i] = chain[n][i]
    BY <1>6, <2>1, NewLineage
  <2>2. OneLineage'
    <3> SUFFICES ASSUME NEW s \in Seq(Block), NEW t \in Seq(Block),
                        NEW k \in 1 .. Len(s), NEW j \in 1 .. Len(t),
                        Lineage(s, k)', Lineage(t, j)', s[k] = t[j]
                 PROVE  k = j /\ \A i \in 1 .. k : s[i] = t[i]
      BY DEF OneLineage
    <3>1. CASE s[k] # h
      <4>1. Lineage(s, k) /\ Lineage(t, j)
        BY <2>1, <3>1
      <4> QED
        BY <4>1 DEF LineageInv, OneLineage
    <3>2. CASE s[k] = h
      <4>1. k = L + 1 /\ j = L + 1 /\ \A i \in 1 .. L : s[i] = chain[n][i] /\ t[i] = chain[n][i]
        BY <2>1, <3>2
      <4>2. \A i \in 1 .. k : i \in 1 .. L \/ i = k
        BY <1>2, <4>1
      <4> QED
        BY <4>1, <4>2
    <3> QED
      BY <3>1, <3>2
  <2>3. /\ \A b \in DOMAIN blocks : TxsOf(b)' = TxsOf(b)
        /\ TxsOf(h)' \subseteq Waiting(n)
    BY CreateBlockTxs
  <2>4. \A i \in 1 .. L : chain[n][i] \in DOMAIN blocks /\ TxsOf(chain[n][i]) \subseteq ChainTxs(n)
    BY ChainSpan DEF LedgersOK, ChainTxs
  <2>5. NoTxTwiceOn'
    <3> SUFFICES ASSUME NEW s \in Seq(Block), NEW k \in 1 .. Len(s), Lineage(s, k)',
                        NEW i \in 1 .. k, NEW j \in 1 .. k, i # j
                 PROVE  TxsOf(s[i])' \cap TxsOf(s[j])' = {}
      BY DEF NoTxTwiceOn
    <3>1. CASE s[k] # h
      <4>1. Lineage(s, k) /\ s[i] \in DOMAIN blocks /\ s[j] \in DOMAIN blocks
        BY <2>1, <3>1
      <4> QED
        BY <2>3, <4>1 DEF LineageInv, NoTxTwiceOn
    <3>2. CASE s[k] = h
      <4>1. k = L + 1 /\ \A x \in 1 .. L : s[x] = chain[n][x]
        BY <2>1, <3>2
      <4>2. (i \in 1 .. L \/ i = k) /\ (j \in 1 .. L \/ j = k)
        BY <1>2, <4>1
      <4>3. \A x \in 1 .. L : TxsOf(s[x])' = TxsOf(chain[n][x]) /\ s[x] = chain[n][x]
        BY <2>3, <2>4, <4>1
      <4>4. \A x \in 1 .. L : TxsOf(s[x])' \cap TxsOf(h)' = {}
        BY <2>3, <2>4, <4>3
      <4>5. CASE i \in 1 .. L /\ j \in 1 .. L
        <5>1. Lineage(chain[n], L) /\ L \in 1 .. Len(chain[n])
          BY <1>2 DEF LineageInv, LedgersAreLineages
        <5>2. TxsOf(chain[n][i]) \cap TxsOf(chain[n][j]) = {}
          BY <1>2, <4>5, <5>1 DEF LineageInv, NoTxTwiceOn
        <5> QED
          BY <4>3, <4>5, <5>2
      <4> QED
        BY <3>2, <4>2, <4>4, <4>5
    <3> QED
      BY <3>1, <3>2
  <2> QED
    BY <1>3, <1>4, <2>2, <2>5 DEF LineageInv
<1> QED
  BY <1>5, <1>6

LEMMA AddBlockLineages ==
  ASSUME LineageInv, LedgersOK, Heights, NEW n \in Nodes, NEW h \in Hashes,
         h \in DOMAIN blocks, AddBlock(n, h)
  PROVE  LineageInv'
<1> DEFINE L == Len(chain[n])
<1>1. /\ blocks' = blocks
      /\ \/ chain' = chain
         \/ /\ blocks[h].index = L
            /\ blocks[h].previous_hash = Tip(n)
            /\ chain' = [chain EXCEPT ![n] = Append(@, h)]
  BY AddBlockAppends
<1>2. OneLineage' /\ NoTxTwiceOn' /\ ParentsExist'
  BY <1>1, SameLineages DEF LineageInv, LedgersOK
<1>3. ASSUME NEW m \in Nodes, chain'[m] = chain[m]
      PROVE  Lineage(chain[m], Len(chain[m]))'
  BY <1>1, <1>3 DEF LineageInv, LedgersAreLineages, Lineage
<1>4. CASE chain' = chain
  BY <1>2, <1>3, <1>4 DEF LineageInv, LedgersAreLineages
<1>5. CASE /\ blocks[h].index = L
           /\ blocks[h].previous_hash = Tip(n)
           /\ chain' = [chain EXCEPT ![n] = Append(@, h)]
  <2>1. chain'[n] = Append(chain[n], h) /\ \A m \in Nodes : m # n => chain'[m] = chain[m]
    BY <1>5 DEF LedgersOK
  <2>2. chain[n] \in Seq(Block) /\ L \in Nat /\ L >= 1 /\ h \in Block /\ h # Genesis
    BY ChainSpan, LedgerAssumption DEF LedgersOK, Block
  <2>3. Lineage(chain[n], L)
    BY DEF LineageInv, LedgersAreLineages
  <2> DEFINE new == Append(chain[n], h)
  <2>4. /\ Len(new) = L + 1 /\ new[L + 1] = h
        /\ \A i \in 1 .. L : new[i] = chain[n][i]
    BY <2>2
  <2> HIDE DEF new
  <2>5. new[1] = Genesis
    BY <2>2, <2>3, <2>4 DEF Lineage
  <2>6. ASSUME NEW i \in 2 .. (L + 1)
        PROVE  /\ new[i] \in DOMAIN blocks \ {Genesis}
               /\ blocks[new[i]].index = i - 1
               /\ blocks[new[i]].previous_hash = new[i - 1]
    <3>1. CASE i = L + 1
      BY <1>5, <2>2, <2>4, <3>1 DEF Tip
    <3>2. CASE i \in 2 .. L
      <4>1. i \in 1 .. L /\ i - 1 \in 1 .. L
        BY <2>2, <3>2
      <4> QED
        BY <2>3, <2>4, <3>2, <4>1 DEF Lineage
    <3> QED
      BY <2>2, <3>1, <3>2
  <2>7. Lineage(chain[n], Len(chain[n]))'
    <3>1. chain'[n] = new
      BY <2>1 DEF new
    <3> QED
      BY <1>1, <2>4, <2>5, <2>6, <3>1 DEF Lineage
  <2>8. LedgersAreLineages'
    BY <1>3, <2>1, <2>7 DEF LedgersAreLineages
  <2> QED
    BY <1>2, <2>8 DEF LineageInv
<1> QED
  BY <1>1, <1>4, <1>5

LEMMA RestartLineages ==
  ASSUME LineageInv, LedgersOK, NEW n \in Nodes, Restart(n)
  PROVE  LineageInv'
<1>1. blocks' = blocks /\ chain' = [chain EXCEPT ![n] = <<Genesis>>]
  BY DEF Restart
<1>2. OneLineage' /\ NoTxTwiceOn' /\ ParentsExist'
  BY <1>1, SameLineages DEF LineageInv, LedgersOK
<1>3. chain'[n] = <<Genesis>> /\ \A m \in Nodes : m # n => chain'[m] = chain[m]
  BY <1>1 DEF LedgersOK
<1>4. Lineage(chain[n], Len(chain[n]))'
  <2>1. Len(chain'[n]) = 1 /\ chain'[n][1] = Genesis
    BY <1>3
  <2> QED
    BY <2>1 DEF Lineage
<1>5. ASSUME NEW m \in Nodes, m # n PROVE Lineage(chain[m], Len(chain[m]))'
  BY <1>1, <1>3, <1>5 DEF LineageInv, LedgersAreLineages, Lineage
<1>6. LedgersAreLineages'
  BY <1>4, <1>5 DEF LedgersAreLineages
<1> QED
  BY <1>2, <1>6 DEF LineageInv

LEMMA LineageInit == Init => LineageInv
<1> SUFFICES ASSUME Init PROVE LineageInv
  OBVIOUS
<1>1. DOMAIN blocks = {Genesis} /\ chain = [n \in Nodes |-> <<Genesis>>]
  BY DEF Init, InitLedgers
<1>2. \A n \in Nodes : Len(chain[n]) = 1 /\ chain[n][1] = Genesis
  BY <1>1
<1>3. ASSUME NEW s \in Seq(Block), NEW k \in 1 .. Len(s), Lineage(s, k)
      PROVE  k = 1 /\ s[1] = Genesis
  <2>1. 2 \notin 2 .. k
    BY <1>1, <1>3 DEF Lineage
  <2> QED
    BY <1>3, <2>1 DEF Lineage
<1>4. LedgersAreLineages
  BY <1>2 DEF LedgersAreLineages, Lineage
<1>5. OneLineage
  BY <1>3 DEF OneLineage
<1>6. NoTxTwiceOn
  BY <1>3 DEF NoTxTwiceOn
<1>7. ParentsExist
  BY <1>1 DEF ParentsExist
<1> QED
  BY <1>4, <1>5, <1>6, <1>7 DEF LineageInv

LEMMA LineageStep == PoolInv /\ LineageInv /\ [Next]_vars => LineageInv'
<1> SUFFICES ASSUME PoolInv, LineageInv, [Next]_vars PROVE LineageInv'
  OBVIOUS
<1>1. LedgersOK /\ Heights /\ ThreadsOK
  BY DEF PoolInv, NodeInv
<1>2. CASE UNCHANGED <<blocks, chain>>
  <2>1. OneLineage' /\ NoTxTwiceOn' /\ ParentsExist'
    BY <1>1, <1>2, SameLineages DEF LineageInv, LedgersOK
  <2>2. LedgersAreLineages'
    BY <1>2 DEF LineageInv, LedgersAreLineages, Lineage
  <2> QED
    BY <2>1, <2>2 DEF LineageInv
<1>3. ASSUME NEW n \in Nodes, NEW th \in threads[n], n \in up, Step(n, th) PROVE LineageInv'
  <2>1. CASE OnTransaction(n, th) \/ OnPrePrepare(n, th) \/ OnPrepare(n, th) \/ OnCommit(n, th)
    BY <1>2, <2>1 DEF OnTransaction, OnPrePrepare, OnPrepare, OnCommit, ledgerVars
  <2>2. CASE PoolTransaction(n, th)
    BY <1>2, <2>2 DEF PoolTransaction, AddTransaction
  <2>3. CASE ProposeBlock(n, th)
    <3>1. n = LEADER_NODE
      BY <1>1, <2>3, ThreadCall DEF ProposeBlock
    <3>2. Waiting(n) \cap ChainTxs(n) = {}
      BY <1>3, <3>1 DEF PoolInv, LeaderOK
    <3>3. (\E h \in Hashes : CreateBlock(n, h)) \/ UNCHANGED ledgerVars
      BY <2>3 DEF ProposeBlock
    <3> QED
      BY <1>1, <1>2, <3>2, <3>3, CreateBlockLineages DEF ledgerVars
  <2>4. CASE CommitBlock(n, th)
    <3>1. th.call.block \in Hashes /\ th.call.block \in DOMAIN blocks
      BY <1>1, <2>4, ThreadCall, CallFields DEF CommitBlock, Exists, BlockCall
    <3>2. AddBlock(n, th.call.block)
      BY <2>4 DEF CommitBlock
    <3> QED
      BY <1>1, <3>1, <3>2, AddBlockLineages
  <2> QED
    BY <1>3, <2>1, <2>2, <2>3, <2>4 DEF Step
<1>4. ASSUME NEW n \in Nodes, Restart(n) PROVE LineageInv'
  BY <1>1, <1>4, RestartLineages
<1>5. CASE UNCHANGED vars
  BY <1>2, <1>5 DEF vars
<1>6. ASSUME NEW n \in Nodes, (\E t \in Txs : Submit(n, t)) \/ Lose(n) \/ Crash(n)
      PROVE  LineageInv'
  BY <1>2, <1>6 DEF Submit, Lose, Crash, ledgerVars
<1> QED
  BY <1>3, <1>4, <1>5, <1>6 DEF Next, Run

(***************************************************************************)
(* No ledger of the network holds a transaction twice, although every      *)
(* batch stays in the leader's pool while it is proposed and a transaction *)
(* reaches a follower's pool at any time (blockchain.py:190, 238-242), and *)
(* although the leader may forget all it has done.                         *)
(***************************************************************************)
THEOREM NoTransactionTwice == Spec => []NoTxTwice
<1>1. PoolInv /\ LineageInv => NoTxTwice
  <2> SUFFICES ASSUME PoolInv, LineageInv, NEW n \in Nodes,
                      NEW i \in DOMAIN chain[n], NEW j \in DOMAIN chain[n], i # j
               PROVE  TxsOf(chain[n][i]) \cap TxsOf(chain[n][j]) = {}
    BY DEF NoTxTwice
  <2>1. LedgersOK
    BY DEF PoolInv, NodeInv
  <2>2. /\ chain[n] \in Seq(Block) /\ DOMAIN chain[n] = 1 .. Len(chain[n])
        /\ Len(chain[n]) \in 1 .. Len(chain[n])
    BY <2>1, ChainSpan DEF LedgersOK
  <2>3. Lineage(chain[n], Len(chain[n]))
    BY DEF LineageInv, LedgersAreLineages
  <2> QED
    BY <2>2, <2>3 DEF LineageInv, NoTxTwiceOn
<1>2. Spec => []LineageInv
  BY PoolInvariant, LineageInit, LineageStep, PTL DEF Spec
<1> QED
  BY <1>1, <1>2, PoolInvariant, PTL

-----------------------------------------------------------------------------
(***************************************************************************)
(* The endpoints.                                                          *)
(***************************************************************************)

CommittedAt(n) == {h \in Hashes : Committed(n, h)}

\* A pool holds a transaction once.
Distinct(s) == \A i, j \in 1 .. Len(s) : s[i] = s[j] => i = j
NoDuplicates == \A n \in Nodes : Distinct(pending[n])

Finite == \A n \in Nodes : IsFiniteSet(seen[n]) /\ IsFiniteSet(CommittedAt(n))

\* What is on a ledger, or about to be appended, has been committed.
Earned ==
  \A n \in Nodes :
    /\ \A th \in threads[n] : th.call.type = "add_block" => th.call.block \in CommittedAt(n)
    /\ \A i \in 2 .. Len(chain[n]) : chain[n][i] \in CommittedAt(n)

AskedRun == Asked \subseteq up

TallyInv == NoDuplicates /\ Finite /\ Earned /\ AskedRun

-----------------------------------------------------------------------------
Request ==
  [node : Asked, endpoint : {"status", "validate"}, made : Nat,
   length : Nat, pooled : Nat, valid : BOOLEAN, rounds : Nat]

CountedTxs(r) == UNION {TxsOf(chain[r.node][i]) : i \in 1 .. r.length}

\* What has been read so far stays true: the ledger keeps the blocks that were
\* counted, no read after that can find fewer transactions or rounds.
SoFar(r) ==
  /\ r \in Request
  /\ r.made \in 1 .. Len(Reads[r.endpoint])
  /\ r.endpoint = "status" =>
       /\ r.length \in 1 .. Len(chain[r.node])
       /\ r.made >= 2 /\ r.node = LEADER_NODE =>
            r.pooled + Cardinality(CountedTxs(r)) <= Cardinality(seen[r.node])
       /\ r.made >= 4 => r.rounds >= r.length - 1

RequestOK == request # NoRequest => SoFar(request)

-----------------------------------------------------------------------------
(***************************************************************************)
(* What a step does to one node: at most one transaction is seen, at most  *)
(* one block committed and at most one committed block appended.           *)
(***************************************************************************)
SeenAt(m) == \E t : seen[m] \subseteq seen'[m] /\ seen'[m] \subseteq seen[m] \cup {t}

EngineAt(m) ==
  \E h : CommittedAt(m) \subseteq CommittedAt(m)' /\ CommittedAt(m)' \subseteq CommittedAt(m) \cup {h}

AddersAt(m) ==
  \A x \in threads'[m] :
    x.call.type = "add_block" => x \in threads[m] \/ x.call.block \in CommittedAt(m)'

ChainAt(m) == chain'[m] = chain[m] \/ \E h \in CommittedAt(m) : chain'[m] = Append(chain[m], h)

Grows(m) == SeenAt(m) /\ EngineAt(m) /\ AddersAt(m) /\ ChainAt(m)

\* A process that starts again.
Fresh(m) ==
  /\ m \notin up
  /\ seen'[m] = {} /\ CommittedAt(m)' = {} /\ chain'[m] = <<Genesis>>
  /\ \A x \in threads'[m] : x.call.type # "add_block"

BlocksKept == \A b \in DOMAIN blocks : blocks'[b] = blocks[b]

\* Threads that are not about to append.
NoNewAdder ==
  \A m \in Nodes : \A x \in threads'[m] : x.call.type = "add_block" => x \in threads[m]

LEMMA FinishAddsNone ==
  ASSUME ThreadsOK, NEW n \in Nodes, NEW th \in threads[n], Finish(n, th)
  PROVE  NoNewAdder
<1>1. \A m \in Nodes : \A x \in threads'[m] :
        x \in threads[m] \/ \E msg \in th.owed : x = Receive(msg)
  BY FinishThreads DEF ThreadsOK
<1>2. \A msg \in th.owed : Receive(msg).call.type # "add_block"
  <2>1. th.owed \subseteq Message
    BY ThreadCall
  <2> QED
    BY <2>1 DEF Receive, Message
<1> QED
  BY <1>1, <1>2 DEF NoNewAdder

LEMMA ContinueAddsOne ==
  ASSUME ThreadsOK, NEW n \in Nodes, NEW th \in threads[n],
         NEW call \in Call, NEW owes \in SUBSET Message, Continue(n, th, call, owes)
  PROVE  \A m \in Nodes : \A x \in threads'[m] : x \in threads[m] \/ (m = n /\ x.call = call)
<1>1. \A m \in Nodes : \A x \in threads'[m] :
        x \in threads[m] \/ (m = n /\ x = [call |-> call, owed |-> th.owed \cup owes])
  BY ContinueThreads DEF ThreadsOK
<1> QED
  BY <1>1

LEMMA Unaffected ==
  ASSUME NEW m \in Nodes, seen'[m] = seen[m], pbft'[m] = pbft[m], chain'[m] = chain[m], NoNewAdder
  PROVE  Grows(m)
<1>1. CommittedAt(m)' = CommittedAt(m)
  BY DEF CommittedAt, Committed
<1> QED
  BY <1>1 DEF Grows, SeenAt, EngineAt, AddersAt, ChainAt, NoNewAdder

\* A handler commits the block it is about, or none, and undoes no commit.
LEMMA OneCommit ==
  ASSUME NEW e \in Engine, NEW h \in Hashes, NEW s \in Nodes,
         NEW new \in {HandlePrePrepare(e, h), HandlePrepare(e, h, s), HandleCommit(e, h, s)},
         NEW g \in Hashes
  PROVE  /\ e.status[g] = "committed" => new.status[g] = "committed"
         /\ new.status[g] = "committed" => e.status[g] = "committed" \/ g = h
<1>1. CASE new = HandlePrePrepare(e, h)
  BY <1>1 DEF HandlePrePrepare, ShouldPrepare, Known, Engine, Status
<1>2. CASE new = HandlePrepare(e, h, s)
  BY <1>2 DEF HandlePrepare, ShouldCommit, Known, Engine, Status
<1>3. CASE new = HandleCommit(e, h, s)
  BY <1>3 DEF HandleCommit, ShouldAdd, Known, Engine, Status
<1> QED
  BY <1>1, <1>2, <1>3

LEMMA AddsWhatItCommits ==
  ASSUME NEW e \in Engine, NEW h \in Hashes, NEW s \in Nodes, ShouldAdd(e, h, s)
  PROVE  HandleCommit(e, h, s).status[h] = "committed"
BY DEF HandleCommit, ShouldAdd, Known, Engine, Status

LEMMA EngineStep ==
  ASSUME ProtocolOK, NEW n \in Nodes, NEW h \in Hashes, NEW s \in Nodes,
         \/ pbft' = [pbft EXCEPT ![n] = HandlePrePrepare(@, h)]
         \/ pbft' = [pbft EXCEPT ![n] = HandlePrepare(@, h, s)]
         \/ pbft' = [pbft EXCEPT ![n] = HandleCommit(@, h, s)]
  PROVE  EngineAt(n) /\ \A m \in Nodes : m # n => pbft'[m] = pbft[m]
<1>1. /\ pbft[n] \in Engine /\ \A m \in Nodes : m # n => pbft'[m] = pbft[m]
      /\ pbft'[n] \in {HandlePrePrepare(pbft[n], h), HandlePrepare(pbft[n], h, s),
                       HandleCommit(pbft[n], h, s)}
  BY DEF ProtocolOK
<1>2. \A g \in Hashes : /\ pbft[n].status[g] = "committed" => pbft'[n].status[g] = "committed"
                        /\ pbft'[n].status[g] = "committed" =>
                             pbft[n].status[g] = "committed" \/ g = h
  BY <1>1, OneCommit
<1>3. /\ CommittedAt(n) \subseteq CommittedAt(n)'
      /\ CommittedAt(n)' \subseteq CommittedAt(n) \cup {h}
  BY <1>2 DEF CommittedAt, Committed
<1> QED
  BY <1>1, <1>3 DEF EngineAt

LEMMA QuietThreads ==
  ASSUME NodeInv, NEW n \in Nodes, NEW th \in threads[n],
         \/ OnTransaction(n, th) \/ PoolTransaction(n, th) \/ ProposeBlock(n, th)
         \/ OnPrePrepare(n, th) \/ OnPrepare(n, th) \/ CommitBlock(n, th)
  PROVE  NoNewAdder
<1>1. /\ th.call.type \in {"TRANSACTION", "add_transaction"} => th.call.tx \in Txs
      /\ th.call.type \in {"PRE-PREPARE", "PREPARE"} => th.call.block \in Hashes
  BY ThreadCall, CallFields DEF NodeInv
<1>2. \/ Finish(n, th)
      \/ \E call \in Call, owes \in SUBSET Message :
           Continue(n, th, call, owes) /\ call.type # "add_block"
  <2>1. ASSUME NEW h \in Hashes, NEW kind \in {"PRE-PREPARE", "PREPARE", "COMMIT"},
               Continue(n, th, Vote(kind, n, h), {Vote(kind, n, h)})
        PROVE  \E call \in Call, owes \in SUBSET Message :
                 Continue(n, th, call, owes) /\ call.type # "add_block"
    <3> DEFINE vote == Vote(kind, n, h)
    <3>1. vote \in Call /\ {vote} \in SUBSET Message /\ vote.type # "add_block"
      BY MadeCalls DEF Call, Vote
    <3> HIDE DEF vote
    <3> QED
      BY <2>1, <3>1 DEF vote
  <2>2. ASSUME NEW t \in Txs, NEW kind \in {"add_transaction", "create_block"},
               Continue(n, th, [type |-> kind, tx |-> t], {})
        PROVE  \E call \in Call, owes \in SUBSET Message :
                 Continue(n, th, call, owes) /\ call.type # "add_block"
    <3> DEFINE call == [type |-> kind, tx |-> t]
    <3>1. call \in Call /\ {} \in SUBSET Message /\ call.type # "add_block"
      BY MadeCalls DEF Call
    <3> HIDE DEF call
    <3> QED
      BY <2>2, <3>1 DEF call
  <2> QED
    BY <1>1, <2>1, <2>2
       DEF OnTransaction, PoolTransaction, ProposeBlock, OnPrePrepare, OnPrepare, CommitBlock
<1>3. CASE Finish(n, th)
  BY <1>3, FinishAddsNone DEF NodeInv
<1>4. ASSUME NEW call \in Call, NEW owes \in SUBSET Message,
             Continue(n, th, call, owes), call.type # "add_block"
      PROVE  NoNewAdder
  <2>1. \A m \in Nodes : \A x \in threads'[m] : x \in threads[m] \/ (m = n /\ x.call = call)
    BY <1>4, ContinueAddsOne DEF NodeInv
  <2> QED
    BY <1>4, <2>1 DEF NoNewAdder
<1> QED
  BY <1>2, <1>3, <1>4

LEMMA OnTransactionGrows ==
  ASSUME NodeInv, NEW n \in Nodes, NEW th \in threads[n], OnTransaction(n, th), NEW m \in Nodes
  PROVE  Grows(m)
<1>1. NoNewAdder
  BY QuietThreads
<1>2. /\ seen'[m] = IF m = n THEN seen[m] \cup {th.call.tx} ELSE seen[m]
      /\ pbft' = pbft /\ chain' = chain
  BY DEF OnTransaction, ledgerVars, NodeInv, ProtocolOK
<1>3. CommittedAt(m)' = CommittedAt(m)
  BY <1>2 DEF CommittedAt, Committed
<1>4. SeenAt(m)
  BY <1>2 DEF SeenAt
<1> QED
  BY <1>1, <1>2, <1>3, <1>4 DEF Grows, EngineAt, AddersAt, ChainAt, NoNewAdder

LEMMA PoolingGrows ==
  ASSUME NodeInv, NEW n \in Nodes, NEW th \in threads[n],
         PoolTransaction(n, th) \/ ProposeBlock(n, th), NEW m \in Nodes
  PROVE  Grows(m)
<1>1. NoNewAdder
  BY QuietThreads
<1>2. seen' = seen /\ pbft' = pbft /\ chain' = chain
  BY DEF PoolTransaction, ProposeBlock, AddTransaction, CreateBlock, ledgerVars, protocolVars
<1> QED
  BY <1>1, <1>2, Unaffected

LEMMA VotingGrows ==
  ASSUME NodeInv, NEW n \in Nodes, NEW th \in threads[n],
         OnPrePrepare(n, th) \/ OnPrepare(n, th) \/ OnCommit(n, th), NEW m \in Nodes
  PROVE  Grows(m)
<1> DEFINE h == th.call.block
           s == th.call.sender
<1>1. h \in Hashes /\ s \in Nodes
  BY ThreadCall, CallFields DEF NodeInv, OnPrePrepare, OnPrepare, OnCommit
<1>2. seen' = seen /\ chain' = chain
  BY DEF OnPrePrepare, OnPrepare, OnCommit, ledgerVars
<1>3. \/ pbft' = [pbft EXCEPT ![n] = HandlePrePrepare(@, h)]
      \/ pbft' = [pbft EXCEPT ![n] = HandlePrepare(@, h, s)]
      \/ pbft' = [pbft EXCEPT ![n] = HandleCommit(@, h, s)]
  BY DEF OnPrePrepare, OnPrepare, OnCommit
<1>4. EngineAt(n) /\ \A q \in Nodes : q # n => pbft'[q] = pbft[q]
  <2> HIDE DEF h, s
  <2> QED
    BY <1>1, <1>3, EngineStep DEF NodeInv
<1>5. EngineAt(m)
  <2>1. CASE m = n
    BY <1>4, <2>1
  <2>2. CASE m # n
    BY <1>4, <2>2 DEF EngineAt, CommittedAt, Committed
  <2> QED
    BY <2>1, <2>2
<1>6. AddersAt(m)
  <2>1. CASE OnPrePrepare(n, th) \/ OnPrepare(n, th)
    BY <2>1, QuietThreads DEF NoNewAdder, AddersAt
  <2>2. CASE OnCommit(n, th) /\ ~ShouldAdd(pbft[n], h, s)
    <3>1. Finish(n, th)
      BY <2>2 DEF OnCommit
    <3> QED
      BY <3>1, FinishAddsNone DEF NodeInv, NoNewAdder, AddersAt
  <2>3. CASE OnCommit(n, th) /\ ShouldAdd(pbft[n], h, s)
    <3> DEFINE call == [type |-> "add_block", block |-> h]
    <3>1. Continue(n, th, call, {}) /\ pbft' = [pbft EXCEPT ![n] = HandleCommit(pbft[n], h, s)]
      BY <2>3 DEF OnCommit
    <3>2. call \in Call /\ {} \in SUBSET Message
      BY <1>1, MadeCalls DEF Call
    <3>3. call.block = h
      OBVIOUS
    <3> HIDE DEF call
    <3>4. \A x \in threads'[m] : x \in threads[m] \/ (m = n /\ x.call = call)
      BY <3>1, <3>2, ContinueAddsOne DEF NodeInv
    <3>5. pbft[n] \in Engine /\ pbft'[n] = HandleCommit(pbft[n], h, s)
      BY <3>1 DEF NodeInv, ProtocolOK
    <3>6. pbft'[n].status[h] = "committed"
      BY <1>1, <2>3, <3>5, AddsWhatItCommits
    <3>7. h \in CommittedAt(n)'
      BY <1>1, <3>6 DEF CommittedAt, Committed
    <3> QED
      BY <3>3, <3>4, <3>7 DEF AddersAt
  <2> QED
    BY <2>1, <2>2, <2>3
<1> QED
  BY <1>2, <1>5, <1>6 DEF Grows, SeenAt, ChainAt

LEMMA CommitBlockGrows ==
  ASSUME NodeInv, Earned, NEW n \in Nodes, NEW th \in threads[n], CommitBlock(n, th), NEW m \in Nodes
  PROVE  Grows(m)
<1> DEFINE h == th.call.block
<1>1. NoNewAdder
  BY QuietThreads
<1>2. th.call.type = "add_block" /\ AddBlock(n, h) /\ seen' = seen /\ pbft' = pbft
  BY DEF CommitBlock, protocolVars
<1>3. h \in Hashes /\ h \in DOMAIN blocks /\ h \in CommittedAt(n)
  BY <1>2, ThreadCall, CallFields DEF Exists, BlockCall, NodeInv, Earned
<1>4. chain' = chain \/ chain' = [chain EXCEPT ![n] = Append(@, h)]
  BY <1>2, <1>3, AddBlockAppends DEF NodeInv
<1>5. ChainAt(m)
  BY <1>3, <1>4 DEF ChainAt, NodeInv, LedgersOK
<1>6. CommittedAt(m)' = CommittedAt(m)
  BY <1>2 DEF CommittedAt, Committed
<1> QED
  BY <1>1, <1>2, <1>5, <1>6 DEF Grows, SeenAt, EngineAt, AddersAt, NoNewAdder

LEMMA RunGrows ==
  ASSUME NodeInv, Earned, NEW n \in Nodes, Run(n), NEW m \in Nodes
  PROVE  Grows(m)
<1>1. PICK th \in threads[n] : Step(n, th)
  BY DEF Run
<1> QED
  BY <1>1, OnTransactionGrows, PoolingGrows, VotingGrows, CommitBlockGrows DEF Step

\* Clients, losses and stops change no ledger and no engine.
LEMMA OthersGrow ==
  ASSUME NodeInv, NEW n \in Nodes, (\E t \in Txs : Submit(n, t)) \/ Lose(n) \/ Crash(n),
         NEW m \in Nodes
  PROVE  Grows(m)
<1>1. seen' = seen /\ pbft' = pbft /\ chain' = chain
  BY DEF Submit, Lose, Crash, ledgerVars, protocolVars
<1>2. NoNewAdder
  <2>1. ASSUME NEW t \in Txs, Submit(n, t) PROVE NoNewAdder
    <3> DEFINE new == [call |-> Transaction(n, t), owed |-> {Transaction(n, t)}]
    <3>1. threads' = [threads EXCEPT ![n] = @ \cup {new}]
      BY <2>1 DEF Submit
    <3>2. new.call.type # "add_block"
      BY DEF Transaction
    <3> HIDE DEF new
    <3> QED
      BY <3>1, <3>2 DEF NoNewAdder, NodeInv, ThreadsOK
  <2>2. CASE Lose(n)
    BY <2>2 DEF Lose, NoNewAdder, NodeInv, ThreadsOK
  <2>3. CASE Crash(n)
    <3>1. PICK unsent : threads' =
            [q \in Nodes |-> IF q = n THEN IF n \in MayRestart THEN InFlight(n) ELSE {}
                             ELSE {th \in threads[q] : <<q, th>> \notin unsent}]
      BY <2>3 DEF Crash
    <3> QED
      BY <3>1 DEF NoNewAdder, InFlight
  <2> QED
    BY <2>1, <2>2, <2>3
<1> QED
  BY <1>1, <1>2, Unaffected

LEMMA RestartIsFresh ==
  ASSUME NodeInv, OriginsOK, NEW n \in Nodes, Restart(n), NEW m \in Nodes
  PROVE  Grows(m) \/ Fresh(m)
<1>1. /\ n \notin up
      /\ seen' = [seen EXCEPT ![n] = {}]
      /\ pbft' = [pbft EXCEPT ![n] = NewEngine]
      /\ chain' = [chain EXCEPT ![n] = <<Genesis>>]
  BY DEF Restart
<1>2. PICK unfailed \in SUBSET threads[n] : threads' = [threads EXCEPT ![n] = unfailed]
  BY DEF Restart
<1>3. \A q \in Nodes : threads'[q] \subseteq threads[q]
  BY <1>2 DEF NodeInv, ThreadsOK
<1>4. CASE m # n
  <2>1. seen'[m] = seen[m] /\ pbft'[m] = pbft[m] /\ chain'[m] = chain[m]
    BY <1>1, <1>4 DEF NodeInv, ProtocolOK, LedgersOK
  <2> QED
    BY <1>3, <2>1, Unaffected DEF NoNewAdder
<1>5. CASE m = n
  <2>1. seen'[m] = {} /\ pbft'[m] = NewEngine /\ chain'[m] = <<Genesis>>
    BY <1>1, <1>5 DEF NodeInv, ProtocolOK, LedgersOK
  <2>2. CommittedAt(m)' = {}
    BY <2>1 DEF CommittedAt, Committed, NewEngine
  <2>3. \A x \in threads'[m] : x.call.type # "add_block"
    BY <1>1, <1>3, <1>5 DEF OriginsOK, InFlight, MessageType
  <2> QED
    BY <1>1, <1>5, <2>1, <2>2, <2>3 DEF Fresh
<1> QED
  BY <1>4, <1>5

LEMMA StepGrows ==
  ASSUME NodeInv, OriginsOK, Earned, [Next]_vars, NEW m \in Nodes
  PROVE  Grows(m) \/ Fresh(m)
<1>1. CASE UNCHANGED vars
  BY <1>1, Unaffected DEF vars, NoNewAdder
<1>2. ASSUME NEW n \in Nodes, Run(n) PROVE Grows(m)
  BY <1>2, RunGrows
<1>3. ASSUME NEW n \in Nodes, (\E t \in Txs : Submit(n, t)) \/ Lose(n) \/ Crash(n)
      PROVE  Grows(m)
  BY <1>3, OthersGrow
<1>4. ASSUME NEW n \in Nodes, Restart(n) PROVE Grows(m) \/ Fresh(m)
  BY <1>4, RestartIsFresh
<1> QED
  BY <1>1, <1>2, <1>3, <1>4 DEF Next

-----------------------------------------------------------------------------
(***************************************************************************)
(* Pools hold no transaction twice, and blocks stay what they are.         *)
(***************************************************************************)
LEMMA AddTransactionDistinct ==
  ASSUME LedgersOK, NoDuplicates, NEW n \in Nodes, NEW t \in Txs, AddTransaction(n, t)
  PROVE  NoDuplicates'
<1>1. CASE pending' = pending
  BY <1>1 DEF NoDuplicates, Distinct
<1>2. CASE t \notin Elements(pending[n]) /\ pending' = [pending EXCEPT ![n] = Append(@, t)]
  <2>1. pending[n] \in Seq(Txs) /\ Len(pending[n]) \in Nat /\ DOMAIN pending[n] = 1 .. Len(pending[n])
    BY DEF LedgersOK
  <2>2. \A i \in 1 .. Len(pending[n]) : pending[n][i] # t
    BY <1>2, <2>1 DEF Elements
  <2>3. /\ pending'[n] = Append(pending[n], t)
        /\ \A m \in Nodes : m # n => pending'[m] = pending[m]
    BY <1>2 DEF LedgersOK
  <2>4. /\ Len(pending'[n]) = Len(pending[n]) + 1
        /\ pending'[n][Len(pending[n]) + 1] = t
        /\ \A i \in 1 .. Len(pending[n]) : pending'[n][i] = pending[n][i]
    BY <2>1, <2>3
  <2>5. \A i \in 1 .. Len(pending'[n]) : i \in 1 .. Len(pending[n]) \/ i = Len(pending[n]) + 1
    BY <2>1, <2>4
  <2>6. Distinct(pending[n])
    BY DEF NoDuplicates, Distinct
  <2>7. ASSUME NEW i \in 1 .. Len(pending'[n]), NEW j \in 1 .. Len(pending'[n]),
               pending'[n][i] = pending'[n][j]
        PROVE  i = j
    BY <2>2, <2>4, <2>5, <2>6, <2>7 DEF Distinct
  <2> QED
    BY <2>3, <2>7 DEF NoDuplicates, Distinct
<1> QED
  BY <1>1, <1>2 DEF AddTransaction

LEMMA AddBlockDistinct ==
  ASSUME LedgersOK, NoDuplicates, NEW n \in Nodes, NEW h, AddBlock(n, h)
  PROVE  NoDuplicates'
<1>1. CASE pending' = pending
  BY <1>1 DEF NoDuplicates, Distinct
<1>2. CASE \E rest \in Without(pending[n], TxsOf(h)) : pending' = [pending EXCEPT ![n] = rest]
  <2>1. PICK rest \in Without(pending[n], TxsOf(h)) : pending' = [pending EXCEPT ![n] = rest]
    BY <1>2
  <2>2. pending[n] \in Seq(Txs) /\ DOMAIN pending[n] = 1 .. Len(pending[n])
    BY DEF LedgersOK
  <2>3. PICK k \in 0 .. Len(pending[n]) : rest \in [1 .. k -> Elements(pending[n])]
    BY <2>1 DEF Without
  <2>4. k \in Nat /\ DOMAIN rest = 1 .. k
    BY <2>2, <2>3
  <2>5. Elements(pending[n]) \subseteq Txs
    BY <2>2 DEF Elements
  <2>6. rest \in Seq(Txs) /\ Len(rest) = k
    BY <2>3, <2>4, <2>5
  <2>7. \A i, j \in DOMAIN rest : i < j =>
          \E a, b \in DOMAIN pending[n] :
            a < b /\ pending[n][a] = rest[i] /\ pending[n][b] = rest[j]
    BY <2>1 DEF Without
  <2>8. ASSUME NEW i \in 1 .. k, NEW j \in 1 .. k, i < j PROVE rest[i] # rest[j]
    <3>1. i \in DOMAIN rest /\ j \in DOMAIN rest
      BY <2>4
    <3>2. PICK a \in DOMAIN pending[n], b \in DOMAIN pending[n] :
            a < b /\ pending[n][a] = rest[i] /\ pending[n][b] = rest[j]
      BY <2>7, <2>8, <3>1
    <3>3. a \in 1 .. Len(pending[n]) /\ b \in 1 .. Len(pending[n])
      BY <2>2
    <3>4. a # b
      BY <2>2, <3>2, <3>3
    <3> QED
      BY <3>2, <3>3, <3>4 DEF NoDuplicates, Distinct
  <2>9. \A i, j \in 1 .. k : i < j \/ j < i \/ i = j
    BY <2>4
  <2>10. Distinct(rest)
    BY <2>6, <2>8, <2>9 DEF Distinct
  <2>11. pending'[n] = rest /\ \A m \in Nodes : m # n => pending'[m] = pending[m]
    BY <2>1 DEF LedgersOK
  <2> QED
    BY <2>10, <2>11 DEF NoDuplicates, Distinct
<1> QED
  BY <1>1, <1>2 DEF AddBlock, ledgerVars

LEMMA StepKeepsData ==
  ASSUME NodeInv, NoDuplicates, [Next]_vars
  PROVE  NoDuplicates' /\ BlocksKept
<1>1. CASE UNCHANGED <<blocks, pending>>
  BY <1>1 DEF NoDuplicates, Distinct, BlocksKept
<1>2. LedgersOK /\ Heights /\ ThreadsOK
  BY DEF NodeInv
<1>3. ASSUME NEW n \in Nodes, NEW th \in threads[n], Step(n, th)
      PROVE  NoDuplicates' /\ BlocksKept
  <2>1. CASE OnTransaction(n, th) \/ OnPrePrepare(n, th) \/ OnPrepare(n, th) \/ OnCommit(n, th)
    BY <1>1, <2>1 DEF OnTransaction, OnPrePrepare, OnPrepare, OnCommit, ledgerVars
  <2>2. CASE PoolTransaction(n, th)
    <3>1. th.call.tx \in Txs /\ AddTransaction(n, th.call.tx)
      BY <1>2, <2>2, ThreadCall, CallFields DEF PoolTransaction
    <3>2. blocks' = blocks
      BY <3>1 DEF AddTransaction
    <3> QED
      BY <1>2, <3>1, <3>2, AddTransactionDistinct DEF BlocksKept
  <2>3. CASE ProposeBlock(n, th)
    <3>1. (\E h \in Hashes : CreateBlock(n, h)) \/ UNCHANGED ledgerVars
      BY <2>3 DEF ProposeBlock
    <3>2. ASSUME NEW h \in Hashes, CreateBlock(n, h) PROVE NoDuplicates' /\ BlocksKept
      BY <1>2, <3>2, CreateBlockAdds DEF NoDuplicates, Distinct, BlocksKept
    <3> QED
      BY <1>1, <3>1, <3>2 DEF ledgerVars
  <2>4. CASE CommitBlock(n, th)
    <3>1. AddBlock(n, th.call.block) /\ blocks' = blocks
      BY <2>4 DEF CommitBlock, AddBlock, ledgerVars
    <3> QED
      BY <1>2, <3>1, AddBlockDistinct DEF BlocksKept
  <2> QED
    BY <1>3, <2>1, <2>2, <2>3, <2>4 DEF Step
<1>4. ASSUME NEW n \in Nodes, Restart(n) PROVE NoDuplicates' /\ BlocksKept
  <2>1. blocks' = blocks /\ pending' = [pending EXCEPT ![n] = <<>>]
    BY <1>4 DEF Restart
  <2>2. \A m \in Nodes : pending'[m] = pending[m] \/ pending'[m] = <<>>
    BY <1>2, <2>1 DEF LedgersOK
  <2>3. \A m \in Nodes : Distinct(pending'[m])
    <3>1. Distinct(<<>>)
      BY DEF Distinct
    <3> QED
      BY <2>2, <3>1 DEF NoDuplicates, Distinct
  <2> QED
    BY <2>1, <2>3 DEF NoDuplicates, Distinct, BlocksKept
<1>5. ASSUME NEW n \in Nodes, (\E t \in Txs : Submit(n, t)) \/ Lose(n) \/ Crash(n)
      PROVE  NoDuplicates' /\ BlocksKept
  BY <1>1, <1>5 DEF Submit, Lose, Crash, ledgerVars
<1>6. CASE UNCHANGED vars
  BY <1>1, <1>6 DEF vars
<1> QED
  BY <1>3, <1>4, <1>5, <1>6 DEF Next, Run

LEMMA FiniteStep ==
  ASSUME Finite, NEW m \in Nodes, Grows(m) \/ Fresh(m)
  PROVE  IsFiniteSet(seen'[m]) /\ IsFiniteSet(CommittedAt(m)')
<1>1. ASSUME NEW S, NEW T, NEW x, IsFiniteSet(S), T \subseteq S \cup {x} PROVE IsFiniteSet(T)
  BY <1>1, FS_AddElement, FS_Subset
<1>2. CASE Grows(m)
  <2>1. PICK t : seen'[m] \subseteq seen[m] \cup {t}
    BY <1>2 DEF Grows, SeenAt
  <2>2. PICK h : CommittedAt(m)' \subseteq CommittedAt(m) \cup {h}
    BY <1>2 DEF Grows, EngineAt
  <2>3. IsFiniteSet(seen[m]) /\ IsFiniteSet(CommittedAt(m))
    BY DEF Finite
  <2> QED
    BY <1>1, <2>1, <2>2, <2>3
<1>3. CASE Fresh(m)
  BY <1>3, FS_EmptySet DEF Fresh
<1> QED
  BY <1>2, <1>3

LEMMA EarnedStep ==
  ASSUME LedgersOK, Earned, NEW m \in Nodes, Grows(m) \/ Fresh(m)
  PROVE  /\ \A th \in threads'[m] : th.call.type = "add_block" => th.call.block \in CommittedAt(m)'
         /\ \A i \in 2 .. Len(chain'[m]) : chain'[m][i] \in CommittedAt(m)'
<1>1. CASE Fresh(m)
  <2>1. chain'[m] = <<Genesis>> /\ Len(<<Genesis>>) = 1
    BY <1>1 DEF Fresh
  <2> QED
    BY <1>1, <2>1 DEF Fresh
<1>2. CASE Grows(m)
  <2>1. CommittedAt(m) \subseteq CommittedAt(m)'
    BY <1>2 DEF Grows, EngineAt
  <2>2. \A th \in threads'[m] : th.call.type = "add_block" => th.call.block \in CommittedAt(m)'
    BY <1>2, <2>1 DEF Grows, AddersAt, Earned
  <2>3. CASE chain'[m] = chain[m]
    BY <2>1, <2>2, <2>3 DEF Earned
  <2>4. CASE \E h \in CommittedAt(m) : chain'[m] = Append(chain[m], h)
    <3>1. PICK h \in CommittedAt(m) : chain'[m] = Append(chain[m], h)
      BY <2>4
    <3>2. chain[m] \in Seq(Block) /\ h \in Block
      BY <3>1 DEF LedgersOK, CommittedAt, Block
    <3>3. /\ Len(chain'[m]) = Len(chain[m]) + 1
          /\ chain'[m][Len(chain[m]) + 1] = h
          /\ \A i \in 1 .. Len(chain[m]) : chain'[m][i] = chain[m][i]
      BY <3>1, <3>2
    <3>4. \A i \in 2 .. Len(chain'[m]) :
            i = Len(chain[m]) + 1 \/ (i \in 1 .. Len(chain[m]) /\ i \in 2 .. Len(chain[m]))
      BY <3>2, <3>3
    <3>5. \A i \in 2 .. Len(chain'[m]) : chain'[m][i] \in CommittedAt(m)
      BY <3>1, <3>3, <3>4 DEF Earned
    <3> QED
      BY <2>1, <2>2, <3>5
  <2> QED
    BY <1>2, <2>3, <2>4 DEF Grows, ChainAt
<1> QED
  BY <1>1, <1>2

LEMMA AskedStep ==
  ASSUME AskedRun, [Next]_vars
  PROVE  AskedRun'
<1>1. CASE up' = up
  BY <1>1 DEF AskedRun
<1>2. ASSUME NEW n \in Nodes, Crash(n) PROVE AskedRun'
  BY <1>2, RestAssumption DEF Crash, AskedRun
<1>3. ASSUME NEW n \in Nodes, Restart(n) PROVE AskedRun'
  BY <1>3 DEF Restart, AskedRun
<1> QED
  BY <1>1, <1>2, <1>3 DEF Next, Run, Submit, Lose, vars

LEMMA TallyStep ==
  ASSUME NodeInv, OriginsOK, TallyInv, [Next]_vars
  PROVE  TallyInv'
<1>1. \A m \in Nodes : Grows(m) \/ Fresh(m)
  BY StepGrows DEF TallyInv
<1>2. NoDuplicates'
  BY StepKeepsData DEF TallyInv
<1>3. Finite'
  BY <1>1, FiniteStep DEF TallyInv, Finite
<1>4. Earned'
  BY <1>1, EarnedStep DEF TallyInv, Earned, NodeInv
<1> QED
  BY <1>2, <1>3, <1>4, AskedStep DEF TallyInv

LEMMA TallyInit == Init => TallyInv
<1> SUFFICES ASSUME Init PROVE TallyInv
  OBVIOUS
<1>1. /\ chain = [n \in Nodes |-> <<Genesis>>]
      /\ pending = [n \in Nodes |-> <<>>]
      /\ up = Nodes \ Down
      /\ seen = [n \in Nodes |-> {}]
      /\ pbft = [n \in Nodes |-> NewEngine]
      /\ threads = [n \in Nodes |-> {}]
  BY DEF Init, InitLedgers
<1>2. \A n \in Nodes : CommittedAt(n) = {}
  BY <1>1 DEF CommittedAt, Committed, NewEngine
<1>3. Finite
  BY <1>1, <1>2, FS_EmptySet DEF Finite
<1>4. Earned
  <2>1. Len(<<Genesis>>) = 1
    OBVIOUS
  <2> QED
    BY <1>1, <2>1 DEF Earned
<1>5. NoDuplicates
  BY <1>1 DEF NoDuplicates, Distinct
<1>6. AskedRun
  BY <1>1, RestAssumption DEF AskedRun
<1> QED
  BY <1>3, <1>4, <1>5, <1>6 DEF TallyInv

-----------------------------------------------------------------------------
(***************************************************************************)
(* What has been read stays true while the node goes on: a node that is    *)
(* asked does not start over, so its ledger keeps the blocks that were     *)
(* counted and it sees no fewer transactions.                              *)
(***************************************************************************)
LEMMA KeepsPrefix ==
  ASSUME LedgersOK, NEW m \in Nodes, ChainAt(m)
  PROVE  /\ Len(chain[m]) <= Len(chain'[m])
         /\ \A i \in 1 .. Len(chain[m]) : chain'[m][i] = chain[m][i]
<1>1. chain[m] \in Seq(Block) /\ Len(chain[m]) \in Nat
  BY DEF LedgersOK
<1>2. CASE chain'[m] = chain[m]
  BY <1>1, <1>2
<1>3. CASE \E h \in CommittedAt(m) : chain'[m] = Append(chain[m], h)
  <2>1. PICK h \in CommittedAt(m) : chain'[m] = Append(chain[m], h)
    BY <1>3
  <2>2. h \in Block
    BY <2>1 DEF CommittedAt, Block
  <2> QED
    BY <1>1, <2>1, <2>2
<1> QED
  BY <1>2, <1>3 DEF ChainAt

LEMMA SameCount ==
  ASSUME LedgersOK, BlocksKept, NEW r, r.node \in Nodes, r.length \in 1 .. Len(chain[r.node]),
         ChainAt(r.node)
  PROVE  CountedTxs(r)' = CountedTxs(r)
<1> DEFINE m == r.node
<1>1. \A i \in 1 .. Len(chain[m]) : chain'[m][i] = chain[m][i] /\ chain[m][i] \in DOMAIN blocks
  BY KeepsPrefix DEF LedgersOK
<1>2. Len(chain[m]) \in Nat
  BY DEF LedgersOK
<1>3. \A i \in 1 .. r.length : i \in 1 .. Len(chain[m])
  BY <1>2
<1>4. \A i \in 1 .. r.length : TxsOf(chain[m][i])' = TxsOf(chain[m][i])
  BY <1>1, <1>3 DEF TxsOf, Elements, BlocksKept
<1> QED
  BY <1>4 DEF CountedTxs

LEMMA MoreSeen ==
  ASSUME Finite, NEW m \in Nodes, Grows(m)
  PROVE  /\ Cardinality(seen[m]) \in Nat /\ Cardinality(seen'[m]) \in Nat
         /\ Cardinality(seen[m]) <= Cardinality(seen'[m])
<1>1. IsFiniteSet(seen[m]) /\ IsFiniteSet(seen'[m])
  BY FiniteStep DEF Finite
<1>2. seen[m] \subseteq seen'[m]
  BY DEF Grows, SeenAt
<1> QED
  BY <1>1, <1>2, FS_Subset, FS_CardinalityType

\* The leader has seen whatever is counted on its ledger.
LEMMA CountedIsSeen ==
  ASSUME PoolInv, TallyInv, NEW r, r.node = LEADER_NODE, r.node \in Asked,
         r.length \in 1 .. Len(chain[r.node])
  PROVE  /\ CountedTxs(r) \subseteq ChainTxs(r.node)
         /\ ChainTxs(r.node) \subseteq Pooled(r.node)
         /\ Pooled(r.node) \subseteq seen[r.node]
         /\ IsFiniteSet(CountedTxs(r)) /\ Cardinality(CountedTxs(r)) \in Nat
<1>1. r.node \in Nodes /\ r.node \in up
  BY RestAssumption DEF TallyInv, AskedRun
<1>2. Len(chain[r.node]) \in Nat /\ DOMAIN chain[r.node] = 1 .. Len(chain[r.node])
  BY <1>1, ChainSpan DEF PoolInv, NodeInv
<1>3. CountedTxs(r) \subseteq ChainTxs(r.node)
  <2>1. \A i \in 1 .. r.length : i \in DOMAIN chain[r.node]
    BY <1>2
  <2> QED
    BY <2>1 DEF CountedTxs, ChainTxs
<1>4. ChainTxs(r.node) \subseteq Pooled(r.node) /\ Pooled(r.node) \subseteq seen[r.node]
  BY <1>1 DEF PoolInv, LeaderOK, Pooled
<1>5. IsFiniteSet(seen[r.node])
  BY <1>1 DEF TallyInv, Finite
<1> QED
  BY <1>3, <1>4, <1>5, FS_Subset, FS_CardinalityType

LEMMA SoFarStays ==
  ASSUME PoolInv, TallyInv, BlocksKept, NEW r, SoFar(r),
         Grows(r.node) \/ Fresh(r.node)
  PROVE  SoFar(r)'
<1>1. /\ r \in Request /\ r.made \in 1 .. Len(Reads[r.endpoint])
      /\ r.node \in Asked /\ r.node \in Nodes /\ r.pooled \in Nat /\ LedgersOK
  BY RestAssumption DEF SoFar, Request, PoolInv, NodeInv
<1>2. Grows(r.node)
  BY <1>1 DEF TallyInv, AskedRun, Fresh
<1>3. ASSUME r.endpoint = "status"
      PROVE  /\ r.length \in 1 .. Len(chain'[r.node])
             /\ r.made >= 2 /\ r.node = LEADER_NODE =>
                  r.pooled + Cardinality(CountedTxs(r)') <= Cardinality(seen'[r.node])
             /\ r.made >= 4 => r.rounds >= r.length - 1
  <2>1. /\ r.length \in 1 .. Len(chain[r.node])
        /\ r.made >= 2 /\ r.node = LEADER_NODE =>
             r.pooled + Cardinality(CountedTxs(r)) <= Cardinality(seen[r.node])
        /\ r.made >= 4 => r.rounds >= r.length - 1
    BY <1>3 DEF SoFar
  <2>2. ChainAt(r.node)
    BY <1>2 DEF Grows
  <2>3. Len(chain[r.node]) <= Len(chain'[r.node]) /\ Len(chain[r.node]) \in Nat
    BY <1>1, <2>2, KeepsPrefix DEF LedgersOK
  <2>4. r.length \in 1 .. Len(chain'[r.node])
    <3>1. CASE chain'[r.node] = chain[r.node]
      BY <2>1, <3>1
    <3>2. CASE \E h \in CommittedAt(r.node) : chain'[r.node] = Append(chain[r.node], h)
      <4>1. PICK h \in CommittedAt(r.node) : chain'[r.node] = Append(chain[r.node], h)
        BY <3>2
      <4>2. h \in Block /\ chain[r.node] \in Seq(Block)
        BY <1>1, <4>1 DEF CommittedAt, Block, LedgersOK
      <4>3. Len(chain'[r.node]) = Len(chain[r.node]) + 1
        BY <4>1, <4>2
      <4> QED
        BY <2>1, <2>3, <4>3
    <3> QED
      BY <2>2, <3>1, <3>2 DEF ChainAt
  <2>5. CountedTxs(r)' = CountedTxs(r)
    BY <1>1, <2>1, <2>2, SameCount
  <2>6. ASSUME r.made >= 2, r.node = LEADER_NODE
        PROVE  r.pooled + Cardinality(CountedTxs(r)) <= Cardinality(seen'[r.node])
    <3>1. /\ Cardinality(seen[r.node]) \in Nat /\ Cardinality(seen'[r.node]) \in Nat
          /\ Cardinality(seen[r.node]) <= Cardinality(seen'[r.node])
      BY <1>1, <1>2, MoreSeen DEF TallyInv
    <3>2. Cardinality(CountedTxs(r)) \in Nat
      BY <1>1, <2>1, <2>6, CountedIsSeen
    <3>3. r.pooled + Cardinality(CountedTxs(r)) <= Cardinality(seen[r.node])
      BY <2>1, <2>6
    <3> QED
      BY <1>1, <3>1, <3>2, <3>3
  <2> QED
    BY <2>1, <2>4, <2>5, <2>6
<1> QED
  BY <1>1, <1>3 DEF SoFar

-----------------------------------------------------------------------------
(***************************************************************************)
(* What each read finds.                                                   *)
(***************************************************************************)
LEMMA NoMoreThanDistinct ==
  ASSUME NEW k \in Nat, NEW T, IsFiniteSet(T), NEW g \in [1 .. k -> T],
         \A i, j \in 1 .. k : g[i] = g[j] => i = j
  PROVE  k <= Cardinality(T)
<1>1. IsFiniteSet(1 .. k) /\ Cardinality(1 .. k) = k
  BY FS_Interval
<1>2. Cardinality(T) \in Nat
  BY FS_CardinalityType
<1>3. CASE Cardinality(T) < k
  <2>1. \E x, y \in 1 .. k : x # y /\ g[x] = g[y]
    BY <1>1, <1>3, FS_PigeonHole
  <2> QED
    BY <2>1
<1> QED
  BY <1>2, <1>3

\* The pool fits beside what is counted on the ledger.
LEMMA PoolFits ==
  ASSUME PoolInv, TallyInv, NEW r, r.node = LEADER_NODE, r.node \in Asked,
         r.length \in 1 .. Len(chain[r.node])
  PROVE  Len(pending[r.node]) + Cardinality(CountedTxs(r)) <= Cardinality(seen[r.node])
<1> DEFINE n == r.node
           S == Waiting(n)
           T == CountedTxs(r)
<1>1. n \in Nodes /\ n \in up
  BY RestAssumption DEF TallyInv, AskedRun
<1>2. S = Pooled(n) \ ChainTxs(n)
  BY <1>1 DEF PoolInv, LeaderOK
<1>3. T \subseteq ChainTxs(n) /\ T \subseteq seen[n] /\ S \subseteq seen[n] /\ IsFiniteSet(T)
  BY <1>2, CountedIsSeen
<1>4. IsFiniteSet(seen[n])
  BY <1>1 DEF TallyInv, Finite
<1>5. IsFiniteSet(S)
  BY <1>3, <1>4, FS_Subset
<1>6. S \cap T = {}
  BY <1>2, <1>3
<1>7. Cardinality(S \cup T) = Cardinality(S) + Cardinality(T)
  <2> HIDE DEF S, T
  <2>1. Cardinality(S \cup T) = Cardinality(S) + Cardinality(T) - Cardinality({})
    BY <1>3, <1>5, <1>6, FS_Union
  <2>2. Cardinality(S) \in Nat /\ Cardinality(T) \in Nat /\ Cardinality({}) = 0
    BY <1>3, <1>5, FS_CardinalityType, FS_EmptySet
  <2> QED
    BY <2>1, <2>2
<1>8. Cardinality(S \cup T) <= Cardinality(seen[n])
  BY <1>3, <1>4, FS_Subset
<1>9. Len(pending[n]) <= Cardinality(S)
  <2>1. pending[n] \in Seq(Txs) /\ DOMAIN pending[n] = 1 .. Len(pending[n])
    BY <1>1 DEF PoolInv, NodeInv, LedgersOK
  <2>2. pending[n] \in [1 .. Len(pending[n]) -> S]
    BY <2>1 DEF Waiting, Elements
  <2>3. \A i, j \in 1 .. Len(pending[n]) : pending[n][i] = pending[n][j] => i = j
    BY <1>1 DEF TallyInv, NoDuplicates, Distinct
  <2>4. Len(pending[n]) \in Nat
    BY <2>1
  <2> HIDE DEF S
  <2> QED
    BY <1>5, <2>2, <2>3, <2>4, NoMoreThanDistinct
<1>10. /\ Cardinality(S) \in Nat /\ Cardinality(T) \in Nat /\ Cardinality(seen[n]) \in Nat
       /\ Len(pending[n]) \in Nat
  BY <1>1, <1>3, <1>4, <1>5, FS_CardinalityType DEF PoolInv, NodeInv, LedgersOK
<1> HIDE DEF S, T
<1>11. Len(pending[n]) + Cardinality(T) <= Cardinality(seen[n])
  BY <1>7, <1>8, <1>9, <1>10
<1> QED
  BY <1>11 DEF T

\* Every block above the genesis block has a round of its own.
LEMMA RoundsSuffice ==
  ASSUME PoolInv, TallyInv, NEW n \in Nodes, NEW k \in 1 .. Len(chain[n])
  PROVE  /\ Cardinality(CommittedAt(n)) \in Nat
         /\ Cardinality(CommittedAt(n)) >= k - 1
<1> DEFINE g == [i \in 1 .. k - 1 |-> chain[n][i + 1]]
<1>1. Len(chain[n]) \in Nat /\ k \in Nat /\ k - 1 \in Nat
  BY ChainSpan DEF PoolInv, NodeInv
<1>2. \A i \in 1 .. k - 1 : i + 1 \in 2 .. Len(chain[n]) /\ i + 1 \in 1 .. Len(chain[n])
  BY <1>1
<1>3. g \in [1 .. k - 1 -> CommittedAt(n)]
  BY <1>2 DEF TallyInv, Earned
<1>4. ASSUME NEW i \in 1 .. k - 1, NEW j \in 1 .. k - 1, g[i] = g[j] PROVE i = j
  <2>1. blocks[chain[n][i + 1]].index = (i + 1) - 1 /\ blocks[chain[n][j + 1]].index = (j + 1) - 1
    BY <1>2 DEF PoolInv, NodeInv, Heights
  <2>2. chain[n][i + 1] = chain[n][j + 1]
    BY <1>4
  <2>3. (i + 1) - 1 = (j + 1) - 1
    BY <2>1, <2>2
  <2> QED
    BY <1>1, <2>3
<1>5. IsFiniteSet(CommittedAt(n))
  BY DEF TallyInv, Finite
<1> HIDE DEF g
<1>6. k - 1 <= Cardinality(CommittedAt(n))
  BY <1>1, <1>3, <1>4, <1>5, NoMoreThanDistinct
<1> QED
  BY <1>1, <1>5, <1>6, FS_CardinalityType

\* A read fills one field of the request and counts.
LEMMA FillsLength ==
  ASSUME NEW r \in Request, NEW x \in Nat
  PROVE  LET new == [r EXCEPT !.length = x, !.made = @ + 1]
         IN  /\ new \in Request /\ new.made = r.made + 1 /\ new.length = x
             /\ new.node = r.node /\ new.endpoint = r.endpoint /\ new.pooled = r.pooled
             /\ new.valid = r.valid /\ new.rounds = r.rounds
<1>1. r.made + 1 \in Nat
  BY DEF Request
<1> QED
  BY <1>1 DEF Request

LEMMA FillsPooled ==
  ASSUME NEW r \in Request, NEW x \in Nat
  PROVE  LET new == [r EXCEPT !.pooled = x, !.made = @ + 1]
         IN  /\ new \in Request /\ new.made = r.made + 1 /\ new.pooled = x
             /\ new.node = r.node /\ new.endpoint = r.endpoint /\ new.length = r.length
             /\ new.valid = r.valid /\ new.rounds = r.rounds
<1>1. r.made + 1 \in Nat
  BY DEF Request
<1> QED
  BY <1>1 DEF Request

LEMMA FillsValid ==
  ASSUME NEW r \in Request, NEW x \in BOOLEAN
  PROVE  LET new == [r EXCEPT !.valid = x, !.made = @ + 1]
         IN  /\ new \in Request /\ new.made = r.made + 1 /\ new.valid = x
             /\ new.node = r.node /\ new.endpoint = r.endpoint /\ new.length = r.length
             /\ new.pooled = r.pooled /\ new.rounds = r.rounds
<1>1. r.made + 1 \in Nat
  BY DEF Request
<1> QED
  BY <1>1 DEF Request

LEMMA FillsRounds ==
  ASSUME NEW r \in Request, NEW x \in Nat
  PROVE  LET new == [r EXCEPT !.rounds = x, !.made = @ + 1]
         IN  /\ new \in Request /\ new.made = r.made + 1 /\ new.rounds = x
             /\ new.node = r.node /\ new.endpoint = r.endpoint /\ new.length = r.length
             /\ new.pooled = r.pooled /\ new.valid = r.valid
<1>1. r.made + 1 \in Nat
  BY DEF Request
<1> QED
  BY <1>1 DEF Request

LEMMA StatusSoFar ==
  ASSUME NEW r \in Request, r.endpoint = "status", r.made \in 1 .. 4,
         r.length \in 1 .. Len(chain[r.node]),
         r.made >= 2 /\ r.node = LEADER_NODE =>
           r.pooled + Cardinality(CountedTxs(r)) <= Cardinality(seen[r.node]),
         r.made >= 4 => r.rounds >= r.length - 1
  PROVE  SoFar(r)
<1>1. Len(Reads[r.endpoint]) = 4
  BY DEF Reads
<1> QED
  BY <1>1 DEF SoFar

LEMMA ValidateSoFar ==
  ASSUME NEW r \in Request, r.endpoint = "validate", r.made \in 1 .. 2
  PROVE  SoFar(r)
<1>1. Len(Reads[r.endpoint]) = 2
  BY DEF Reads
<1> QED
  BY <1>1 DEF SoFar

LEMMA GotOK ==
  ASSUME PoolInv, TallyInv, LineageInv, NEW r \in Request,
         r.made < Len(Reads[r.endpoint]), r.made # 0 => SoFar(r)
  PROVE  SoFar(Got(r))
<1> DEFINE n == r.node
<1>1. /\ n \in Asked /\ n \in Nodes /\ r.endpoint \in {"status", "validate"}
      /\ r.made \in Nat /\ r.length \in Nat /\ r.pooled \in Nat
  BY RestAssumption DEF Request
<1>2. /\ Len(chain[n]) \in Nat /\ Len(chain[n]) \in 1 .. Len(chain[n])
      /\ Len(pending[n]) \in Nat
  BY <1>1 DEF PoolInv, NodeInv, LedgersOK
<1>3. validate_chain(n) \in BOOLEAN
  BY DEF validate_chain
<1>4. /\ Value("length", n) = Len(chain[n])
      /\ Value("pooled", n) = Len(pending[n])
      /\ Value("valid", n) = validate_chain(n)
      /\ Value("rounds", n) = Cardinality(CommittedAt(n))
  BY DEF Value, CommittedAt
<1>5. PICK new : new = Got(r)
  OBVIOUS
<1> SUFFICES SoFar(new)
  BY <1>5
<1>6. CASE r.endpoint = "status"
  <2>1. Reads[r.endpoint] = <<"length", "pooled", "valid", "rounds">>
    BY <1>6 DEF Reads
  <2>2. r.made \in 0 .. 3 /\ Len(Reads[r.endpoint]) = 4
    BY <1>1, <2>1
  <2>3. r.made # 0 =>
          /\ r.length \in 1 .. Len(chain[n])
          /\ r.made >= 2 /\ n = LEADER_NODE =>
               r.pooled + Cardinality(CountedTxs(r)) <= Cardinality(seen[n])
    BY <1>6 DEF SoFar
  <2>4. CASE r.made = 0
    <3>1. Reads[r.endpoint][r.made + 1] = "length"
      BY <2>1, <2>4
    <3>2. new = [r EXCEPT !["length"] = Value("length", n), !.made = @ + 1]
      BY <1>5, <3>1 DEF Got
    <3>3. new = [r EXCEPT !.length = Len(chain[n]), !.made = @ + 1]
      BY <1>4, <3>2
    <3>4. /\ new \in Request /\ new.made = r.made + 1 /\ new.length = Len(chain[n])
          /\ new.node = n /\ new.endpoint = r.endpoint
      BY <1>2, <3>3, FillsLength
    <3>5. new.made = 1
      BY <2>4, <3>4
    <3> QED
      BY <1>2, <1>6, <3>4, <3>5, StatusSoFar
  <2>5. CASE r.made = 1
    <3>1. Reads[r.endpoint][r.made + 1] = "pooled"
      BY <2>1, <2>5
    <3>2. new = [r EXCEPT !["pooled"] = Value("pooled", n), !.made = @ + 1]
      BY <1>5, <3>1 DEF Got
    <3>3. new = [r EXCEPT !.pooled = Len(pending[n]), !.made = @ + 1]
      BY <1>4, <3>2
    <3>4. /\ new \in Request /\ new.made = r.made + 1 /\ new.pooled = Len(pending[n])
          /\ new.node = n /\ new.endpoint = r.endpoint
          /\ new.length = r.length
      BY <1>2, <3>3, FillsPooled
    <3>5. CountedTxs(new) = CountedTxs(r)
      BY <3>4 DEF CountedTxs
    <3>6. new.made = 2 /\ r.length \in 1 .. Len(chain[n])
      BY <2>3, <2>5, <3>4
    <3>7. n = LEADER_NODE =>
            Len(pending[n]) + Cardinality(CountedTxs(r)) <= Cardinality(seen[n])
      BY <1>1, <3>6, PoolFits
    <3>8. n = LEADER_NODE => new.pooled + Cardinality(CountedTxs(new)) <= Cardinality(seen[n])
      BY <3>4, <3>5, <3>7
    <3> QED
      BY <1>6, <2>2, <3>4, <3>6, <3>8, StatusSoFar
  <2>6. CASE r.made = 2
    <3>1. Reads[r.endpoint][r.made + 1] = "valid"
      BY <2>1, <2>6
    <3>2. new = [r EXCEPT !["valid"] = Value("valid", n), !.made = @ + 1]
      BY <1>5, <3>1 DEF Got
    <3>3. new = [r EXCEPT !.valid = validate_chain(n), !.made = @ + 1]
      BY <1>4, <3>2
    <3>4. /\ new \in Request /\ new.made = r.made + 1
          /\ new.node = n /\ new.endpoint = r.endpoint
          /\ new.length = r.length /\ new.pooled = r.pooled
      BY <1>3, <3>3, FillsValid
    <3>5. CountedTxs(new) = CountedTxs(r)
      BY <3>4 DEF CountedTxs
    <3>6. new.made = 3
      BY <2>6, <3>4
    <3>8. /\ new.length \in 1 .. Len(chain[n])
          /\ n = LEADER_NODE =>
               new.pooled + Cardinality(CountedTxs(new)) <= Cardinality(seen[n])
      BY <2>3, <2>6, <3>4, <3>5
    <3> QED
      BY <1>6, <2>2, <3>4, <3>6, <3>8, StatusSoFar
  <2>7. CASE r.made = 3
    <3>1. Reads[r.endpoint][r.made + 1] = "rounds"
      BY <2>1, <2>7
    <3>2. new = [r EXCEPT !["rounds"] = Value("rounds", n), !.made = @ + 1]
      BY <1>5, <3>1 DEF Got
    <3>3. new = [r EXCEPT !.rounds = Cardinality(CommittedAt(n)), !.made = @ + 1]
      BY <1>4, <3>2
    <3>4. Cardinality(CommittedAt(n)) \in Nat /\ Cardinality(CommittedAt(n)) >= r.length - 1
      BY <1>1, <2>3, <2>7, RoundsSuffice
    <3>5. /\ new \in Request /\ new.made = r.made + 1 /\ new.rounds = Cardinality(CommittedAt(n))
          /\ new.node = n /\ new.endpoint = r.endpoint
          /\ new.length = r.length /\ new.pooled = r.pooled
      BY <3>3, <3>4, FillsRounds
    <3>6. CountedTxs(new) = CountedTxs(r)
      BY <3>5 DEF CountedTxs
    <3>7. new.made = 4
      BY <2>7, <3>5
    <3>9. /\ new.length \in 1 .. Len(chain[n])
          /\ n = LEADER_NODE =>
               new.pooled + Cardinality(CountedTxs(new)) <= Cardinality(seen[n])
      BY <2>3, <2>7, <3>5, <3>6
    <3>10. new.rounds >= new.length - 1
      BY <3>4, <3>5
    <3> QED
      BY <1>6, <2>2, <3>5, <3>7, <3>9, <3>10, StatusSoFar
  <2> QED
    BY <2>2, <2>4, <2>5, <2>6, <2>7
<1>7. CASE r.endpoint = "validate"
  <2>1. Reads[r.endpoint] = <<"valid", "length">>
    BY <1>7 DEF Reads
  <2>2. r.made \in 0 .. 1 /\ Len(Reads[r.endpoint]) = 2
    BY <1>1, <2>1
  <2>3. CASE r.made = 0
    <3>1. Reads[r.endpoint][r.made + 1] = "valid"
      BY <2>1, <2>3
    <3>2. new = [r EXCEPT !["valid"] = Value("valid", n), !.made = @ + 1]
      BY <1>5, <3>1 DEF Got
    <3>3. new = [r EXCEPT !.valid = validate_chain(n), !.made = @ + 1]
      BY <1>4, <3>2
    <3>4. /\ new \in Request /\ new.made = r.made + 1
          /\ new.endpoint = r.endpoint
      BY <1>3, <3>3, FillsValid
    <3>5. new.made = 1
      BY <2>3, <3>4
    <3> QED
      BY <1>7, <3>4, <3>5, ValidateSoFar
  <2>4. CASE r.made = 1
    <3>1. Reads[r.endpoint][r.made + 1] = "length"
      BY <2>1, <2>4
    <3>2. new = [r EXCEPT !["length"] = Value("length", n), !.made = @ + 1]
      BY <1>5, <3>1 DEF Got
    <3>3. new = [r EXCEPT !.length = Len(chain[n]), !.made = @ + 1]
      BY <1>4, <3>2
    <3>4. /\ new \in Request /\ new.made = r.made + 1
          /\ new.endpoint = r.endpoint
      BY <1>2, <3>3, FillsLength
    <3>5. new.made = 2
      BY <2>4, <3>4
    <3> QED
      BY <1>7, <2>2, <3>4, <3>5, ValidateSoFar
  <2> QED
    BY <2>2, <2>3, <2>4
<1> QED
  BY <1>1, <1>6, <1>7

-----------------------------------------------------------------------------
(***************************************************************************)
(* The invariant of the requests, on top of those of the network.          *)
(***************************************************************************)
RestInv == PoolInv /\ LineageInv /\ TallyInv

LEMMA SameSoFar ==
  ASSUME NEW r, SoFar(r), UNCHANGED vars
  PROVE  SoFar(r)'
<1>1. blocks' = blocks /\ chain' = chain /\ seen' = seen
  BY DEF vars
<1>2. CountedTxs(r)' = CountedTxs(r)
  BY <1>1 DEF CountedTxs, TxsOf, Elements
<1> QED
  BY <1>1, <1>2 DEF SoFar

LEMMA GetStep ==
  ASSUME RestInv, NEW n \in Asked, NEW e \in DOMAIN Reads, Get(n, e)
  PROVE  RequestOK'
<1> DEFINE asked == [node |-> n, endpoint |-> e, made |-> 0,
                     length |-> 0, pooled |-> 0, valid |-> TRUE, rounds |-> 0]
<1>1. e \in {"status", "validate"} /\ 0 < Len(Reads[e])
  BY DEF Reads
<1>2. asked \in Request /\ asked.made = 0 /\ asked.endpoint = e
  BY <1>1 DEF Request
<1>3. request' = Got(asked) /\ UNCHANGED vars
  BY DEF Get
<1> HIDE DEF asked
<1>4. SoFar(Got(asked))
  BY <1>1, <1>2, GotOK DEF RestInv
<1>5. PICK r : r = Got(asked)
  OBVIOUS
<1>6. SoFar(r)'
  BY <1>3, <1>4, <1>5, SameSoFar
<1>7. request' = r
  BY <1>3, <1>5
<1> QED
  BY <1>6, <1>7 DEF RequestOK, SoFar, CountedTxs

LEMMA ReadStep ==
  ASSUME RestInv, RequestOK, Read
  PROVE  RequestOK'
<1>1. PICK r : r = request
  OBVIOUS
<1>2. SoFar(r) /\ r.made # Len(Reads[r.endpoint])
  BY <1>1 DEF Read, RequestOK, Answered
<1>3. r \in Request /\ r.made \in 1 .. Len(Reads[r.endpoint])
  BY <1>2 DEF SoFar
<1>4. Len(Reads[r.endpoint]) \in Nat
  BY <1>3 DEF Request, Reads
<1>5. r.made < Len(Reads[r.endpoint])
  BY <1>2, <1>3, <1>4
<1>6. SoFar(Got(r))
  BY <1>2, <1>3, <1>5, GotOK DEF RestInv
<1>7. PICK new : new = Got(r)
  OBVIOUS
<1>8. request' = new /\ UNCHANGED vars
  BY <1>1, <1>7 DEF Read
<1>9. SoFar(new)'
  BY <1>6, <1>7, <1>8, SameSoFar
<1> QED
  BY <1>8, <1>9 DEF RequestOK, SoFar, CountedTxs

LEMMA NetworkStep ==
  ASSUME RestInv, RequestOK, [Next]_vars, request' = request
  PROVE  RequestOK'
<1> SUFFICES ASSUME request # NoRequest PROVE SoFar(request)'
  BY DEF RequestOK
<1>1. PICK r : r = request
  OBVIOUS
<1>2. SoFar(r) /\ r.node \in Nodes
  BY <1>1, RestAssumption DEF RequestOK, SoFar, Request
<1>3. NodeInv /\ OriginsOK /\ Earned /\ NoDuplicates
  BY DEF RestInv, PoolInv, TallyInv
<1>4. BlocksKept /\ (Grows(r.node) \/ Fresh(r.node))
  BY <1>2, <1>3, StepGrows, StepKeepsData
<1>5. SoFar(r)'
  BY <1>2, <1>4, SoFarStays DEF RestInv
<1> QED
  BY <1>1, <1>5 DEF SoFar, CountedTxs

LEMMA RequestStep == RestInv /\ RequestOK /\ [RestNext]_restVars => RequestOK'
<1> SUFFICES ASSUME RestInv, RequestOK, [RestNext]_restVars PROVE RequestOK'
  OBVIOUS
<1>1. ASSUME NEW n \in Asked, NEW e \in DOMAIN Reads, Get(n, e) PROVE RequestOK'
  BY <1>1, GetStep
<1>2. CASE Read
  BY <1>2, ReadStep
<1>3. CASE [Next]_vars /\ request' = request
  BY <1>3, NetworkStep
<1> QED
  BY <1>1, <1>2, <1>3 DEF RestNext, Serve, restVars

LEMMA RestInvariant == RestSpec => [](RestInv /\ RequestOK)
<1>1. RestInit => Init /\ RequestOK
  BY DEF RestInit, RequestOK
<1>2. [RestNext]_restVars => [Next]_vars
  BY DEF RestNext, restVars, Serve, Get, Read, vars
<1>3. RestSpec => Spec
  BY <1>1, <1>2, PTL DEF RestSpec, Spec
<1>4. Spec => []RestInv
  <2>1. Init => TallyInv
    BY TallyInit
  <2>2. PoolInv /\ TallyInv /\ [Next]_vars => TallyInv'
    BY TallyStep DEF PoolInv
  <2>3. PoolInv /\ LineageInv /\ TallyInv => RestInv
    BY DEF RestInv
  <2> QED
    BY <2>1, <2>2, <2>3, PoolInvariant, LineageInit, LineageStep, PTL DEF Spec
<1> QED
  BY <1>1, <1>3, <1>4, RequestStep, PTL DEF RestSpec

(***************************************************************************)
(* Every answer of /status adds up, although its four fields are read at   *)
(* four moments: for any network, whatever the other threads of the node   *)
(* do in between (app.py:204).                                             *)
(***************************************************************************)
THEOREM StatusAlwaysAddsUp == RestSpec => []StatusAddsUp
<1>1. RequestOK => StatusAddsUp
  <2> SUFFICES ASSUME RequestOK, Answered, request.endpoint = "status"
               PROVE  /\ request.rounds >= request.length - 1
                      /\ request.node = LEADER_NODE =>
                           request.pooled + Cardinality(CountedTxs(request)) <=
                             Cardinality(seen[request.node])
    BY DEF StatusAddsUp, CountedTxs
  <2>1. SoFar(request) /\ request.made = 4
    BY DEF RequestOK, Answered, Reads
  <2> QED
    BY <2>1 DEF SoFar
<1> QED
  BY <1>1, RestInvariant, PTL

-----------------------------------------------------------------------------
(***************************************************************************)
(* What is left in the leader's pool.  While no proposal has had a rival,  *)
(* every proposal is on the leader's ledger, or was made for its tip and   *)
(* is still to be committed or appended; and whatever waits in the pool    *)
(* has been proposed, or the thread that brought it is about to.           *)
(***************************************************************************)
KnownExists == \A h \in Hashes : Known(pbft[LEADER_NODE], h) => h \in DOMAIN blocks

RootsFit ==
  \A h \in DOMAIN blocks \ {Genesis} :
    blocks[h].merkle_root = compute_merkle_root(blocks[h].transactions)

OnTip(h) ==
  /\ blocks[h].index = Len(chain[LEADER_NODE])
  /\ blocks[h].previous_hash = Tip(LEADER_NODE)

AboutToAdd(h) ==
  \E th \in threads[LEADER_NODE] : th.call.type = "add_block" /\ th.call.block = h

InTime ==
  \A h \in DOMAIN blocks \ {Genesis} :
    \/ h \in Elements(chain[LEADER_NODE])
    \/ OnTip(h) /\ (~Committed(LEADER_NODE, h) \/ AboutToAdd(h))

AboutToPropose(t) ==
  \E th \in threads[LEADER_NODE] : th.call.type = "create_block" /\ th.call.tx = t

Carried ==
  \A t \in Waiting(LEADER_NODE) :
    AboutToPropose(t) \/ \E h \in DOMAIN blocks \ {Genesis} : t \in TxsOf(h)

RivalsInv == KnownExists /\ RootsFit /\ Carried /\ (NoRivals => InTime)

RivalsOK == KnownExists' /\ RootsFit' /\ Carried' /\ (NoRivals' => InTime')

\* A block of the pool's size takes all of the pool.
PoolFitsBlock == Len(pending[LEADER_NODE]) <= MAX_TRANSACTIONS_PER_BLOCK

\* The leader's threads that are inside the node, but for th, go on.
Undisturbed(th) ==
  \A x \in threads[LEADER_NODE] :
    x.call.type \notin MessageType /\ x # th => x \in threads'[LEADER_NODE]

-----------------------------------------------------------------------------
LEMMA OnlyQuorumsCommit ==
  ASSUME NEW e \in Engine, NEW h \in Hashes, NEW s \in Nodes, NEW g \in Hashes
  PROVE  /\ HandlePrePrepare(e, h).status[g] = "committed" => e.status[g] = "committed"
         /\ HandlePrepare(e, h, s).status[g] = "committed" => e.status[g] = "committed"
         /\ HandleCommit(e, h, s).status[g] = "committed" =>
              e.status[g] = "committed" \/ (g = h /\ ShouldAdd(e, h, s))
<1>1. HandlePrePrepare(e, h).status[g] = "committed" => e.status[g] = "committed"
  BY DEF HandlePrePrepare, Engine
<1>2. HandlePrepare(e, h, s).status[g] = "committed" => e.status[g] = "committed"
  BY DEF HandlePrepare, Engine
<1>3. HandleCommit(e, h, s).status[g] = "committed" =>
        e.status[g] = "committed" \/ (g = h /\ ShouldAdd(e, h, s))
  BY DEF HandleCommit, Engine
<1> QED
  BY <1>1, <1>2, <1>3

LEMMA FewerRivals ==
  ASSUME BlocksKept, DOMAIN blocks \subseteq DOMAIN blocks', NoRivals'
  PROVE  NoRivals
BY DEF BlocksKept, NoRivals, Place

\* Nothing is appended to the leader's ledger: what it had, it keeps, and what is
\* new was made for its tip.
LEMMA InTimeStays ==
  ASSUME InTime, BlocksKept, chain'[LEADER_NODE] = chain[LEADER_NODE],
         \A g \in DOMAIN blocks' \ DOMAIN blocks :
           /\ blocks'[g].index = Len(chain[LEADER_NODE])
           /\ blocks'[g].previous_hash = Tip(LEADER_NODE),
         \A g \in DOMAIN blocks' \ {Genesis} : Committed(LEADER_NODE, g)' =>
           \/ AboutToAdd(g)'
           \/ /\ g \in DOMAIN blocks /\ Committed(LEADER_NODE, g)
              /\ AboutToAdd(g) => AboutToAdd(g)'
  PROVE  InTime'
<1>1. ASSUME NEW g \in DOMAIN blocks' \ {Genesis}
      PROVE  \/ g \in Elements(chain[LEADER_NODE])
             \/ /\ blocks'[g].index = Len(chain[LEADER_NODE])
                /\ blocks'[g].previous_hash = Tip(LEADER_NODE)
                /\ ~Committed(LEADER_NODE, g)' \/ AboutToAdd(g)'
  BY DEF InTime, OnTip, BlocksKept
<1>2. Tip(LEADER_NODE)' = Tip(LEADER_NODE) /\ Elements(chain[LEADER_NODE])' = Elements(chain[LEADER_NODE])
  BY DEF Tip, Elements
<1> QED
  BY <1>1, <1>2 DEF InTime, OnTip

LEMMA CarriedStays ==
  ASSUME PoolInv, Carried, BlocksKept, DOMAIN blocks \subseteq DOMAIN blocks',
         NEW th, Undisturbed(th),
         \A t \in Waiting(LEADER_NODE)' :
           \/ t \in Waiting(LEADER_NODE) /\ ~(th.call.type = "create_block" /\ th.call.tx = t)
           \/ AboutToPropose(t)'
           \/ \E h \in DOMAIN blocks' \ {Genesis} : t \in TxsOf(h)'
  PROVE  Carried'
<1> SUFFICES ASSUME NEW t \in Waiting(LEADER_NODE),
                    ~(th.call.type = "create_block" /\ th.call.tx = t)
             PROVE  \/ AboutToPropose(t)'
                    \/ \E h \in DOMAIN blocks' \ {Genesis} : t \in TxsOf(h)'
  BY DEF Carried
<1>1. CASE AboutToPropose(t)
  <2>1. PICK x \in threads[LEADER_NODE] : x.call.type = "create_block" /\ x.call.tx = t
    BY <1>1 DEF AboutToPropose
  <2>2. x \in threads'[LEADER_NODE]
    BY <2>1 DEF Undisturbed, MessageType
  <2> QED
    BY <2>1, <2>2 DEF AboutToPropose
<1>2. ASSUME NEW h \in DOMAIN blocks \ {Genesis}, t \in TxsOf(h)
      PROVE  \E g \in DOMAIN blocks' \ {Genesis} : t \in TxsOf(g)'
  <2>1. h \in DOMAIN blocks' \ {Genesis} /\ TxsOf(h)' = TxsOf(h)
    BY DEF BlocksKept, TxsOf, Elements
  <2> QED
    BY <1>2, <2>1
<1> QED
  BY <1>1, <1>2 DEF Carried

LEMMA QuietRivals ==
  ASSUME PoolInv, RivalsInv, blocks' = blocks,
         chain'[LEADER_NODE] = chain[LEADER_NODE], pending'[LEADER_NODE] = pending[LEADER_NODE],
         NEW th, Undisturbed(th), th.call.type \notin {"create_block", "add_block"},
         \A g \in Hashes :
           /\ Known(pbft'[LEADER_NODE], g) => Known(pbft[LEADER_NODE], g) \/ g \in DOMAIN blocks
           /\ Committed(LEADER_NODE, g)' => Committed(LEADER_NODE, g) \/ AboutToAdd(g)'
  PROVE  RivalsOK
<1>1. BlocksKept /\ DOMAIN blocks \subseteq DOMAIN blocks' /\ DOMAIN blocks' \ {Genesis} \subseteq Hashes
  BY DEF BlocksKept, PoolInv, NodeInv, LedgersOK, Block
<1>2. KnownExists' /\ RootsFit'
  BY DEF RivalsInv, KnownExists, RootsFit, Known
<1>3. \A g : AboutToAdd(g) => AboutToAdd(g)'
  BY DEF AboutToAdd, Undisturbed, MessageType
<1>4. NoRivals' => InTime'
  <2>1. \A g \in DOMAIN blocks' \ DOMAIN blocks :
           /\ blocks'[g].index = Len(chain[LEADER_NODE])
           /\ blocks'[g].previous_hash = Tip(LEADER_NODE)
    OBVIOUS
  <2>2. \A g \in DOMAIN blocks' \ {Genesis} : Committed(LEADER_NODE, g)' =>
           \/ AboutToAdd(g)'
           \/ /\ g \in DOMAIN blocks /\ Committed(LEADER_NODE, g)
              /\ AboutToAdd(g) => AboutToAdd(g)'
    BY <1>1, <1>3
  <2> QED
    BY <1>1, <2>1, <2>2, FewerRivals, InTimeStays DEF RivalsInv
<1>5. Waiting(LEADER_NODE)' = Waiting(LEADER_NODE)
  BY DEF Waiting, Elements
<1>6. Carried'
  BY <1>1, <1>5, CarriedStays DEF RivalsInv
<1> QED
  BY <1>2, <1>4, <1>6 DEF RivalsOK

\* Nothing of the leader's changes but what is sent to it.
LEMMA ElsewhereRivals ==
  ASSUME PoolInv, RivalsInv, blocks' = blocks,
         chain'[LEADER_NODE] = chain[LEADER_NODE], pending'[LEADER_NODE] = pending[LEADER_NODE],
         pbft'[LEADER_NODE] = pbft[LEADER_NODE],
         \A x \in threads[LEADER_NODE] : x.call.type \notin MessageType => x \in threads'[LEADER_NODE]
  PROVE  RivalsOK
<1> DEFINE none == [call |-> [type |-> "none"]]
<1>1. Undisturbed(none) /\ none.call.type \notin {"create_block", "add_block"}
  BY DEF Undisturbed
<1>2. \A g \in Hashes :
           /\ Known(pbft'[LEADER_NODE], g) => Known(pbft[LEADER_NODE], g) \/ g \in DOMAIN blocks
           /\ Committed(LEADER_NODE, g)' => Committed(LEADER_NODE, g) \/ AboutToAdd(g)'
  BY DEF Committed
<1> HIDE DEF none
<1> QED
  BY <1>1, <1>2, QuietRivals

LEMMA ProceedsUndisturbed ==
  ASSUME NodeInv, NEW n \in Nodes, NEW th \in threads[n], Proceeds(n, th)
  PROVE  /\ n = LEADER_NODE => Undisturbed(th)
         /\ n # LEADER_NODE => \A x \in threads[LEADER_NODE] : x \in threads'[LEADER_NODE]
<1>1. threads \in [Nodes -> SUBSET Thread] /\ LEADER_NODE \in Nodes
  BY NodeAssumption DEF NodeInv, ThreadsOK
<1>2. \A x \in threads[LEADER_NODE] : ~(LEADER_NODE = n /\ x = th) => x \in threads'[LEADER_NODE]
  BY <1>1, ContinueHolds, FinishHolds DEF Proceeds
<1> QED
  BY <1>2 DEF Undisturbed

\* The steps of the other nodes.
LEMMA OthersRivals ==
  ASSUME PoolInv, RivalsInv, NEW n \in Nodes, n # LEADER_NODE, NEW th \in threads[n], Step(n, th)
  PROVE  RivalsOK
<1>1. NodeInv /\ LedgersOK /\ ProtocolOK /\ LEADER_NODE \in Nodes
  BY NodeAssumption DEF PoolInv, NodeInv
<1>2. \A x \in threads[LEADER_NODE] : x \in threads'[LEADER_NODE]
  BY <1>1, StepProceeds, ProceedsUndisturbed
<1>3. pbft'[LEADER_NODE] = pbft[LEADER_NODE]
  BY <1>1 DEF Step, OnTransaction, PoolTransaction, ProposeBlock, OnPrePrepare, OnPrepare,
     OnCommit, CommitBlock, protocolVars, ProtocolOK
<1>4. /\ blocks' = blocks
      /\ chain'[LEADER_NODE] = chain[LEADER_NODE]
      /\ pending'[LEADER_NODE] = pending[LEADER_NODE]
  <2>1. CASE UNCHANGED ledgerVars
    BY <2>1 DEF ledgerVars
  <2>2. CASE PoolTransaction(n, th)
    BY <1>1, <2>2 DEF PoolTransaction, AddTransaction, LedgersOK
  <2>3. CASE ProposeBlock(n, th)
    BY <1>1, <2>3, ThreadCall DEF ProposeBlock, NodeInv
  <2>4. CASE CommitBlock(n, th)
    BY <1>1, <2>1, <2>4 DEF CommitBlock, AddBlock, LedgersOK
  <2> QED
    BY <2>1, <2>2, <2>3, <2>4 DEF Step, OnTransaction, OnPrePrepare, OnPrepare, OnCommit
<1> QED
  BY <1>2, <1>3, <1>4, ElsewhereRivals

\* The leader's own steps.
LEMMA TransactionRivals ==
  ASSUME PoolInv, RivalsInv, NEW th \in threads[LEADER_NODE], OnTransaction(LEADER_NODE, th)
  PROVE  RivalsOK
<1>1. NodeInv /\ LEADER_NODE \in Nodes
  BY NodeAssumption DEF PoolInv
<1>2. Undisturbed(th)
  BY <1>1, StepProceeds, ProceedsUndisturbed DEF Step
<1>3. UNCHANGED <<pbft, blocks, chain, pending>> /\ th.call.type = "TRANSACTION"
  BY DEF OnTransaction, ledgerVars
<1>4. \A g \in Hashes :
           /\ Known(pbft'[LEADER_NODE], g) => Known(pbft[LEADER_NODE], g)
           /\ Committed(LEADER_NODE, g)' => Committed(LEADER_NODE, g)
  BY <1>3 DEF Committed
<1> QED
  BY <1>2, <1>3, <1>4, QuietRivals

LEMMA VoteRivals ==
  ASSUME PoolInv, RivalsInv, NEW th \in threads[LEADER_NODE],
         \/ OnPrePrepare(LEADER_NODE, th) \/ OnPrepare(LEADER_NODE, th) \/ OnCommit(LEADER_NODE, th)
  PROVE  RivalsOK
<1> DEFINE h == th.call.block
           s == th.call.sender
           e == pbft[LEADER_NODE]
<1>1. NodeInv /\ LEADER_NODE \in Nodes /\ e \in Engine /\ threads \in [Nodes -> SUBSET Thread]
  BY NodeAssumption DEF PoolInv, NodeInv, ProtocolOK, ThreadsOK
<1>2. Undisturbed(th)
  BY <1>1, StepProceeds, ProceedsUndisturbed DEF Step
<1>3. /\ UNCHANGED <<blocks, chain, pending>>
      /\ th.call.type \in {"PRE-PREPARE", "PREPARE", "COMMIT"}
  BY DEF OnPrePrepare, OnPrepare, OnCommit, ledgerVars
<1>4. h \in Hashes /\ h \in DOMAIN blocks /\ s \in Nodes
  BY <1>1, <1>3, ThreadCall, CallFields DEF NodeInv, Exists, BlockCall
<1>5. \/ pbft'[LEADER_NODE] = HandlePrePrepare(e, h)
      \/ pbft'[LEADER_NODE] = HandlePrepare(e, h, s)
      \/ /\ pbft'[LEADER_NODE] = HandleCommit(e, h, s)
         /\ ShouldAdd(e, h, s) =>
              Continue(LEADER_NODE, th, [type |-> "add_block", block |-> h], {})
  BY <1>1 DEF OnPrePrepare, OnPrepare, OnCommit, NodeInv, ProtocolOK
<1>6. ASSUME Continue(LEADER_NODE, th, [type |-> "add_block", block |-> h], {})
      PROVE  AboutToAdd(h)'
  <2> DEFINE x == [call |-> [type |-> "add_block", block |-> h], owed |-> th.owed \cup {}]
  <2>1. x \in threads'[LEADER_NODE] /\ x.call.type = "add_block" /\ x.call.block = h
    BY <1>1, <1>6, ContinueHolds
  <2> HIDE DEF x
  <2> QED
    BY <2>1 DEF AboutToAdd
<1> HIDE DEF h, s, e
<1>7. \A g \in Hashes :
        /\ Known(pbft'[LEADER_NODE], g) => Known(e, g) \/ g \in DOMAIN blocks
        /\ pbft'[LEADER_NODE].status[g] = "committed" => e.status[g] = "committed" \/ AboutToAdd(g)'
  BY <1>1, <1>4, <1>5, <1>6, EngineLearns, OnlyQuorumsCommit
<1> QED
  BY <1>2, <1>3, <1>7, QuietRivals DEF Committed, e

LEMMA PoolingRivals ==
  ASSUME PoolInv, RivalsInv, NEW th \in threads[LEADER_NODE], PoolTransaction(LEADER_NODE, th)
  PROVE  RivalsOK
<1> DEFINE t == th.call.tx
<1>1. NodeInv /\ LedgersOK /\ LEADER_NODE \in Nodes /\ threads \in [Nodes -> SUBSET Thread]
  BY NodeAssumption DEF PoolInv, NodeInv, ThreadsOK
<1>2. Undisturbed(th)
  BY <1>1, StepProceeds, ProceedsUndisturbed DEF Step
<1>3. t \in Txs /\ AddTransaction(LEADER_NODE, t) /\ th.call.type = "add_transaction"
  BY <1>1, ThreadCall, CallFields DEF PoolTransaction, NodeInv
<1>4. UNCHANGED <<pbft, blocks, chain>>
  BY <1>3 DEF PoolTransaction, AddTransaction, protocolVars
<1>5. Waiting(LEADER_NODE)' = Waiting(LEADER_NODE) \cup {t}
  BY <1>1, <1>3, AddTransactionTxs
<1>6. AboutToPropose(t)'
  <2> DEFINE call == [type |-> "create_block", tx |-> t]
             x == [call |-> call, owed |-> th.owed \cup {}]
  <2>1. x \in threads'[LEADER_NODE]
    BY <1>1, ContinueHolds DEF PoolTransaction
  <2>2. x.call.type = "create_block" /\ x.call.tx = t
    OBVIOUS
  <2> HIDE DEF x
  <2> QED
    BY <2>1, <2>2 DEF AboutToPropose
<1>7. BlocksKept /\ DOMAIN blocks \subseteq DOMAIN blocks'
  BY <1>4 DEF BlocksKept
<1>8. KnownExists' /\ RootsFit'
  BY <1>4 DEF RivalsInv, KnownExists, RootsFit, Known
<1>9. \A g : AboutToAdd(g) => AboutToAdd(g)'
  BY <1>2, <1>3 DEF AboutToAdd, Undisturbed, MessageType
<1>10. NoRivals' => InTime'
  BY <1>4, <1>7, <1>9, FewerRivals, InTimeStays DEF RivalsInv, Committed
<1>11. Carried'
  <2> HIDE DEF t
  <2> QED
    BY <1>2, <1>3, <1>5, <1>6, <1>7, CarriedStays DEF RivalsInv
<1> QED
  BY <1>8, <1>10, <1>11 DEF RivalsOK

\* A proposal carries the whole pool, and its root.
LEMMA ProposalTakesAll ==
  ASSUME LedgersOK, PoolFitsBlock, NEW h \in Hashes, CreateBlock(LEADER_NODE, h)
  PROVE  /\ Waiting(LEADER_NODE) \subseteq TxsOf(h)'
         /\ blocks'[h].merkle_root = compute_merkle_root(blocks'[h].transactions)
<1> DEFINE s == pending[LEADER_NODE]
           len == Len(s)
           size == IF len < MAX_TRANSACTIONS_PER_BLOCK THEN len ELSE MAX_TRANSACTIONS_PER_BLOCK
           batch == SubSeq(s, 1, size)
<1>1. s \in Seq(Txs) /\ len \in Nat /\ DOMAIN s = 1 .. len
  BY NodeAssumption DEF LedgersOK
<1>2. blocks'[h] = Candidate(LEADER_NODE)
  BY DEF CreateBlock
<1>3. Candidate(LEADER_NODE).transactions = batch
  BY DEF Candidate
<1>4. Candidate(LEADER_NODE).merkle_root = compute_merkle_root(batch)
  BY DEF Candidate
<1>5. size = len
  <2>1. len <= MAX_TRANSACTIONS_PER_BLOCK
    BY DEF PoolFitsBlock
  <2> HIDE DEF len
  <2> QED
    BY <1>1, <2>1, LedgerAssumption
<1>6. batch = s
  <2> HIDE DEF size, s
  <2> QED
    BY <1>1, <1>5
<1>7. blocks'[h].transactions = s
  BY <1>2, <1>3, <1>6
<1>8. blocks'[h].merkle_root = compute_merkle_root(s)
  BY <1>2, <1>4, <1>6
<1> HIDE DEF s, batch
<1>9. TxsOf(h)' = {s[i] : i \in DOMAIN s}
  BY <1>7 DEF TxsOf, Elements
<1> QED
  BY <1>7, <1>8, <1>9 DEF Waiting, Elements, s

LEMMA ProposingRivals ==
  ASSUME PoolInv, RivalsInv, PoolFitsBlock, MIN_TRANSACTIONS_PER_BLOCK <= 1,
         NEW th \in threads[LEADER_NODE], ProposeBlock(LEADER_NODE, th)
  PROVE  RivalsOK
<1>1. NodeInv /\ LedgersOK /\ Heights /\ LEADER_NODE \in Nodes
  BY NodeAssumption DEF PoolInv, NodeInv
<1>2. Undisturbed(th)
  BY <1>1, StepProceeds, ProceedsUndisturbed DEF Step
<1>3. th.call.type = "create_block" /\ pbft' = pbft
  BY DEF ProposeBlock, protocolVars
<1>4. \A g : AboutToAdd(g) => AboutToAdd(g)'
  BY <1>2, <1>3 DEF AboutToAdd, Undisturbed, MessageType
<1>5. CASE ~CanCreate(LEADER_NODE) /\ UNCHANGED ledgerVars
  <2>1. UNCHANGED <<blocks, chain, pending>>
    BY <1>5 DEF ledgerVars
  <2>2. BlocksKept /\ DOMAIN blocks \subseteq DOMAIN blocks'
    BY <2>1 DEF BlocksKept
  <2>3. KnownExists' /\ RootsFit'
    BY <1>3, <2>1 DEF RivalsInv, KnownExists, RootsFit, Known
  <2>4. NoRivals' => InTime'
    BY <1>3, <1>4, <2>1, <2>2, FewerRivals, InTimeStays DEF RivalsInv, Committed
  <2>5. Waiting(LEADER_NODE)' = {}
    <3> DEFINE s == pending[LEADER_NODE]
               len == Len(s)
    <3>1. len \in Nat /\ DOMAIN s = 1 .. len
      BY <1>1 DEF LedgersOK
    <3>2. ~(len >= MIN_TRANSACTIONS_PER_BLOCK)
      BY <1>5 DEF CanCreate
    <3>3. pending'[LEADER_NODE] = s
      BY <2>1
    <3> HIDE DEF len, s
    <3>4. len = 0
      BY <3>1, <3>2, LedgerAssumption
    <3>5. DOMAIN s = {}
      BY <3>1, <3>4
    <3> QED
      BY <3>3, <3>5 DEF Waiting, Elements
  <2>6. Carried'
    BY <2>5 DEF Carried
  <2> QED
    BY <2>3, <2>4, <2>6 DEF RivalsOK
<1>6. ASSUME NEW h \in Hashes, CreateBlock(LEADER_NODE, h) PROVE RivalsOK
  <2>1. /\ DOMAIN blocks' = DOMAIN blocks \cup {h}
        /\ \A b \in DOMAIN blocks : blocks'[b] = blocks[b]
        /\ blocks'[h].index = Len(chain[LEADER_NODE])
        /\ blocks'[h].previous_hash = Tip(LEADER_NODE)
        /\ chain' = chain /\ pending' = pending
    BY <1>1, <1>6, CreateBlockAdds
  <2>2. BlocksKept /\ DOMAIN blocks \subseteq DOMAIN blocks'
    BY <2>1 DEF BlocksKept
  <2>3. /\ Waiting(LEADER_NODE) \subseteq TxsOf(h)'
        /\ blocks'[h].merkle_root = compute_merkle_root(blocks'[h].transactions)
    BY <1>1, <1>6, ProposalTakesAll
  <2>4. KnownExists'
    BY <1>3, <2>1 DEF RivalsInv, KnownExists, Known
  <2>5. RootsFit'
    BY <2>1, <2>3 DEF RivalsInv, RootsFit
  <2>6. \A g \in DOMAIN blocks' \ {Genesis} :
          Committed(LEADER_NODE, g)' => g \in DOMAIN blocks /\ Committed(LEADER_NODE, g)
    <3>1. \A g \in DOMAIN blocks' \ {Genesis} : g \in Hashes
      BY <1>1, <2>1 DEF LedgersOK, Block
    <3> QED
      BY <1>3, <3>1 DEF Committed, Known, RivalsInv, KnownExists
  <2>7. \A g \in DOMAIN blocks' \ DOMAIN blocks :
           /\ blocks'[g].index = Len(chain[LEADER_NODE])
           /\ blocks'[g].previous_hash = Tip(LEADER_NODE)
    BY <2>1
  <2>8. NoRivals' => InTime'
    BY <1>4, <2>1, <2>2, <2>6, <2>7, FewerRivals, InTimeStays DEF RivalsInv
  <2>9. h \in DOMAIN blocks' \ {Genesis}
    BY <2>1, LedgerAssumption
  <2>10. Waiting(LEADER_NODE)' = Waiting(LEADER_NODE)
    BY <2>1 DEF Waiting, Elements
  <2>11. Carried'
    BY <1>2, <2>2, <2>3, <2>9, <2>10, CarriedStays DEF RivalsInv
  <2> QED
    BY <2>4, <2>5, <2>8, <2>11 DEF RivalsOK
<1> QED
  BY <1>5, <1>6 DEF ProposeBlock

\* What is appended was on the leader's tip, and the only one there.  What is
\* refused is on the ledger already.
LEMMA AddingRivals ==
  ASSUME PoolInv, RivalsInv, NEW th \in threads[LEADER_NODE], CommitBlock(LEADER_NODE, th)
  PROVE  RivalsOK
<1> DEFINE h == th.call.block
           len == Len(chain[LEADER_NODE])
<1>1. NodeInv /\ LedgersOK /\ Heights /\ LEADER_NODE \in Nodes
  BY NodeAssumption DEF PoolInv, NodeInv
<1>2. Undisturbed(th)
  BY <1>1, StepProceeds, ProceedsUndisturbed DEF Step
<1>3. th.call.type = "add_block" /\ pbft' = pbft /\ AddBlock(LEADER_NODE, h)
  BY DEF CommitBlock, protocolVars
<1>4. h \in Hashes /\ h \in DOMAIN blocks /\ h \in DOMAIN blocks \ {Genesis}
  BY <1>1, <1>3, LedgerAssumption, ThreadCall, CallFields DEF NodeInv, Exists, BlockCall
<1>5. blocks' = blocks /\ Waiting(LEADER_NODE)' \subseteq Waiting(LEADER_NODE)
  BY <1>1, <1>3, <1>4, AddBlockTxs DEF SameTxs
<1>6. BlocksKept /\ DOMAIN blocks \subseteq DOMAIN blocks'
  BY <1>5 DEF BlocksKept
<1>7. KnownExists' /\ RootsFit'
  BY <1>3, <1>5 DEF RivalsInv, KnownExists, RootsFit, Known
<1>8. Carried'
  <2> HIDE DEF h, len
  <2> QED
    BY <1>2, <1>3, <1>5, <1>6, CarriedStays DEF RivalsInv
<1>9. \A g : g # h => (AboutToAdd(g) => AboutToAdd(g)')
  BY <1>2 DEF AboutToAdd, Undisturbed, MessageType
<1>10. len \in Nat /\ len >= 1 /\ chain[LEADER_NODE] \in Seq(Block) /\ DOMAIN chain[LEADER_NODE] = 1 .. len
  BY <1>1, ChainSpan DEF LedgersOK
<1>11. blocks[Tip(LEADER_NODE)].index = len - 1
  BY <1>1, <1>10 DEF Heights, Tip
<1>12. ASSUME NoRivals' PROVE InTime'
  <2>1. NoRivals /\ InTime
    BY <1>6, <1>12, FewerRivals DEF RivalsInv
  <2>2. CASE Acceptable(LEADER_NODE, h)
    <3>1. chain'[LEADER_NODE] = Append(chain[LEADER_NODE], h)
      BY <1>1, <1>3, <2>2 DEF AddBlock, LedgersOK
    <3>2. Elements(chain[LEADER_NODE])' = Elements(chain[LEADER_NODE]) \cup {h}
      <4> DEFINE s == chain[LEADER_NODE]
                 r == Append(s, h)
      <4>1. s \in Seq(Block) /\ Len(s) = len /\ DOMAIN s = 1 .. len /\ len \in Nat /\ h \in Block
        BY <1>4, <1>10 DEF Block
      <4> HIDE DEF s, len, h
      <4>2. /\ DOMAIN r = (1 .. len) \cup {len + 1}
            /\ r[len + 1] = h
            /\ \A i \in 1 .. len : r[i] = s[i]
        BY <4>1
      <4>3. {r[i] : i \in DOMAIN r} = {s[i] : i \in DOMAIN s} \cup {h}
        BY <4>1, <4>2
      <4>4. chain'[LEADER_NODE] = r
        BY <3>1 DEF s
      <4> HIDE DEF r
      <4> QED
        BY <4>3, <4>4 DEF Elements, s
    <3>3. ASSUME NEW g \in DOMAIN blocks \ {Genesis}, OnTip(g) PROVE g = h
      <4>1. blocks[h].index = len /\ blocks[h].previous_hash = Tip(LEADER_NODE)
        BY <1>10, <1>11, <2>2 DEF Acceptable
      <4>2. Place(g) = Place(h)
        BY <3>3, <4>1 DEF OnTip, Place
      <4> QED
        BY <1>4, <2>1, <4>2 DEF NoRivals
    <3>4. \A g \in DOMAIN blocks' \ {Genesis} : g \in Elements(chain[LEADER_NODE])'
      BY <1>5, <2>1, <3>2, <3>3 DEF InTime
    <3> QED
      BY <3>4 DEF InTime, Elements
  <2>3. CASE ~Acceptable(LEADER_NODE, h)
    <3>1. chain' = chain
      BY <1>3, <2>3 DEF AddBlock, ledgerVars
    <3>2. ~OnTip(h)
      <4>1. blocks[h].merkle_root = compute_merkle_root(blocks[h].transactions)
        BY <1>4 DEF RivalsInv, RootsFit
      <4> QED
        BY <1>10, <1>11, <2>3, <4>1 DEF Acceptable, OnTip
    <3>3. h \in Elements(chain[LEADER_NODE])
      BY <1>4, <2>1, <3>2 DEF InTime
    <3>4. ASSUME NEW g \in DOMAIN blocks \ {Genesis}, g \notin Elements(chain[LEADER_NODE])
          PROVE  OnTip(g) /\ (~Committed(LEADER_NODE, g) \/ AboutToAdd(g)')
      <4>1. g # h
        BY <3>3, <3>4
      <4> QED
        BY <1>9, <2>1, <3>4, <4>1 DEF InTime
    <3>5. /\ \A g : OnTip(g)' <=> OnTip(g)
          /\ \A g : Committed(LEADER_NODE, g)' <=> Committed(LEADER_NODE, g)
          /\ Elements(chain[LEADER_NODE])' = Elements(chain[LEADER_NODE])
      BY <1>3, <1>5, <3>1 DEF OnTip, Tip, Committed, Elements
    <3> QED
      BY <1>5, <3>4, <3>5 DEF InTime
  <2> QED
    BY <2>2, <2>3
<1> QED
  BY <1>7, <1>8, <1>12 DEF RivalsOK

\* The steps of no thread, while the leader keeps running.
LEMMA ChurnRivals ==
  ASSUME PoolInv, RivalsInv, LEADER_NODE \notin MayCrash, LEADER_NODE \in up, NEW n \in Nodes,
         (\E t \in Txs : Submit(n, t)) \/ Lose(n) \/ Crash(n) \/ Restart(n)
  PROVE  RivalsOK
<1>1. LEADER_NODE \in Nodes /\ threads \in [Nodes -> SUBSET Thread] /\ LedgersOK /\ ProtocolOK
  BY NodeAssumption DEF PoolInv, NodeInv, ThreadsOK
<1>2. (Crash(n) \/ Restart(n)) => n # LEADER_NODE
  BY DEF Crash, Restart
<1>3. /\ blocks' = blocks
      /\ chain'[LEADER_NODE] = chain[LEADER_NODE]
      /\ pending'[LEADER_NODE] = pending[LEADER_NODE]
      /\ pbft'[LEADER_NODE] = pbft[LEADER_NODE]
  BY <1>1, <1>2 DEF Submit, Lose, Crash, Restart, ledgerVars, protocolVars, LedgersOK, ProtocolOK
<1>4. ASSUME NEW x \in threads[LEADER_NODE], x.call.type \notin MessageType
      PROVE  x \in threads'[LEADER_NODE]
  <2>1. CASE \E t \in Txs : Submit(n, t)
    BY <1>1, <2>1 DEF Submit
  <2>2. CASE Lose(n)
    BY <1>1, <1>4, <2>2 DEF Lose, InFlight
  <2>3. CASE Crash(n)
    <3>1. PICK unsent \in SUBSET UNION {{m} \X SentBy(n, m) : m \in up} :
            threads' = [m \in Nodes |->
                          IF m = n THEN IF n \in MayRestart THEN InFlight(n) ELSE {}
                          ELSE {th \in threads[m] : <<m, th>> \notin unsent}]
      BY <2>3 DEF Crash
    <3>2. threads'[LEADER_NODE] = {th \in threads[LEADER_NODE] : <<LEADER_NODE, th>> \notin unsent}
      BY <1>1, <1>2, <2>3, <3>1
    <3>3. CASE <<LEADER_NODE, x>> \in unsent
      <4>1. PICK m \in up : <<LEADER_NODE, x>> \in {m} \X SentBy(n, m)
        BY <3>3
      <4> QED
        BY <1>4, <4>1 DEF SentBy, InFlight
    <3> QED
      BY <3>2, <3>3
  <2>4. CASE Restart(n)
    <3>1. PICK unfailed \in SUBSET threads[n] : threads' = [threads EXCEPT ![n] = unfailed]
      BY <2>4 DEF Restart
    <3> QED
      BY <1>1, <1>2, <2>4, <3>1
  <2> QED
    BY <2>1, <2>2, <2>3, <2>4
<1> QED
  BY <1>3, <1>4, ElsewhereRivals

LEMMA RivalsInit == Init => RivalsInv
<1> SUFFICES ASSUME Init PROVE RivalsInv
  OBVIOUS
<1>1. /\ DOMAIN blocks = {Genesis} /\ LEADER_NODE \in Nodes
      /\ pending[LEADER_NODE] = <<>> /\ pbft[LEADER_NODE] = NewEngine
  BY NodeAssumption DEF Init, InitLedgers
<1>2. KnownExists
  BY <1>1 DEF KnownExists, Known, NewEngine
<1> QED
  BY <1>1, <1>2 DEF RivalsInv, RootsFit, Carried, Waiting, Elements, InTime

LEMMA RivalsStep ==
  ASSUME LEADER_NODE \notin MayCrash, MIN_TRANSACTIONS_PER_BLOCK <= 1
  PROVE  PoolInv /\ RivalsInv /\ LEADER_NODE \in up /\ PoolFitsBlock /\ [Next]_vars => RivalsInv'
<1> SUFFICES ASSUME PoolInv, RivalsInv, LEADER_NODE \in up, PoolFitsBlock, [Next]_vars
             PROVE  RivalsInv'
  OBVIOUS
<1>1. CASE UNCHANGED vars
  BY <1>1, ElsewhereRivals DEF vars, RivalsOK, RivalsInv
<1>2. ASSUME NEW n \in Nodes, Run(n) PROVE RivalsOK
  <2>1. PICK th \in threads[n] : Step(n, th)
    BY <1>2 DEF Run
  <2>2. CASE n # LEADER_NODE
    BY <2>1, <2>2, OthersRivals
  <2>3. CASE n = LEADER_NODE
    BY <2>1, <2>3, TransactionRivals, VoteRivals, PoolingRivals, ProposingRivals, AddingRivals DEF Step
  <2> QED
    BY <2>2, <2>3
<1>3. CASE Next
  BY <1>2, <1>3, ChurnRivals DEF Next, RivalsOK, RivalsInv
<1> QED
  BY <1>1, <1>3

(***************************************************************************)
(* A transaction stays behind in the leader's pool only if a proposal had  *)
(* a rival (node.py:170, blockchain.py:190, 239): with the leader and 2f   *)
(* others running all the time, no message lost and no more waiting at a   *)
(* time than a block may hold, the pool is empty when nothing is left to   *)
(* do and no two proposals were made for the same place.                   *)
(***************************************************************************)
THEOREM OnlyRivalsStrand ==
  ASSUME LEADER_NODE \in Steady, Cardinality(Steady) >= 2 * f + 1,
         MIN_TRANSACTIONS_PER_BLOCK <= 1
  PROVE  Spec /\ []PoolFitsBlock => [](lost = 0 => StrandedOnlyByRivals)
<1>1. LEADER_NODE \notin MayCrash
  BY DEF Steady
<1>2. PoolInv /\ RivalsInv /\ DecisionInv => (lost = 0 => StrandedOnlyByRivals)
  <2> SUFFICES ASSUME PoolInv, RivalsInv, DecisionInv, lost = 0, Quiescent, NoRivals,
                      LEADER_NODE \in up
               PROVE  pending[LEADER_NODE] = <<>>
    BY DEF StrandedOnlyByRivals
  <2>1. threads[LEADER_NODE] = {}
    BY DEF Quiescent
  <2>2. \A h \in DOMAIN blocks \ {Genesis} : Committed(LEADER_NODE, h)
    BY AllDecided DEF ProposalsAreDecided
  <2>3. \A h \in DOMAIN blocks \ {Genesis} : h \in Elements(chain[LEADER_NODE])
    BY <2>1, <2>2 DEF RivalsInv, InTime, AboutToAdd
  <2>4. \A t \in Waiting(LEADER_NODE) : t \in ChainTxs(LEADER_NODE)
    <3> SUFFICES ASSUME NEW t \in Waiting(LEADER_NODE) PROVE t \in ChainTxs(LEADER_NODE)
      OBVIOUS
    <3>1. PICK h \in DOMAIN blocks \ {Genesis} : t \in TxsOf(h)
      BY <2>1 DEF RivalsInv, Carried, AboutToPropose
    <3> QED
      BY <2>3, <3>1 DEF ChainTxs, Elements
  <2>5. Waiting(LEADER_NODE) = {}
    BY <2>4 DEF PoolInv, LeaderOK
  <2>6. pending[LEADER_NODE] \in Seq(Txs)
    BY NodeAssumption DEF PoolInv, NodeInv, LedgersOK
  <2> DEFINE s == pending[LEADER_NODE]
  <2>7. \A i \in DOMAIN s : FALSE
    BY <2>5 DEF Waiting, Elements
  <2> HIDE DEF s
  <2>8. s \in Seq(Txs)
    BY <2>6 DEF s
  <2>9. Len(s) = 0
    <3>1. Len(s) \in Nat /\ DOMAIN s = 1 .. Len(s)
      BY <2>8
    <3> DEFINE L == Len(s)
    <3>2. L \in Nat /\ 1 \notin 1 .. L
      BY <2>7, <3>1
    <3> HIDE DEF L
    <3>3. L = 0
      BY <3>2
    <3> QED
      BY <3>3 DEF L
  <2>10. s = <<>>
    BY <2>8, <2>9
  <2> QED
    BY <2>10 DEF s
<1>3. DecisionInv => LEADER_NODE \in up
  BY DEF DecisionInv
<1>4. PoolInv /\ RivalsInv /\ LEADER_NODE \in up /\ PoolFitsBlock /\ [Next]_vars => RivalsInv'
  BY <1>1, RivalsStep
<1>5. Spec /\ []PoolFitsBlock => []RivalsInv
  BY <1>3, <1>4, RivalsInit, PoolInvariant, DecisionInvariant, PTL DEF Spec
<1> QED
  BY <1>2, <1>5, PoolInvariant, DecisionInvariant, PTL

(***************************************************************************)
(* The premise on the pool holds of itself where no more than MAX          *)
(* transactions are submitted at all (blockchain.py:190, the slice that    *)
(* create_block takes): a pool holds a transaction once.                   *)
(***************************************************************************)
COROLLARY OnlyRivalsStrandFew ==
  ASSUME LEADER_NODE \in Steady, Cardinality(Steady) >= 2 * f + 1,
         MIN_TRANSACTIONS_PER_BLOCK <= 1,
         IsFiniteSet(Txs), Cardinality(Txs) <= MAX_TRANSACTIONS_PER_BLOCK
  PROVE  Spec => [](lost = 0 => StrandedOnlyByRivals)
<1>1. Init => NoDuplicates
  BY DEF Init, InitLedgers, NoDuplicates, Distinct
<1>2. NodeInv /\ NoDuplicates /\ [Next]_vars => NoDuplicates'
  BY StepKeepsData
<1>3. NodeInv /\ NoDuplicates => PoolFitsBlock
  <2> SUFFICES ASSUME NodeInv, NoDuplicates PROVE PoolFitsBlock
    OBVIOUS
  <2> DEFINE s == pending[LEADER_NODE]
  <2>1. s \in Seq(Txs) /\ DOMAIN s = 1 .. Len(s)
    BY NodeAssumption DEF NodeInv, LedgersOK
  <2>2. Len(s) \in Nat /\ s \in [1 .. Len(s) -> Txs]
    BY <2>1
  <2>3. \A i, j \in 1 .. Len(s) : s[i] = s[j] => i = j
    BY NodeAssumption DEF NoDuplicates, Distinct
  <2> HIDE DEF s
  <2>4. Len(s) <= Cardinality(Txs)
    BY <2>2, <2>3, NoMoreThanDistinct
  <2> DEFINE L == Len(s)
  <2> HIDE DEF L
  <2>5. L <= MAX_TRANSACTIONS_PER_BLOCK
    <3>1. L \in Nat /\ L <= Cardinality(Txs)
      BY <2>2, <2>4 DEF L
    <3>2. Cardinality(Txs) \in Nat
      BY FS_CardinalityType
    <3> QED
      BY <3>1, <3>2, LedgerAssumption
  <2> QED
    BY <2>5 DEF PoolFitsBlock, L, s
<1> QED
  BY <1>1, <1>2, <1>3, Invariant, OnlyRivalsStrand, PTL DEF Spec
=============================================================================
