-------------------------------- MODULE Node --------------------------------
(***************************************************************************)
(* The network of validators (node.py): each node runs one consensus       *)
(* engine (PBFT) and one ledger (Blockchain) and serves every message and  *)
(* every submission in a thread of its own.                                *)
(*                                                                         *)
(* A handler passes results down by calling _process_message on its own    *)
(* node, and only broadcasts when that call has returned.  So a thread is  *)
(* the locked section it enters next, and the broadcasts it still owes;    *)
(* it makes them all when it has left its last locked section.  One step   *)
(* of a thread is one locked section: between two of them the other        *)
(* threads of the node may run.  A message in flight to a node is already  *)
(* the thread that will handle it, so messages arrive in any order.        *)
(***************************************************************************)
EXTENDS PBFT, Blockchain

CONSTANTS
  LEADER_NODE,
  Gateways,     \* nodes that clients submit to
  Down,         \* nodes that were never started
  MayCrash,     \* nodes that may stop at any time
  MayRestart,   \* nodes that may come back after that, with nothing saved
  MaxLost       \* bound: messages that _send gives up on

ASSUME NodeAssumption ==
  /\ LEADER_NODE \in Nodes
  /\ Gateways \subseteq Nodes
  /\ MaxLost \in Nat

VARIABLES
  submitted,    \* transactions that clients have submitted
  up,           \* nodes whose process runs
  seen,         \* seen[n]: _seen_tx_ids of n
  pbft,         \* pbft[n]: the consensus engine of n
  threads,      \* threads[n]: what the threads of n still have to do
  lost          \* number of messages lost so far

protocolVars == <<seen, pbft>>
vars == <<submitted, up, seen, pbft, threads, lost, blocks, chain, pending>>

-----------------------------------------------------------------------------
Transaction(n, t) == [type |-> "TRANSACTION", sender |-> n, tx |-> t]
Vote(kind, n, h) == [type |-> kind, sender |-> n, block |-> h]

MessageType == {"TRANSACTION", "PRE-PREPARE", "PREPARE", "COMMIT"}

Message ==
  [type : {"TRANSACTION"}, sender : Nodes, tx : Txs]
  \cup [type : {"PRE-PREPARE", "PREPARE", "COMMIT"}, sender : Nodes, block : Hashes]

\* Locked sections entered by a call that is not a message.
LedgerCall ==
  [type : {"add_transaction", "create_block"}, tx : Txs]
  \cup [type : {"add_block"}, block : Hashes]

Thread == [call : Message \cup LedgerCall, owed : SUBSET Message]

Receive(msg) == [call |-> msg, owed |-> {}]

\* Messages that have not been handled yet, as against a thread's own next call.
InFlight(n) ==
  {th \in threads[n] : th.call.type \in MessageType /\ th.call.sender # n}

SentBy(s, n) == {th \in InFlight(n) : th.call.sender = s}

-----------------------------------------------------------------------------
Continue(n, th, call, owes) ==
  threads' = [threads EXCEPT
                ![n] = (@ \ {th}) \cup {[call |-> call, owed |-> th.owed \cup owes]}]

\* The thread has left its last locked section: _broadcast what it owes.  A
\* send to a node that is down fails, unless it is made, or repeated, after the
\* node is back.
Finish(n, th) ==
  threads' = [m \in Nodes |->
                IF m = n THEN threads[n] \ {th}
                ELSE IF m \in up \cup MayRestart THEN threads[m] \cup {Receive(msg) : msg \in th.owed}
                ELSE threads[m]]

-----------------------------------------------------------------------------
\* _on_transaction, under _seen_lock
OnTransaction(n, th) ==
  LET t == th.call.tx IN
  /\ th.call.type = "TRANSACTION"
  /\ seen' = [seen EXCEPT ![n] = @ \cup {t}]
  /\ IF t \in seen[n]
     THEN Finish(n, th)
     ELSE Continue(n, th, [type |-> "add_transaction", tx |-> t], {})
  /\ UNCHANGED <<pbft, ledgerVars>>

\* ... then the pool; a leader goes on to propose a block
PoolTransaction(n, th) ==
  /\ th.call.type = "add_transaction"
  /\ AddTransaction(n, th.call.tx)
  /\ IF n = LEADER_NODE
     THEN Continue(n, th, [type |-> "create_block", tx |-> th.call.tx], {})
     ELSE Finish(n, th)
  /\ UNCHANGED protocolVars

\* ... if the pool allows one, and processes the proposal locally first.
ProposeBlock(n, th) ==
  /\ th.call.type = "create_block"
  /\ \/ \E h \in Hashes :
          /\ CreateBlock(n, h)
          /\ LET proposal == Vote("PRE-PREPARE", n, h)
             IN  Continue(n, th, proposal, {proposal})
     \/ /\ ~CanCreate(n)
        /\ Finish(n, th)
        /\ UNCHANGED ledgerVars
  /\ UNCHANGED protocolVars

\* _on_pre_prepare
OnPrePrepare(n, th) ==
  LET h == th.call.block
      vote == Vote("PREPARE", n, h)
  IN
  /\ th.call.type = "PRE-PREPARE"
  /\ pbft' = [pbft EXCEPT ![n] = HandlePrePrepare(@, h)]
  /\ IF ShouldPrepare(pbft[n], h)
     THEN Continue(n, th, vote, {vote})
     ELSE Finish(n, th)
  /\ UNCHANGED <<seen, ledgerVars>>

\* _on_prepare
OnPrepare(n, th) ==
  LET h == th.call.block
      vote == Vote("COMMIT", n, h)
  IN
  /\ th.call.type = "PREPARE"
  /\ pbft' = [pbft EXCEPT ![n] = HandlePrepare(@, h, th.call.sender)]
  /\ IF ShouldCommit(pbft[n], h, th.call.sender)
     THEN Continue(n, th, vote, {vote})
     ELSE Finish(n, th)
  /\ UNCHANGED <<seen, ledgerVars>>

\* _on_commit: the engine first
OnCommit(n, th) ==
  LET h == th.call.block IN
  /\ th.call.type = "COMMIT"
  /\ pbft' = [pbft EXCEPT ![n] = HandleCommit(@, h, th.call.sender)]
  /\ IF ShouldAdd(pbft[n], h, th.call.sender)
     THEN Continue(n, th, [type |-> "add_block", block |-> h], {})
     ELSE Finish(n, th)
  /\ UNCHANGED <<seen, ledgerVars>>

\* ... then the ledger, whose verdict is only logged.
CommitBlock(n, th) ==
  /\ th.call.type = "add_block"
  /\ AddBlock(n, th.call.block)
  /\ Finish(n, th)
  /\ UNCHANGED protocolVars

Step(n, th) ==
  \/ OnTransaction(n, th)
  \/ PoolTransaction(n, th)
  \/ ProposeBlock(n, th)
  \/ OnPrePrepare(n, th)
  \/ OnPrepare(n, th)
  \/ OnCommit(n, th)
  \/ CommitBlock(n, th)

Run(n) ==
  /\ n \in up
  /\ \E th \in threads[n] : Step(n, th)
  /\ UNCHANGED <<submitted, up, lost>>

-----------------------------------------------------------------------------
\* submit_transaction, called by a client's POST /transactions/new
Submit(n, t) ==
  /\ n \in up \cap Gateways
  /\ t \notin submitted
  /\ submitted' = submitted \cup {t}
  /\ threads' = [threads EXCEPT ![n] = @ \cup
                   {[call |-> Transaction(n, t), owed |-> {Transaction(n, t)}]}]
  /\ UNCHANGED <<up, protocolVars, lost, ledgerVars>>

\* _send gives up, or the receiver reads a broken frame.
Lose(n) ==
  /\ lost < MaxLost
  /\ \E th \in InFlight(n) : threads' = [threads EXCEPT ![n] = @ \ {th}]
  /\ lost' = lost + 1
  /\ UNCHANGED <<submitted, up, protocolVars, ledgerVars>>

\* The process of n stops.  Any part of what its threads were sending is lost.
\* What was being sent to it waits for a restart; what it had in memory is kept
\* here until then, for the properties.
Crash(n) ==
  /\ n \in up \cap MayCrash
  /\ up' = up \ {n}
  /\ \E unsent \in SUBSET UNION {{m} \X SentBy(n, m) : m \in up} :
       threads' = [m \in Nodes |->
                     IF m = n THEN IF n \in MayRestart THEN InFlight(n) ELSE {}
                     ELSE {th \in threads[m] : <<m, th>> \notin unsent}]
  /\ UNCHANGED <<submitted, protocolVars, lost, ledgerVars>>

\* Node.__init__ again: nothing was saved, and nobody sends the past again,
\* except for the sends to n that have not yet failed for good.
Restart(n) ==
  /\ n \in MayRestart \ up
  /\ up' = up \cup {n}
  /\ seen' = [seen EXCEPT ![n] = {}]
  /\ pbft' = [pbft EXCEPT ![n] = NewEngine]
  /\ chain' = [chain EXCEPT ![n] = <<Genesis>>]
  /\ pending' = [pending EXCEPT ![n] = <<>>]
  /\ \E unfailed \in SUBSET threads[n] : threads' = [threads EXCEPT ![n] = unfailed]
  /\ UNCHANGED <<submitted, lost, blocks>>

Init ==
  /\ InitLedgers
  /\ submitted = {}
  /\ up = Nodes \ Down
  /\ seen = [n \in Nodes |-> {}]
  /\ pbft = [n \in Nodes |-> NewEngine]
  /\ threads = [n \in Nodes |-> {}]
  /\ lost = 0

Next ==
  \E n \in Nodes :
    \/ Run(n)
    \/ \E t \in Txs : Submit(n, t)
    \/ Lose(n)
    \/ Crash(n)
    \/ Restart(n)

Spec == Init /\ [][Next]_vars

(***************************************************************************)
(* The operating system runs the threads of a running process: none of     *)
(* them waits for anything but a lock, and every locked section ends.      *)
(***************************************************************************)
FairSpec == Spec /\ \A n \in Nodes : WF_vars(Run(n))
=============================================================================
