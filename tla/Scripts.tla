------------------------------- MODULE Scripts -------------------------------
(***************************************************************************)
(* A client script (simulation.py, test_client.py) and the endpoints it    *)
(* uses (app.py), on top of the ledgers as LeaderChain promises them.  The *)
(* script posts readings to its target node, asks one node after the other *)
(* for its chain, and has the target decrypt the first transaction of its  *)
(* chain.  The ledgers go on meanwhile, and so do other clients; one       *)
(* script is enough, since scripts see of each other what they post only.  *)
(*                                                                         *)
(* A transaction is its gateway and its encrypted payload.  A key pair is  *)
(* made by a process when it starts and dies with it.                      *)
(***************************************************************************)
EXTENDS LeaderChain, Encryption, FiniteSets, SequencesExt

CONSTANTS
  NodeOrder,         \* Nodes in the order of NODES (config.py)
  Targets,           \* nodes that --target may name
  Gateways,          \* nodes that other clients post to
  Count,             \* readings the script posts
  MaxRestarts        \* bound: restarts in all

ASSUME ScriptsAssumption ==
  /\ NodeOrder \in Seq(Nodes)
  /\ ToSet(NodeOrder) = Nodes /\ Len(NodeOrder) = Cardinality(Nodes)
  /\ Targets \subseteq Nodes /\ Gateways \subseteq Nodes
  /\ Count \in Nat /\ MaxRestarts \in Nat

VARIABLES
  incarnation,    \* incarnation[n]: which process of n is running
  accepted,       \* transactions that reached a gateway
  first,          \* first[h]: the first transaction in block h
  target,         \* the node the script was started for
  script          \* where the script is, and what it was told

network == <<vars, incarnation, first>>
scriptVars == <<target, script>>
allVars == <<network, accepted, scriptVars>>

Key == [node : Nodes, incarnation : 0 .. MaxRestarts]
Readings == {"reading of the script", "reading of another"}
Transaction ==
  [gateway : Nodes,
   payload : {process_iot_data_encryption(data, key) : data \in Readings, key \in Key}]
Unreachable == <<>>

TypeOK ==
  /\ chain \in [Nodes -> Seq(Hashes \cup {Genesis})]
  /\ incarnation \in [Nodes -> 0 .. MaxRestarts]
  /\ accepted \subseteq Transaction
  /\ DOMAIN place \subseteq Hashes
  /\ first \in [DOMAIN place -> Transaction]
  /\ target \in Targets
  /\ script.stage \in {"post", "ask", "decrypt", "done"}
  /\ script.left \in 0 .. Count
  /\ Len(script.answers) <= Len(NodeOrder)
  /\ script.picked \subseteq Transaction
  /\ script.shown \in {"nothing", Failed} \cup Readings

ScriptsInit ==
  /\ Init
  /\ incarnation = [n \in Nodes |-> 0]
  /\ accepted = {}
  /\ first = [h \in {} |-> <<>>]
  /\ target \in Targets
  /\ script = [stage |-> "post", left |-> Count, answers |-> <<>>,
               picked |-> {}, shown |-> "nothing"]

-----------------------------------------------------------------------------
\* The key pair of the process of n that is running now.
PublicKey(n) == [node |-> n, incarnation |-> incarnation[n]]

\* new_transaction encrypts to the gateway's own key.
\* (Seeded fault: to the leader's.)
NewTransaction_KeyOfLeader(n, data) ==
  [gateway |-> n, payload |-> process_iot_data_encryption(data, PublicKey(Leader))]

NewTransaction(n, data) ==
  [gateway |-> n, payload |-> process_iot_data_encryption(data, PublicKey(n))]

\* One POST /transactions/new, answered or not: the submission may fail, or go
\* through after the script has given up.  (Seeded fault: one reading too many.)
Post_OnceMore ==
  /\ script.stage = "post"
  /\ script' = [script EXCEPT !.left = @ - 1]
  /\ accepted' = accepted \cup {NewTransaction(target, "reading of the script")} \/ UNCHANGED accepted
  /\ UNCHANGED <<network, target>>

Post ==
  /\ script.stage = "post"
  /\ script.left > 0
  /\ script' = [script EXCEPT !.left = @ - 1]
  /\ accepted' = accepted \cup {NewTransaction(target, "reading of the script")} \/ UNCHANGED accepted
  /\ UNCHANGED <<network, target>>

Posted ==
  /\ script.stage = "post"
  /\ script.left = 0
  /\ script' = [script EXCEPT !.stage = "ask"]
  /\ UNCHANGED <<network, accepted, target>>

Asked == Len(script.answers)
AskedAll == script.stage # "post" /\ Asked = Len(NodeOrder)

\* GET /chain of the next node: its ledger under the ledger's lock, or
\* UNREACHABLE.
Ask ==
  /\ script.stage = "ask"
  /\ ~AskedAll
  /\ \E answer \in {chain[NodeOrder[Asked + 1]], Unreachable} :
       script' = [script EXCEPT !.answers = Append(@, answer)]
  /\ UNCHANGED <<network, accepted, target>>

\* What verify_chains reports as ALL NODES AGREE: one tip in all answers.
\* (Seeded fault: it goes by the lengths.)
Answers == ToSet(script.answers) \ {Unreachable}

AllAgree_ByLength == AskedAll /\ Cardinality({Len(a) : a \in Answers}) = 1

AllAgree == AskedAll /\ Cardinality({Last(a) : a \in Answers}) = 1

\* demo_decrypt: the target's chain once more, for its first transaction.  There
\* may be none, test_client skips this if no POST was answered, and any request
\* of it may fail.
Pick ==
  /\ script.stage = "ask"
  /\ AskedAll
  /\ \/ /\ Len(chain[target]) > 1
        /\ script' = [script EXCEPT !.stage = "decrypt",
                                    !.picked = {first[chain[target][2]]}]
     \/ script' = [script EXCEPT !.stage = "done"]
  /\ UNCHANGED <<network, accepted, target>>

\* POST /decrypt, with the key pair of the process that is running.
Decrypt ==
  /\ script.stage = "decrypt"
  /\ \E shown \in {"nothing"} \cup
         {process_iot_data_decryption(tx.payload, PublicKey(target)) : tx \in script.picked} :
       script' = [script EXCEPT !.stage = "done", !.shown = shown]
  /\ UNCHANGED <<network, accepted, target>>

Run == Post \/ Posted \/ Ask \/ Pick \/ Decrypt

-----------------------------------------------------------------------------
\* Some other client posts to n.
PostElsewhere(n) ==
  /\ n \in Gateways
  /\ accepted' = accepted \cup {NewTransaction(n, "reading of another")}
  /\ UNCHANGED <<network, scriptVars>>

\* The network, as LeaderChain has it; a block's first transaction is one that
\* some gateway has accepted.
ProposeBlock(h) ==
  /\ Propose(h)
  /\ \E tx \in accepted :
       first' = [b \in DOMAIN place' |-> IF b = h THEN tx ELSE first[b]]
  /\ UNCHANGED <<incarnation, accepted, scriptVars>>

\* (Seeded fault: a block is appended on any parent at its height.)
AppendBlock_AnyParent(n, h) ==
  /\ h \in DOMAIN place /\ place[h].height = Len(chain[n])
  /\ chain' = [chain EXCEPT ![n] = Append(@, h)]
  /\ UNCHANGED <<place, incarnation, first, accepted, scriptVars>>

AppendBlock(n, h) ==
  /\ Extend(n, h)
  /\ UNCHANGED <<incarnation, first, accepted, scriptVars>>

\* The processes that have been replaced, all nodes together.
Replaced == {p \in Nodes \X (1 .. MaxRestarts) : p[2] <= incarnation[p[1]]}

\* A new process of n has a new key pair and an empty ledger.
Restart(n) ==
  /\ StartOver(n)
  /\ Cardinality(Replaced) < MaxRestarts
  /\ incarnation' = [incarnation EXCEPT ![n] = @ + 1]
  /\ UNCHANGED <<first, accepted, scriptVars>>

Others ==
  \/ \E n \in Nodes : PostElsewhere(n) \/ Restart(n)
  \/ \E h \in Hashes : ProposeBlock(h)
  \/ \E n \in Nodes, h \in Hashes : AppendBlock(n, h)

ScriptsNext == Run \/ Others

ScriptsSpec == ScriptsInit /\ [][ScriptsNext]_allVars

-----------------------------------------------------------------------------
(***************************************************************************)
(* ALL NODES AGREE can be believed, although the script compares the tips  *)
(* only (simulation.py:144, 152), reads them at different times, and forks *)
(* and restarts happen in between: the nodes that answered had exactly the *)
(* same ledger.                                                            *)
(***************************************************************************)
AgreeMeansOneHistory == AllAgree => \A a, b \in Answers : a = b

(***************************************************************************)
(* The demonstration can fail to decrypt what it finds for two reasons     *)
(* only: someone posted to another gateway than its target, or the target  *)
(* was started again (simulation.py:166-192, app.py:112, node.py:51).      *)
(* What it does show was posted to the target, by whichever client.        *)
(***************************************************************************)
RoundTrips ==
  /\ script.shown = Failed =>
       \/ \E tx \in accepted : tx.gateway # target
       \/ incarnation[target] > 0
  /\ script.shown \in Readings =>
       \E tx \in accepted : /\ tx.gateway = target
                            /\ process_iot_data_decryption(tx.payload, PublicKey(target))
                                 = script.shown \/ incarnation[target] > 0
=============================================================================
