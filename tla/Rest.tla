-------------------------------- MODULE Rest --------------------------------
(***************************************************************************)
(* The reading endpoints of app.py, on the running network.  An answer is  *)
(* put together from several reads of the node's ledger and engine, each   *)
(* under a lock of its own or under none, and the node's other threads run *)
(* between them.  (/chain and /pending copy under one lock and are single  *)
(* reads of the state; the other pages are constant.)                      *)
(***************************************************************************)
EXTENDS NodeProperties

CONSTANT Asked    \* nodes that clients ask; they run all the time

ASSUME RestAssumption == Asked \subseteq Nodes \ (Down \cup MayCrash)

VARIABLE request    \* the request that is being served: for whom, what was read

restVars == <<vars, request>>

\* The reads that an endpoint makes, in the order in which it makes them.
\* (Seeded fault: the engine is asked before the ledger.)
Reads_EngineFirst ==
  [status   |-> <<"rounds", "pooled", "valid", "length">>,
   validate |-> <<"valid", "length">>]

Reads ==
  [status   |-> <<"length", "pooled", "valid", "rounds">>,
   validate |-> <<"valid", "length">>]

NoRequest == [made |-> 0]

\* get_chain_length, len of the pool (with no lock), validate_chain, get_status
Value(field, n) ==
  CASE field = "length" -> Len(chain[n])
    [] field = "pooled" -> Len(pending[n])
    [] field = "valid"  -> validate_chain(n)
    [] field = "rounds" -> Cardinality({h \in Hashes : Committed(n, h)})

Answered ==
  request # NoRequest /\ request.made = Len(Reads[request.endpoint])

Got(r) ==
  LET field == Reads[r.endpoint][r.made + 1]
  IN  [r EXCEPT ![field] = Value(field, r.node), !.made = @ + 1]

\* A request arrives and the first read is made; the last answer is forgotten.
Get(n, endpoint) ==
  /\ request = NoRequest \/ Answered
  /\ request' = Got([node |-> n, endpoint |-> endpoint, made |-> 0,
                     length |-> 0, pooled |-> 0, valid |-> TRUE, rounds |-> 0])
  /\ UNCHANGED vars

Read ==
  /\ request # NoRequest /\ ~Answered
  /\ request' = Got(request)
  /\ UNCHANGED vars

Serve == (\E n \in Asked, e \in DOMAIN Reads : Get(n, e)) \/ Read

RestInit == Init /\ request = NoRequest

RestNext == Serve \/ (Next /\ UNCHANGED request)

RestSpec ==
  /\ RestInit /\ [][RestNext]_restVars
  /\ \A n \in Nodes : WF_vars(Run(n) /\ UNCHANGED request)

-----------------------------------------------------------------------------
(***************************************************************************)
(* An answer of /status mixes four moments and still adds up (app.py:204): *)
(* it has a committed round for every block it counts, and the leader      *)
(* never counts a transaction both as pending and as in a block.  It holds *)
(* because the ledger's length is read first.                              *)
(***************************************************************************)
StatusAddsUp ==
  Answered /\ request.endpoint = "status" =>
    LET n == request.node
        counted == UNION {TxsOf(chain[n][i]) : i \in 1 .. request.length}
    IN  /\ request.rounds >= request.length - 1
        /\ n = LEADER_NODE => request.pooled + Cardinality(counted) <= Cardinality(seen[n])
=============================================================================
