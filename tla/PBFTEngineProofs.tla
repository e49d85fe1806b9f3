-------------------------- MODULE PBFTEngineProofs --------------------------
(***************************************************************************)
(* Proofs about one consensus engine, for any finite set of validators and *)
(* any set of blocks.                                                      *)
(***************************************************************************)
EXTENDS PBFTEngine, FiniteSetTheorems, TLAPS

(***************************************************************************)
(* The handlers of the engine keep its type.                               *)
(***************************************************************************)
LEMMA EngineTypes ==
  ASSUME NEW e \in Engine, NEW h \in Hashes, NEW s \in Nodes
  PROVE  /\ HandlePrePrepare(e, h) \in Engine
         /\ HandlePrepare(e, h, s) \in Engine
         /\ HandleCommit(e, h, s) \in Engine
<1>1. HandlePrePrepare(e, h) \in Engine
  BY ZenonT(40) DEF HandlePrePrepare, Engine, Status
<1>2. HandlePrepare(e, h, s) \in Engine
  <2>1. CASE ~Known(e, h)
    BY <2>1 DEF HandlePrepare, Engine
  <2>2. CASE Known(e, h)
    <3> DEFINE status == [e.status EXCEPT ![h] = IF ShouldCommit(e, h, s) THEN "prepared" ELSE @]
               votes == [e.prepare_votes EXCEPT ![h] = @ \cup {s}]
    <3>1. status \in [Hashes -> Status] /\ votes \in [Hashes -> SUBSET Nodes]
      BY DEF Engine, Status
    <3>2. HandlePrepare(e, h, s) = [e EXCEPT !.prepare_votes = votes, !.status = status]
      BY <2>2 DEF HandlePrepare
    <3> HIDE DEF status, votes
    <3>3. [e EXCEPT !.prepare_votes = votes, !.status = status] \in Engine
      BY <3>1 DEF Engine
    <3> QED
      BY <3>2, <3>3
  <2> QED
    BY <2>1, <2>2
<1>3. HandleCommit(e, h, s) \in Engine
  <2>1. CASE ~Known(e, h)
    BY <2>1 DEF HandleCommit, Engine
  <2>2. CASE Known(e, h)
    <3> DEFINE status == [e.status EXCEPT ![h] = IF ShouldAdd(e, h, s) THEN "committed" ELSE @]
               votes == [e.commit_votes EXCEPT ![h] = @ \cup {s}]
    <3>1. status \in [Hashes -> Status] /\ votes \in [Hashes -> SUBSET Nodes]
      BY DEF Engine, Status
    <3>2. HandleCommit(e, h, s) = [e EXCEPT !.commit_votes = votes, !.status = status]
      BY <2>2 DEF HandleCommit
    <3> HIDE DEF status, votes
    <3>3. [e EXCEPT !.commit_votes = votes, !.status = status] \in Engine
      BY <3>1 DEF Engine
    <3> QED
      BY <3>2, <3>3
  <2> QED
    BY <2>1, <2>2
<1> QED
  BY <1>1, <1>2, <1>3

LEMMA InitialEngine == NewEngine \in Engine
BY DEF NewEngine, Engine, Status

(***************************************************************************)
(* The variables keep their types (pbft.py:45-65).                         *)
(***************************************************************************)
THEOREM TypeCorrect == Spec => []TypeOK
<1>1. Init => TypeOK
  BY InitialEngine DEF Init, TypeOK, Handler
<1>2. TypeOK /\ [Next]_vars => TypeOK'
  <2> SUFFICES ASSUME TypeOK, [Next]_vars PROVE TypeOK'
    OBVIOUS
  <2> USE DEF TypeOK, OwnCall, OwnPrepare, OwnCommit, Acts, Handler
  <2>1. ASSUME NEW h \in Hashes, OnPrePrepare(h) PROVE TypeOK'
    BY <2>1, SelfAssumption, EngineTypes DEF OnPrePrepare
  <2>2. ASSUME NEW h \in Hashes, NEW s \in Nodes, NEW rest \in SUBSET OwnCall,
               OnPrepare(h, s, rest)
        PROVE  TypeOK'
    BY <2>2, EngineTypes DEF OnPrepare
  <2>3. ASSUME NEW h \in Hashes, NEW s \in Nodes, NEW rest \in SUBSET OwnCall,
               OnCommit(h, s, rest)
        PROVE  TypeOK'
    BY <2>3, EngineTypes DEF OnCommit
  <2>4. CASE UNCHANGED vars
    BY <2>4 DEF vars
  <2> QED
    BY <2>1, <2>2, <2>3, <2>4, SelfAssumption
    DEF Next, CastPrepare, CastCommit, PeerPrepare, PeerCommit
<1> QED
  BY <1>1, <1>2, PTL DEF Spec

-----------------------------------------------------------------------------
(***************************************************************************)
(* A handler has returned True exactly when it has moved the block on, and *)
(* a block never moves back.                                               *)
(***************************************************************************)
ActedIffMoved ==
  \A h \in Hashes :
    /\ acted["handle_pre_prepare"][h] = IF Known(engine, h) THEN 1 ELSE 0
    /\ acted["handle_prepare"][h] =
         IF engine.status[h] \in {"prepared", "committed"} THEN 1 ELSE 0
    /\ acted["handle_commit"][h] = IF engine.status[h] = "committed" THEN 1 ELSE 0

(***************************************************************************)
(* No handler returns True twice for a block (pbft.py:82, 121, 152).       *)
(***************************************************************************)
THEOREM HandlersActOnce == Spec => []ActsOnce
<1>1. Init => ActedIffMoved
  BY DEF Init, ActedIffMoved, NewEngine, Known, Handler
<1>2. TypeOK /\ ActedIffMoved /\ [Next]_vars => ActedIffMoved'
  <2> SUFFICES ASSUME TypeOK, ActedIffMoved, [Next]_vars PROVE ActedIffMoved'
    OBVIOUS
  <2> USE DEF TypeOK, Engine, Status, Known, Acts, Handler, ActedIffMoved
  <2>1. ASSUME NEW h \in Hashes, OnPrePrepare(h)
        PROVE  ActedIffMoved'
    <3>1. \A k \in Hashes :
            engine'.status[k] = IF k = h /\ ShouldPrepare(engine, h) THEN "pending"
                                ELSE engine.status[k]
      BY <2>1 DEF OnPrePrepare, HandlePrePrepare, ShouldPrepare
    <3>2. \A a \in Handler, k \in Hashes :
            acted'[a][k] = IF a = "handle_pre_prepare" /\ k = h /\ ShouldPrepare(engine, h)
                           THEN acted[a][k] + 1 ELSE acted[a][k]
      BY <2>1 DEF OnPrePrepare, HandlePrePrepare, ShouldPrepare
    <3> QED
      BY <3>1, <3>2 DEF ShouldPrepare
  <2>2. ASSUME NEW h \in Hashes, NEW s \in Nodes, NEW rest, OnPrepare(h, s, rest)
        PROVE  ActedIffMoved'
    <3>1. \A k \in Hashes :
            engine'.status[k] = IF k = h /\ ShouldCommit(engine, h, s) THEN "prepared"
                                ELSE engine.status[k]
      BY <2>2 DEF OnPrepare, HandlePrepare, ShouldCommit
    <3>2. \A a \in Handler, k \in Hashes :
            acted'[a][k] = IF a = "handle_prepare" /\ k = h /\ ShouldCommit(engine, h, s)
                           THEN acted[a][k] + 1 ELSE acted[a][k]
      BY <2>2 DEF OnPrepare, HandlePrepare, ShouldCommit
    <3>3. ShouldCommit(engine, h, s) => engine.status[h] = "pending"
      BY DEF ShouldCommit
    <3> QED
      BY <3>1, <3>2, <3>3
  <2>3. ASSUME NEW h \in Hashes, NEW s \in Nodes, NEW rest, OnCommit(h, s, rest)
        PROVE  ActedIffMoved'
    <3>1. \A k \in Hashes :
            engine'.status[k] = IF k = h /\ ShouldAdd(engine, h, s) THEN "committed"
                                ELSE engine.status[k]
      BY <2>3 DEF OnCommit, HandleCommit, ShouldAdd
    <3>2. \A a \in Handler, k \in Hashes :
            acted'[a][k] = IF a = "handle_commit" /\ k = h /\ ShouldAdd(engine, h, s)
                           THEN acted[a][k] + 1 ELSE acted[a][k]
      BY <2>3 DEF OnCommit, HandleCommit, ShouldAdd
    <3>3. ShouldAdd(engine, h, s) => engine.status[h] = "prepared"
      BY DEF ShouldAdd
    <3> QED
      BY <3>1, <3>2, <3>3
  <2>4. CASE UNCHANGED vars
    BY <2>4 DEF vars
  <2> QED
    BY <2>1, <2>2, <2>3, <2>4, SelfAssumption
    DEF Next, CastPrepare, CastCommit, PeerPrepare, PeerCommit
<1>3. ActedIffMoved => ActsOnce
  BY DEF ActedIffMoved, ActsOnce, Handler
<1> QED
  BY <1>1, <1>2, <1>3, TypeCorrect, PTL DEF Spec

-----------------------------------------------------------------------------
(***************************************************************************)
(* A quorum stays a quorum when votes are added.                           *)
(***************************************************************************)
LEMMA QuorumsGrow ==
  ASSUME NEW S \in SUBSET Nodes, NEW s \in Nodes, NEW k \in Int,
         Cardinality(S) >= k
  PROVE  Cardinality(S \cup {s}) >= k
<1>1. IsFiniteSet(S) /\ IsFiniteSet(S \cup {s})
  BY NodesAssumption, FS_Subset
<1>2. Cardinality(S) \in Nat /\ Cardinality(S \cup {s}) \in Nat
  BY <1>1, FS_CardinalityType
<1>3. Cardinality(S) <= Cardinality(S \cup {s})
  BY <1>1, FS_Subset
<1> QED
  BY <1>2, <1>3

LEMMA Thresholds == prepare_threshold \in Int /\ commit_threshold \in Int
<1>1. total_nodes \in Nat
  BY NodesAssumption, FS_CardinalityType DEF total_nodes
<1>2. f \in Int
  BY <1>1 DEF f
<1> QED
  BY <1>2 DEF prepare_threshold, commit_threshold

(***************************************************************************)
(* What the handlers leave true of a block, whatever threads are about to  *)
(* cast: its votes are out of the buffers once it is known, and its status *)
(* lags behind a complete quorum only while the node's own vote, which     *)
(* will notice it, is still to come.                                       *)
(***************************************************************************)
Counted(h) ==
  /\ Known(engine, h) =>
       engine.prepare_buffer[h] = {} /\ engine.commit_buffer[h] = {}
  /\ engine.status[h] = "pending" /\ OwnPrepare(h) \notin calls =>
       ~ (Cardinality(engine.prepare_votes[h]) >= prepare_threshold)
  /\ engine.status[h] \in {"prepared", "committed"} =>
       Cardinality(engine.prepare_votes[h]) >= prepare_threshold
  /\ engine.status[h] = "prepared" /\ OwnCommit(h) \notin calls =>
       ~ (Cardinality(engine.commit_votes[h]) >= commit_threshold)
  /\ engine.status[h] = "committed" =>
       Cardinality(engine.commit_votes[h]) >= commit_threshold

AllCounted == \A h \in Hashes : Counted(h)

\* What a step leaves alone of a block.
SameBlock(k) ==
  /\ engine'.status[k] = engine.status[k]
  /\ engine'.prepare_votes[k] = engine.prepare_votes[k]
  /\ engine'.commit_votes[k] = engine.commit_votes[k]
  /\ engine'.prepare_buffer[k] = engine.prepare_buffer[k]
  /\ engine'.commit_buffer[k] = engine.commit_buffer[k]
  /\ OwnPrepare(k) \in calls' <=> OwnPrepare(k) \in calls
  /\ OwnCommit(k) \in calls' <=> OwnCommit(k) \in calls

LEMMA SameBlockCounted ==
  ASSUME NEW k \in Hashes, Counted(k), SameBlock(k)
  PROVE  Counted(k)'
BY DEF Counted, SameBlock, Known

LEMMA PrePrepareCounted ==
  ASSUME TypeOK, AllCounted, NEW h \in Hashes, OnPrePrepare(h)
  PROVE  AllCounted'
<1> SUFFICES ASSUME NEW k \in Hashes PROVE Counted(k)'
  BY DEF AllCounted
<1> USE DEF TypeOK, Engine, OnPrePrepare, HandlePrePrepare, ShouldPrepare,
            OwnPrepare, OwnCommit
<1>1. CASE k # h
  BY <1>1, SameBlockCounted DEF SameBlock, AllCounted
<1>2. CASE k = h /\ Known(engine, h)
  BY <1>2, SameBlockCounted DEF SameBlock, AllCounted
<1>3. CASE k = h /\ ~Known(engine, h)
  <2>1. /\ engine'.status[h] = "pending"
        /\ engine'.prepare_buffer[h] = {}
        /\ engine'.commit_buffer[h] = {}
        /\ OwnPrepare(h) \in calls'
    BY <1>3
  <2> QED
    BY <1>3, <2>1 DEF Counted
<1> QED
  BY <1>1, <1>2, <1>3

LEMMA PrepareCounted ==
  ASSUME TypeOK, AllCounted, NEW h \in Hashes, NEW s \in Nodes,
         NEW rest \in {calls, calls \ {OwnPrepare(h)}}, OnPrepare(h, s, rest)
  PROVE  AllCounted'
<1> SUFFICES ASSUME NEW k \in Hashes PROVE Counted(k)'
  BY DEF AllCounted
<1> USE DEF TypeOK, Engine, OnPrepare, HandlePrepare
<1>1. CASE k # h
  BY <1>1, SameBlockCounted DEF SameBlock, AllCounted, OwnPrepare, OwnCommit
<1>2. CASE k = h /\ ~Known(engine, h)
  <2>1. /\ engine'.status[h] = engine.status[h]
        /\ ~Known(engine', h)
    BY <1>2 DEF Known
  <2> QED
    BY <1>2, <2>1 DEF Counted, Known
<1>3. CASE k = h /\ Known(engine, h)
  <2>1. /\ engine'.status[h] = IF ShouldCommit(engine, h, s) THEN "prepared"
                               ELSE engine.status[h]
        /\ engine'.prepare_votes[h] = engine.prepare_votes[h] \cup {s}
        /\ engine'.commit_votes[h] = engine.commit_votes[h]
        /\ engine'.prepare_buffer[h] = engine.prepare_buffer[h]
        /\ engine'.commit_buffer[h] = engine.commit_buffer[h]
    BY <1>3
  <2>2. /\ ShouldCommit(engine, h, s) => OwnCommit(h) \in calls'
        /\ OwnCommit(h) \in calls => OwnCommit(h) \in calls'
    BY <1>3 DEF OwnPrepare, OwnCommit
  <2>3. Cardinality(engine.prepare_votes[h]) >= prepare_threshold =>
          Cardinality(engine'.prepare_votes[h]) >= prepare_threshold
    BY <2>1, QuorumsGrow, Thresholds
  <2>4. Counted(h)
    BY DEF AllCounted
  <2> HIDE DEF TypeOK, Engine, OnPrepare, HandlePrepare
  <2> QED
    BY <1>3, <2>1, <2>2, <2>3, <2>4 DEF Counted, Known, ShouldCommit
<1> QED
  BY <1>1, <1>2, <1>3

LEMMA CommitCounted ==
  ASSUME TypeOK, AllCounted, NEW h \in Hashes, NEW s \in Nodes,
         NEW rest \in {calls, calls \ {OwnCommit(h)}}, OnCommit(h, s, rest)
  PROVE  AllCounted'
<1> SUFFICES ASSUME NEW k \in Hashes PROVE Counted(k)'
  BY DEF AllCounted
<1> USE DEF TypeOK, Engine, OnCommit, HandleCommit
<1>1. CASE k # h
  BY <1>1, SameBlockCounted DEF SameBlock, AllCounted, OwnPrepare, OwnCommit
<1>2. CASE k = h /\ ~Known(engine, h)
  <2>1. /\ engine'.status[h] = engine.status[h]
        /\ ~Known(engine', h)
    BY <1>2 DEF Known
  <2> QED
    BY <1>2, <2>1 DEF Counted, Known
<1>3. CASE k = h /\ Known(engine, h)
  <2>1. /\ engine'.status[h] = IF ShouldAdd(engine, h, s) THEN "committed"
                               ELSE engine.status[h]
        /\ engine'.commit_votes[h] = engine.commit_votes[h] \cup {s}
        /\ engine'.prepare_votes[h] = engine.prepare_votes[h]
        /\ engine'.prepare_buffer[h] = engine.prepare_buffer[h]
        /\ engine'.commit_buffer[h] = engine.commit_buffer[h]
    BY <1>3
  <2>2. OwnPrepare(h) \in calls => OwnPrepare(h) \in calls'
    BY <1>3 DEF OwnPrepare, OwnCommit
  <2>3. Cardinality(engine.commit_votes[h]) >= commit_threshold =>
          Cardinality(engine'.commit_votes[h]) >= commit_threshold
    BY <2>1, QuorumsGrow, Thresholds
  <2>4. Counted(h)
    BY DEF AllCounted
  <2> HIDE DEF TypeOK, Engine, OnCommit, HandleCommit
  <2> QED
    BY <1>3, <2>1, <2>2, <2>3, <2>4 DEF Counted, Known, ShouldAdd
<1> QED
  BY <1>1, <1>2, <1>3

(***************************************************************************)
(* The status of a block is what its votes make it, in any order           *)
(* (pbft.py:91-99, 111-130, 142-161).                                      *)
(***************************************************************************)
THEOREM StatusIsByVotes == Spec => []StatusFollowsVotes
<1>1. Init => AllCounted
  BY DEF Init, AllCounted, Counted, NewEngine, Known
<1>2. TypeOK /\ AllCounted /\ [Next]_vars => AllCounted'
  <2> SUFFICES ASSUME TypeOK, AllCounted, [Next]_vars PROVE AllCounted'
    OBVIOUS
  <2>1. ASSUME NEW h \in Hashes, OnPrePrepare(h) PROVE AllCounted'
    BY <2>1, PrePrepareCounted
  <2>2. ASSUME NEW h \in Hashes, CastPrepare(h) PROVE AllCounted'
    BY <2>2, PrepareCounted, SelfAssumption DEF CastPrepare
  <2>3. ASSUME NEW h \in Hashes, CastCommit(h) PROVE AllCounted'
    BY <2>3, CommitCounted, SelfAssumption DEF CastCommit
  <2>4. ASSUME NEW h \in Hashes, NEW s \in Nodes, PeerPrepare(h, s)
        PROVE  AllCounted'
    BY <2>4, PrepareCounted DEF PeerPrepare
  <2>5. ASSUME NEW h \in Hashes, NEW s \in Nodes, PeerCommit(h, s)
        PROVE  AllCounted'
    BY <2>5, CommitCounted DEF PeerCommit
  <2>6. CASE UNCHANGED vars
    BY <2>6 DEF vars, AllCounted, Counted, Known
  <2> QED
    BY <2>1, <2>2, <2>3, <2>4, <2>5, <2>6 DEF Next
<1>3. TypeOK /\ AllCounted => StatusFollowsVotes
  <2> SUFFICES ASSUME TypeOK, AllCounted, NEW h \in Hashes,
                      {OwnPrepare(h), OwnCommit(h)} \cap calls = {}
               PROVE  engine.status[h] =
                        CASE ~Known(engine, h) -> "absent"
                          [] Known(engine, h) /\ Cardinality(PrepareHeard(h)) < prepare_threshold
                               -> "pending"
                          [] Known(engine, h) /\ Cardinality(PrepareHeard(h)) >= prepare_threshold
                               /\ Cardinality(CommitHeard(h)) < commit_threshold -> "prepared"
                          [] OTHER -> "committed"
    BY DEF StatusFollowsVotes
  <2>1. Counted(h)
    BY DEF AllCounted
  <2>2. /\ engine.status[h] \in Status
        /\ engine.prepare_votes[h] \in SUBSET Nodes
        /\ engine.commit_votes[h] \in SUBSET Nodes
    BY DEF TypeOK, Engine
  <2>3. /\ Cardinality(engine.prepare_votes[h]) \in Nat
        /\ Cardinality(engine.commit_votes[h]) \in Nat
    BY <2>2, NodesAssumption, FS_Subset, FS_CardinalityType
  <2>4. Known(engine, h) =>
          /\ PrepareHeard(h) = engine.prepare_votes[h]
          /\ CommitHeard(h) = engine.commit_votes[h]
    BY <2>1 DEF Counted, PrepareHeard, CommitHeard
  <2>5. OwnPrepare(h) \notin calls /\ OwnCommit(h) \notin calls
    OBVIOUS
  <2>6. CASE engine.status[h] = "absent"
    BY <2>6 DEF Known
  <2>7. CASE engine.status[h] = "pending"
    BY <2>1, <2>3, <2>4, <2>5, <2>7, Thresholds DEF Known, Counted
  <2>8. CASE engine.status[h] = "prepared"
    BY <2>1, <2>3, <2>4, <2>5, <2>8, Thresholds DEF Known, Counted
  <2>9. CASE engine.status[h] = "committed"
    BY <2>1, <2>3, <2>4, <2>5, <2>9, Thresholds DEF Known, Counted
  <2> QED
    BY <2>2, <2>6, <2>7, <2>8, <2>9 DEF Status
<1> QED
  BY <1>1, <1>2, <1>3, TypeCorrect, PTL DEF Spec

-----------------------------------------------------------------------------
(***************************************************************************)
(* A vote is in the buffer until its block is known, and among the votes   *)
(* from then on.                                                           *)
(***************************************************************************)
EmptyUntilKnown ==
  \A h \in Hashes :
    ~Known(engine, h) => engine.prepare_votes[h] = {} /\ engine.commit_votes[h] = {}

LEMMA VotesWaitInBuffer == Spec => [](TypeOK /\ AllCounted /\ EmptyUntilKnown)
<1>1. Init => AllCounted /\ EmptyUntilKnown
  BY DEF Init, AllCounted, Counted, EmptyUntilKnown, NewEngine, Known
<1>2. TypeOK /\ AllCounted /\ EmptyUntilKnown /\ [Next]_vars
        => AllCounted' /\ EmptyUntilKnown'
  <2> SUFFICES ASSUME TypeOK, AllCounted, EmptyUntilKnown, [Next]_vars
               PROVE  AllCounted' /\ EmptyUntilKnown'
    OBVIOUS
  <2> USE DEF TypeOK, Engine, EmptyUntilKnown, Known
  <2>1. ASSUME NEW h \in Hashes, OnPrePrepare(h)
        PROVE  AllCounted' /\ EmptyUntilKnown'
    <3>1. EmptyUntilKnown'
      BY <2>1 DEF OnPrePrepare, HandlePrePrepare, ShouldPrepare
    <3> QED
      BY <2>1, <3>1, PrePrepareCounted
  <2>2. ASSUME NEW h \in Hashes, NEW s \in Nodes,
               NEW rest \in {calls, calls \ {OwnPrepare(h)}}, OnPrepare(h, s, rest)
        PROVE  AllCounted' /\ EmptyUntilKnown'
    <3>1. \A k \in Hashes : ~Known(engine', k) => ~Known(engine, k)
      BY <2>2 DEF OnPrepare, HandlePrepare
    <3>2. \A k \in Hashes : ~Known(engine, k) =>
            /\ engine'.prepare_votes[k] = engine.prepare_votes[k]
            /\ engine'.commit_votes[k] = engine.commit_votes[k]
      <4>1. engine' = HandlePrepare(engine, h, s)
        BY <2>2 DEF OnPrepare
      <4>2. CASE Known(engine, h)
        BY <4>1, <4>2, SMTT(20) DEF HandlePrepare
      <4>3. CASE ~Known(engine, h)
        BY <4>1, <4>3 DEF HandlePrepare
      <4> QED
        BY <4>2, <4>3
    <3>3. EmptyUntilKnown'
      <4> SUFFICES ASSUME NEW k \in Hashes, ~Known(engine', k)
                   PROVE  engine'.prepare_votes[k] = {} /\ engine'.commit_votes[k] = {}
        BY DEF Known
      <4> HIDE DEF TypeOK, Engine, Known
      <4> QED
        BY <3>1, <3>2, ZenonT(40)
    <3>4. AllCounted'
      BY <2>2, PrepareCounted
    <3> QED
      BY <3>3, <3>4
  <2>3. ASSUME NEW h \in Hashes, NEW s \in Nodes,
               NEW rest \in {calls, calls \ {OwnCommit(h)}}, OnCommit(h, s, rest)
        PROVE  AllCounted' /\ EmptyUntilKnown'
    <3>1. \A k \in Hashes : ~Known(engine', k) => ~Known(engine, k)
      BY <2>3 DEF OnCommit, HandleCommit
    <3>2. \A k \in Hashes : ~Known(engine, k) =>
            /\ engine'.prepare_votes[k] = engine.prepare_votes[k]
            /\ engine'.commit_votes[k] = engine.commit_votes[k]
      <4>1. engine' = HandleCommit(engine, h, s)
        BY <2>3 DEF OnCommit
      <4>2. CASE Known(engine, h)
        BY <4>1, <4>2, SMTT(20) DEF HandleCommit
      <4>3. CASE ~Known(engine, h)
        BY <4>1, <4>3 DEF HandleCommit
      <4> QED
        BY <4>2, <4>3
    <3>3. EmptyUntilKnown'
      <4> SUFFICES ASSUME NEW k \in Hashes, ~Known(engine', k)
                   PROVE  engine'.prepare_votes[k] = {} /\ engine'.commit_votes[k] = {}
        BY DEF Known
      <4> HIDE DEF TypeOK, Engine, Known
      <4> QED
        BY <3>1, <3>2, ZenonT(40)
    <3>4. AllCounted'
      BY <2>3, CommitCounted
    <3> QED
      BY <3>3, <3>4
  <2>4. CASE UNCHANGED vars
    BY <2>4 DEF vars, AllCounted, Counted
  <2> QED
    BY <2>1, <2>2, <2>3, <2>4, SelfAssumption
    DEF Next, CastPrepare, CastCommit, PeerPrepare, PeerCommit
<1> QED
  BY <1>1, <1>2, TypeCorrect, PTL DEF Spec

(***************************************************************************)
(* Each handler is a step of the order-insensitive counter.                *)
(***************************************************************************)
LEMMA PrePrepareIsAccept ==
  ASSUME TypeOK, AllCounted, EmptyUntilKnown, NEW h \in Hashes, OnPrePrepare(h)
  PROVE  Votes!Accept(h) \/ UNCHANGED Votes!vars
<1> USE DEF TypeOK, Engine, OnPrePrepare, HandlePrePrepare, ShouldPrepare
<1>1. CASE Known(engine, h)
  BY <1>1 DEF Votes!vars, PrepareHeard, CommitHeard
<1>2. CASE ~Known(engine, h)
  <2>1. \A k \in Hashes :
          /\ engine'.prepare_votes[k] \cup engine'.prepare_buffer[k]
               = engine.prepare_votes[k] \cup engine.prepare_buffer[k]
          /\ engine'.commit_votes[k] \cup engine'.commit_buffer[k]
               = engine.commit_votes[k] \cup engine.commit_buffer[k]
    BY <1>2
  <2>2. engine'.status = [engine.status EXCEPT ![h] = "pending"]
    BY <1>2
  <2> QED
    BY <1>2, <2>1, <2>2 DEF Votes!Accept, PrepareHeard, CommitHeard, Known
<1> QED
  BY <1>1, <1>2

LEMMA PrepareIsHeard ==
  ASSUME TypeOK, AllCounted, EmptyUntilKnown, NEW h \in Hashes, NEW s \in Nodes,
         NEW rest, OnPrepare(h, s, rest)
  PROVE  Votes!HearPrepare(h, s)
<1> USE DEF TypeOK, Engine, OnPrepare, HandlePrepare
<1>1. \A k \in Hashes :
        /\ engine'.prepare_votes[k] \cup engine'.prepare_buffer[k]
             = engine.prepare_votes[k] \cup engine.prepare_buffer[k]
               \cup (IF k = h THEN {s} ELSE {})
        /\ engine'.commit_votes[k] = engine.commit_votes[k]
        /\ engine'.commit_buffer[k] = engine.commit_buffer[k]
  OBVIOUS
<1>2. Known(engine, h) => PrepareHeard(h) = engine.prepare_votes[h]
  BY DEF AllCounted, Counted, PrepareHeard
<1>3. engine'.status = [engine.status EXCEPT
         ![h] = IF engine.status[h] = "pending"
                     /\ PrepareHeard(h) \cup {s}
                          \in {Q \in SUBSET Nodes : Cardinality(Q) >= prepare_threshold}
                THEN "prepared" ELSE engine.status[h]]
  <2>1. engine'.status = [engine.status EXCEPT
           ![h] = IF Known(engine, h) /\ ShouldCommit(engine, h, s)
                  THEN "prepared" ELSE engine.status[h]]
    OBVIOUS
  <2>2. Known(engine, h) /\ ShouldCommit(engine, h, s)
          <=> /\ engine.status[h] = "pending"
              /\ PrepareHeard(h) \cup {s}
                   \in {Q \in SUBSET Nodes : Cardinality(Q) >= prepare_threshold}
    BY <1>2 DEF ShouldCommit, Known, PrepareHeard
  <2> HIDE DEF TypeOK, Engine
  <2> QED
    BY <2>1, <2>2
<1>4. \A k \in Hashes :
        /\ PrepareHeard(k)' = PrepareHeard(k) \cup (IF k = h THEN {s} ELSE {})
        /\ CommitHeard(k)' = CommitHeard(k)
  BY <1>1 DEF PrepareHeard, CommitHeard
<1> HIDE DEF TypeOK, Engine, OnPrepare, HandlePrepare
<1>5. [k \in Hashes |-> PrepareHeard(k)]'
         = [[k \in Hashes |-> PrepareHeard(k)] EXCEPT
              ![h] = [k \in Hashes |-> PrepareHeard(k)][h] \cup {s}]
  BY <1>4
<1>6. UNCHANGED [k \in Hashes |-> CommitHeard(k)]
  BY <1>4
<1>7. [k \in Hashes |-> PrepareHeard(k)][h] = PrepareHeard(h)
  OBVIOUS
<1> QED
  BY <1>3, <1>5, <1>6, <1>7 DEF Votes!HearPrepare

LEMMA CommitIsHeard ==
  ASSUME TypeOK, AllCounted, EmptyUntilKnown, NEW h \in Hashes, NEW s \in Nodes,
         NEW rest, OnCommit(h, s, rest)
  PROVE  Votes!HearCommit(h, s)
<1> USE DEF TypeOK, Engine, OnCommit, HandleCommit
<1>1. \A k \in Hashes :
        /\ engine'.commit_votes[k] \cup engine'.commit_buffer[k]
             = engine.commit_votes[k] \cup engine.commit_buffer[k]
               \cup (IF k = h THEN {s} ELSE {})
        /\ engine'.prepare_votes[k] = engine.prepare_votes[k]
        /\ engine'.prepare_buffer[k] = engine.prepare_buffer[k]
  OBVIOUS
<1>2. Known(engine, h) => CommitHeard(h) = engine.commit_votes[h]
  BY DEF AllCounted, Counted, CommitHeard
<1>3. engine'.status = [engine.status EXCEPT
         ![h] = IF engine.status[h] = "prepared"
                     /\ CommitHeard(h) \cup {s}
                          \in {Q \in SUBSET Nodes : Cardinality(Q) >= commit_threshold}
                THEN "committed" ELSE engine.status[h]]
  <2>1. engine'.status = [engine.status EXCEPT
           ![h] = IF Known(engine, h) /\ ShouldAdd(engine, h, s)
                  THEN "committed" ELSE engine.status[h]]
    OBVIOUS
  <2>2. Known(engine, h) /\ ShouldAdd(engine, h, s)
          <=> /\ engine.status[h] = "prepared"
              /\ CommitHeard(h) \cup {s}
                   \in {Q \in SUBSET Nodes : Cardinality(Q) >= commit_threshold}
    BY <1>2 DEF ShouldAdd, Known, CommitHeard
  <2> HIDE DEF TypeOK, Engine
  <2> QED
    BY <2>1, <2>2
<1>4. \A k \in Hashes :
        /\ CommitHeard(k)' = CommitHeard(k) \cup (IF k = h THEN {s} ELSE {})
        /\ PrepareHeard(k)' = PrepareHeard(k)
  BY <1>1 DEF PrepareHeard, CommitHeard
<1> HIDE DEF TypeOK, Engine, OnCommit, HandleCommit
<1>5. [k \in Hashes |-> CommitHeard(k)]'
         = [[k \in Hashes |-> CommitHeard(k)] EXCEPT
              ![h] = [k \in Hashes |-> CommitHeard(k)][h] \cup {s}]
  BY <1>4
<1>6. UNCHANGED [k \in Hashes |-> PrepareHeard(k)]
  BY <1>4
<1>7. [k \in Hashes |-> CommitHeard(k)][h] = CommitHeard(h)
  OBVIOUS
<1> QED
  BY <1>3, <1>5, <1>6, <1>7 DEF Votes!HearCommit

(***************************************************************************)
(* The engine implements VoteCounter: buffering and replaying votes cannot *)
(* be told from having heard the proposal first (pbft.py:91-97).           *)
(***************************************************************************)
THEOREM EngineCountsEveryVote == Spec => CountsEveryVote
<1>1. Init => Votes!Init
  BY DEF Init, Votes!Init, NewEngine, PrepareHeard, CommitHeard
<1>2. TypeOK /\ AllCounted /\ EmptyUntilKnown /\ [Next]_vars
        => [Votes!Next]_(Votes!vars)
  <2> SUFFICES ASSUME TypeOK, AllCounted, EmptyUntilKnown, [Next]_vars
               PROVE  Votes!Next \/ UNCHANGED Votes!vars
    OBVIOUS
  <2>1. ASSUME NEW h \in Hashes, OnPrePrepare(h)
        PROVE  Votes!Next \/ UNCHANGED Votes!vars
    BY <2>1, PrePrepareIsAccept DEF Votes!Next
  <2>2. ASSUME NEW h \in Hashes, NEW s \in Nodes, NEW rest, OnPrepare(h, s, rest)
        PROVE  Votes!Next
    BY <2>2, PrepareIsHeard DEF Votes!Next
  <2>3. ASSUME NEW h \in Hashes, NEW s \in Nodes, NEW rest, OnCommit(h, s, rest)
        PROVE  Votes!Next
    BY <2>3, CommitIsHeard DEF Votes!Next
  <2>4. CASE UNCHANGED vars
    BY <2>4 DEF vars, Votes!vars, PrepareHeard, CommitHeard
  <2> QED
    BY <2>1, <2>2, <2>3, <2>4, SelfAssumption
    DEF Next, CastPrepare, CastCommit, PeerPrepare, PeerCommit
<1> QED
  BY <1>1, <1>2, VotesWaitInBuffer, PTL DEF Spec, CountsEveryVote, Votes!Spec
=============================================================================
