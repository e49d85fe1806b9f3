-------------------------------- MODULE PBFT --------------------------------
(***************************************************************************)
(* The consensus engine of one validator (src/pbft.py): the thresholds,    *)
(* the per-block state PBFTState, the two buffers of early votes and the   *)
(* three handlers.  Every handler runs under the engine's lock, so it is   *)
(* one function from an engine to the engine it leaves behind, with a      *)
(* predicate for the value it returns.  The module has no variables: the   *)
(* modules that run engines (PBFTEngine for one, Node for a network of     *)
(* them) keep the engine in a variable of their own.                       *)
(*                                                                         *)
(* A definition marked as a seeded fault is used by no other: it is what   *)
(* the definition after it would be with a bug, and the properties are     *)
(* tried against it.                                                       *)
(***************************************************************************)
EXTENDS Config, Naturals, FiniteSets

(***************************************************************************)
(* Threshold arithmetic of PBFT.__init__.                                  *)
(***************************************************************************)
total_nodes == Cardinality(Nodes)
f == (total_nodes - 1) \div 3
prepare_threshold == 2 * f
commit_threshold_OneShort == 2 * f                         \* seeded fault
commit_threshold == 2 * f + 1

(***************************************************************************)
(* The dictionaries of the engine are total functions on Hashes.  A hash   *)
(* with no entry in self.states has the status "absent"; an entry is only  *)
(* ever created by handle_pre_prepare, which marks it pre_prepare_received *)
(* under the same lock, so that flag is exactly `status # "absent"'.  A    *)
(* hash without a buffer entry has the empty buffer.                       *)
(***************************************************************************)
Status == {"absent", "pending", "prepared", "committed"}

Engine ==
  [status         : [Hashes -> Status],
   prepare_votes  : [Hashes -> SUBSET Nodes],
   commit_votes   : [Hashes -> SUBSET Nodes],
   prepare_buffer : [Hashes -> SUBSET Nodes],
   commit_buffer  : [Hashes -> SUBSET Nodes]]

NewEngine ==
  [status         |-> [h \in Hashes |-> "absent"],
   prepare_votes  |-> [h \in Hashes |-> {}],
   commit_votes   |-> [h \in Hashes |-> {}],
   prepare_buffer |-> [h \in Hashes |-> {}],
   commit_buffer  |-> [h \in Hashes |-> {}]]

Known(e, h) == e.status[h] # "absent"

(***************************************************************************)
(* handle_pre_prepare: the first PRE-PREPARE of a block opens its state    *)
(* and replays the buffered votes into it; any later one is a duplicate.   *)
(* The replay itself checks no threshold.                                  *)
(***************************************************************************)
ShouldPrepare(e, h) == ~Known(e, h)

\* Seeded fault: the buffered COMMITs are popped and not replayed.
HandlePrePrepare_DropsCommits(e, h) ==
  IF ShouldPrepare(e, h)
  THEN [e EXCEPT !.status[h] = "pending",
                 !.prepare_votes[h] = @ \cup e.prepare_buffer[h],
                 !.prepare_buffer[h] = {},
                 !.commit_buffer[h] = {}]
  ELSE e

HandlePrePrepare(e, h) ==
  IF ShouldPrepare(e, h)
  THEN [e EXCEPT !.status[h] = "pending",
                 !.prepare_votes[h] = @ \cup e.prepare_buffer[h],
                 !.commit_votes[h] = @ \cup e.commit_buffer[h],
                 !.prepare_buffer[h] = {},
                 !.commit_buffer[h] = {}]
  ELSE e

(***************************************************************************)
(* handle_prepare: a vote for an unknown block is buffered; otherwise it   *)
(* is recorded, and the recording that finds the quorum complete while the *)
(* block is still pending makes it prepared and returns True.              *)
(***************************************************************************)
\* Seeded fault: the status is not tested.
ShouldCommit_Repeats(e, h, sender) ==
  /\ Known(e, h)
  /\ Cardinality(e.prepare_votes[h] \cup {sender}) >= prepare_threshold

ShouldCommit(e, h, sender) ==
  /\ e.status[h] = "pending"
  /\ Cardinality(e.prepare_votes[h] \cup {sender}) >= prepare_threshold

HandlePrepare(e, h, sender) ==
  IF ~Known(e, h)
  THEN [e EXCEPT !.prepare_buffer[h] = @ \cup {sender}]
  ELSE [e EXCEPT !.prepare_votes[h] = @ \cup {sender},
                 !.status[h] = IF ShouldCommit(e, h, sender)
                               THEN "prepared" ELSE @]

(***************************************************************************)
(* handle_commit: the same shape, one phase later.                         *)
(***************************************************************************)
\* Seeded fault: one vote too many is asked for.
ShouldAdd_Strict(e, h, sender) ==
  /\ e.status[h] = "prepared"
  /\ Cardinality(e.commit_votes[h] \cup {sender}) > commit_threshold

ShouldAdd(e, h, sender) ==
  /\ e.status[h] = "prepared"
  /\ Cardinality(e.commit_votes[h] \cup {sender}) >= commit_threshold

\* Seeded fault: a status no other handler knows.
HandleCommit_OtherStatus(e, h, sender) ==
  IF ~Known(e, h)
  THEN [e EXCEPT !.commit_buffer[h] = @ \cup {sender}]
  ELSE [e EXCEPT !.commit_votes[h] = @ \cup {sender},
                 !.status[h] = IF ShouldAdd(e, h, sender)
                               THEN "finalized" ELSE @]

HandleCommit(e, h, sender) ==
  IF ~Known(e, h)
  THEN [e EXCEPT !.commit_buffer[h] = @ \cup {sender}]
  ELSE [e EXCEPT !.commit_votes[h] = @ \cup {sender},
                 !.status[h] = IF ShouldAdd(e, h, sender)
                               THEN "committed" ELSE @]
=============================================================================
