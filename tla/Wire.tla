-------------------------------- MODULE Wire --------------------------------
(***************************************************************************)
(* Transactions and blocks as objects of blockchain.py and as the          *)
(* dictionaries that travel, which have the same fields.  A constructor    *)
(* takes the time of day and hashes what it was given; from_dict calls it  *)
(* and then puts the fields that the sender computed in place of the new   *)
(* ones.  SHA-256 is a free constructor here: a hash is what went into it. *)
(***************************************************************************)
EXTENDS Merkle

NewTransaction(data, now) ==
  [data |-> data, timestamp |-> now, tx_id |-> <<data, now>>]

TransactionFromDict(dict, now) ==
  [NewTransaction(dict.data, now) EXCEPT !.timestamp = dict.timestamp,
                                         !.tx_id = dict.tx_id]

RootOf(transactions) ==
  compute_merkle_root([i \in DOMAIN transactions |-> transactions[i].tx_id])

calculate_hash(block) ==
  <<block.index, block.previous_hash, block.merkle_root, block.timestamp, block.nonce>>

NewBlock(index, previous_hash, transactions, nonce, now) ==
  LET root == RootOf(transactions)
  IN  [index |-> index, previous_hash |-> previous_hash,
       transactions |-> transactions, nonce |-> nonce, timestamp |-> now,
       merkle_root |-> root,
       hash |-> <<index, previous_hash, root, now, nonce>>]

\* The call of the constructor in Block.from_dict.
Rebuilt(dict, now) ==
  NewBlock(dict.index, dict.previous_hash,
           [i \in DOMAIN dict.transactions |->
              TransactionFromDict(dict.transactions[i], now)],
           dict.nonce, now)

\* (Seeded fault: the copy keeps the time at which it was made.)
BlockFromDict_OwnTime(dict, now) ==
  [Rebuilt(dict, now) EXCEPT !.merkle_root = dict.merkle_root, !.hash = dict.hash]

BlockFromDict(dict, now) ==
  [Rebuilt(dict, now) EXCEPT !.timestamp = dict.timestamp,
                             !.merkle_root = dict.merkle_root,
                             !.hash = dict.hash]
=============================================================================
