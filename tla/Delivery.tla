------------------------------ MODULE Delivery ------------------------------
(***************************************************************************)
(* What a broadcast promises each peer: the message is handled once, or    *)
(* lost.  Module Node takes this for granted.                              *)
(***************************************************************************)
EXTENDS Naturals

CONSTANT Peers

VARIABLES
  waiting,    \* peers whose message is neither handled nor lost
  times       \* times[p]: how often p has handled the message

vars == <<waiting, times>>

Init ==
  /\ waiting = Peers
  /\ times = [p \in Peers |-> 0]

Handle(p) ==
  /\ p \in waiting
  /\ waiting' = waiting \ {p}
  /\ times' = [times EXCEPT ![p] = @ + 1]

Lose(p) ==
  /\ p \in waiting
  /\ waiting' = waiting \ {p}
  /\ UNCHANGED times

Next == \E p \in Peers : Handle(p) \/ Lose(p)

Spec == Init /\ [][Next]_vars
=============================================================================
