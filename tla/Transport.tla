------------------------------ MODULE Transport ------------------------------
(***************************************************************************)
(* One _broadcast of one message (node.py) to peers that read frames from  *)
(* TCP connections (utils.py): a thread of the sender calls _send for one  *)
(* peer after the other, each call makes up to SOCKET_SEND_RETRIES         *)
(* connections, and each connection is read by a thread of its own.        *)
(* Bytes are counted, not represented: the frame is a header, which tells  *)
(* the length of the body, and the body.                                   *)
(***************************************************************************)
EXTENDS Naturals, FiniteSets

CONSTANTS
  Peers,
  Down,                   \* peers with no process to accept connections
  SOCKET_SEND_RETRIES,
  MSG_HEADER_SIZE,
  BodySize                \* bytes of the message as JSON

ASSUME TransportAssumption ==
  /\ SOCKET_SEND_RETRIES \in Nat \ {0}
  /\ MSG_HEADER_SIZE \in Nat \ {0}
  /\ BodySize \in Nat \ {0}

VARIABLES
  todo,       \* peers the loop of _broadcast has not come to yet
  send,       \* the call of _send that is being executed
  conn,       \* conn[p][k]: the connection of the k-th attempt to reach p
  failed,     \* peers for which _send has logged its failure
  listening   \* peers whose listener thread runs

vars == <<todo, send, conn, failed, listening>>

Attempts == 1 .. SOCKET_SEND_RETRIES
FrameSize == MSG_HEADER_SIZE + BodySize

Idle == [stage |-> "idle"]
Send == {Idle} \cup
  [stage : {"connect", "sendall", "sleep"}, target : Peers, attempt : Attempts]

\* written: bytes the sender's kernel has taken; read: bytes its reader has got.
Connection ==
  [reader : {"none", "queued", "header", "body", "handled", "ended"},
   open : BOOLEAN, written : 0 .. FrameSize, read : 0 .. FrameSize]

NoConnection == [reader |-> "none", open |-> FALSE, written |-> 0, read |-> 0]
Established == [reader |-> "queued", open |-> TRUE, written |-> 0, read |-> 0]

TypeOK ==
  /\ todo \subseteq Peers
  /\ send \in Send
  /\ conn \in [Peers -> [Attempts -> Connection]]
  /\ failed \subseteq Peers
  /\ listening \subseteq Peers

Init ==
  /\ todo = Peers
  /\ send = Idle
  /\ conn = [p \in Peers |-> [k \in Attempts |-> NoConnection]]
  /\ failed = {}
  /\ listening = Peers \ Down

-----------------------------------------------------------------------------
\* The socket of the attempt that is being made.
Socket == conn[send.target][send.attempt]

\* _broadcast goes on to the next peer.
CallSend(p) ==
  /\ send = Idle
  /\ p \in todo
  /\ todo' = todo \ {p}
  /\ send' = [stage |-> "connect", target |-> p, attempt |-> 1]
  /\ UNCHANGED <<conn, failed>>

Connect ==
  /\ send.stage = "connect"
  /\ send.target \notin Down
  /\ conn' = [conn EXCEPT ![send.target][send.attempt] = Established]
  /\ send' = [send EXCEPT !.stage = "sendall"]
  /\ UNCHANGED <<todo, failed>>

\* sendall hands the frame to the kernel in pieces.
Write ==
  /\ send.stage = "sendall"
  /\ \E total \in Socket.written + 1 .. FrameSize :
       conn' = [conn EXCEPT ![send.target][send.attempt].written = total]
  /\ UNCHANGED <<todo, send, failed>>

\* sendall has returned: close and return.
\* (Seeded fault: the loop goes on to the next attempt.)
Return_TriesAgain ==
  /\ send.stage = "sendall"
  /\ Socket.written = FrameSize
  /\ conn' = [conn EXCEPT ![send.target][send.attempt].open = FALSE]
  /\ send' = IF send.attempt < SOCKET_SEND_RETRIES
             THEN [send EXCEPT !.attempt = @ + 1, !.stage = "connect"]
             ELSE Idle
  /\ UNCHANGED <<todo, failed>>

Return ==
  /\ send.stage = "sendall"
  /\ Socket.written = FrameSize
  /\ conn' = [conn EXCEPT ![send.target][send.attempt].open = FALSE]
  /\ send' = Idle
  /\ UNCHANGED <<todo, failed>>

\* connect or sendall can raise: refused, reset, timed out.
CanRaise ==
  \/ send.stage = "connect"
  \/ send.stage = "sendall" /\ Socket.written < FrameSize

\* _send sleeps and tries again, or returns, which drops its socket.
\* (Seeded fault: it never gives up.)
Raise_Always ==
  /\ CanRaise
  /\ send' = [send EXCEPT !.stage = "sleep"]
  /\ UNCHANGED <<todo, conn, failed>>

Raise ==
  /\ CanRaise
  /\ IF send.attempt < SOCKET_SEND_RETRIES
     THEN /\ send' = [send EXCEPT !.stage = "sleep"]
          /\ UNCHANGED <<conn, failed>>
     ELSE /\ send' = Idle
          /\ failed' = failed \cup {send.target}
          /\ conn' = [conn EXCEPT ![send.target][send.attempt].open = FALSE]
  /\ UNCHANGED todo

\* The next attempt makes a new socket, which drops the one before.
\* (Seeded fault: the attempts are not counted.)
Retry_Uncounted ==
  /\ send.stage = "sleep"
  /\ conn' = [conn EXCEPT ![send.target][send.attempt] = NoConnection]
  /\ send' = [send EXCEPT !.stage = "connect"]
  /\ UNCHANGED <<todo, failed>>

Retry ==
  /\ send.stage = "sleep"
  /\ conn' = [conn EXCEPT ![send.target][send.attempt].open = FALSE]
  /\ send' = [send EXCEPT !.attempt = @ + 1, !.stage = "connect"]
  /\ UNCHANGED <<todo, failed>>

Sender ==
  /\ (\E p \in Peers : CallSend(p)) \/ Connect \/ Write \/ Return \/ Raise \/ Retry
  /\ UNCHANGED listening

-----------------------------------------------------------------------------
Reading(c) == c.reader \in {"header", "body"}

\* _listen starts a thread for the connection.
Accept(p, k) ==
  /\ p \in listening
  /\ conn[p][k].reader = "queued"
  /\ conn' = [conn EXCEPT ![p][k].reader = "header"]

\* recv returns up to as many bytes as _recv_exact still lacks.
Received(c, n) ==
  [c EXCEPT !.read = c.read + n,
            !.reader = CASE c.read + n = FrameSize -> "handled"
                         [] c.read + n = MSG_HEADER_SIZE -> "body"
                         [] OTHER -> @]

Recv(p, k) ==
  LET c == conn[p][k]
      remaining == (IF c.reader = "header" THEN MSG_HEADER_SIZE ELSE FrameSize) - c.read
  IN
  /\ Reading(c)
  /\ \E n \in 1 .. remaining :
       /\ c.read + n <= c.written
       /\ conn' = [conn EXCEPT ![p][k] = Received(c, n)]

\* recv returns nothing: the sender's end is closed and there is no more.
\* (Seeded fault: what has come of the body is taken for all of it.)
EndOfStream_TakesRest(p, k) ==
  /\ Reading(conn[p][k])
  /\ ~conn[p][k].open
  /\ conn[p][k].read = conn[p][k].written
  /\ conn' = [conn EXCEPT ![p][k].reader = IF @ = "body" THEN "handled" ELSE "ended"]

EndOfStream(p, k) ==
  /\ Reading(conn[p][k])
  /\ ~conn[p][k].open
  /\ conn[p][k].read = conn[p][k].written
  /\ conn' = [conn EXCEPT ![p][k].reader = "ended"]

\* recv raises: SOCKET_TIMEOUT has passed with no byte arriving, or a reset.
RecvRaises(p, k) ==
  /\ Reading(conn[p][k])
  /\ conn' = [conn EXCEPT ![p][k].reader = "ended"]

Reader(p, k) ==
  /\ Accept(p, k) \/ Recv(p, k) \/ EndOfStream(p, k) \/ RecvRaises(p, k)
  /\ UNCHANGED <<todo, send, failed, listening>>

\* accept raises OSError, for want of a descriptor for example, and _listen ends.
\* The socket stays open: the kernel completes connections that nobody reads.
ListenerEnds(p) ==
  /\ p \in listening
  /\ listening' = listening \ {p}
  /\ UNCHANGED <<todo, send, conn, failed>>

Next ==
  \/ Sender
  \/ \E p \in Peers : ListenerEnds(p) \/ \E k \in Attempts : Reader(p, k)

Spec == Init /\ [][Next]_vars

(***************************************************************************)
(* Every blocking call of both sides ends, at the latest by its timeout    *)
(* (node.py:90, 118; time.sleep at node.py:125).                           *)
(***************************************************************************)
FairSpec ==
  /\ Spec
  /\ WF_vars(Sender)
  /\ \A p \in Peers, k \in Attempts : WF_vars(Reader(p, k))

-----------------------------------------------------------------------------
HandledAt(p) == {k \in Attempts : conn[p][k].reader = "handled"}
Live(p, k) ==
  Reading(conn[p][k]) \/ (conn[p][k].reader = "queued" /\ p \in listening)
Busy(p) == p \in todo \/ (send # Idle /\ send.target = p)

(***************************************************************************)
(* A second attempt never leads to a second delivery: whatever piece of a  *)
(* frame an attempt that raised has left behind, each peer handles the     *)
(* message once or not at all (node.py:115-130, utils.py:84-108), also     *)
(* when its listener ends in between (node.py:84).                         *)
(***************************************************************************)
Abstract == INSTANCE Delivery WITH
              waiting <- {p \in Peers :
                            /\ HandledAt(p) = {}
                            /\ Busy(p) \/ \E k \in Attempts : Live(p, k)},
              times <- [p \in Peers |-> Cardinality(HandledAt(p))]

ImplementsDelivery == Abstract!Spec

(***************************************************************************)
(* "Failed to reach" (node.py:127) is never logged of a peer that handles  *)
(* the message, not even one that still reads what an attempt left behind. *)
(* (The converse is false: _send succeeds when the kernel has the frame.)  *)
(***************************************************************************)
FailureIsReal == \A p \in failed : HandledAt(p) = {}

(***************************************************************************)
(* A peer that is down, stalls or has stopped listening delays a broadcast *)
(* and does not stop it: every peer is tried in the end, and no thread is  *)
(* left behind on either side.                                             *)
(***************************************************************************)
EverythingEnds ==
  <>[](/\ todo = {} /\ send = Idle
       /\ \A p \in Peers, k \in Attempts : ~Live(p, k))
=============================================================================
