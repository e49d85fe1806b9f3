--------------------------- MODULE TransportProofs ---------------------------
(***************************************************************************)
(* A broadcast delivers at most once: proofs for any set of peers, any     *)
(* number of attempts and frames of any size, cut into pieces anywhere.    *)
(***************************************************************************)
EXTENDS Transport, FiniteSetTheorems, TLAPS

Full(p, k) == conn[p][k].written = FrameSize
Untried(p, k) == conn[p][k].reader = "none" /\ conn[p][k].written = 0
Targets(p) == send # Idle /\ send.target = p

\* How far a reader is tells how much it has read.
Sound(c) ==
  /\ c.read <= c.written
  /\ c.reader \in {"none", "queued"} => c.read = 0
  /\ c.reader = "header" => c.read < MSG_HEADER_SIZE
  /\ c.reader = "body" => c.read >= MSG_HEADER_SIZE /\ c.read < FrameSize
  /\ c.reader = "handled" => c.read = FrameSize

ReadersOK == \A p \in Peers, k \in Attempts : Sound(conn[p][k])

\* Attempts are made one after the other, and none after one that has written
\* the whole frame.
AttemptsOK ==
  \A p \in Peers :
    /\ p \in todo => ~Targets(p) /\ \A k \in Attempts : Untried(p, k)
    /\ Targets(p) => \A k \in Attempts :
         /\ k < send.attempt => ~Full(p, k)
         /\ k > send.attempt => Untried(p, k)
         /\ k = send.attempt /\ send.stage = "connect" => Untried(p, k)
         /\ k = send.attempt /\ send.stage = "sleep" =>
              ~Full(p, k) /\ k < SOCKET_SEND_RETRIES

OneFull == \A p \in Peers : \A j, k \in Attempts : Full(p, j) /\ Full(p, k) => j = k

FailedOK == \A p \in failed : ~Busy(p) /\ \A k \in Attempts : ~Full(p, k)

TInv == TypeOK /\ ReadersOK /\ AttemptsOK /\ OneFull /\ FailedOK

-----------------------------------------------------------------------------
LEMMA Sizes ==
  /\ SOCKET_SEND_RETRIES \in Nat /\ SOCKET_SEND_RETRIES >= 1
  /\ MSG_HEADER_SIZE \in Nat /\ MSG_HEADER_SIZE >= 1
  /\ FrameSize \in Nat /\ FrameSize > MSG_HEADER_SIZE
BY TransportAssumption DEF FrameSize

LEMMA ActiveSend ==
  ASSUME TypeOK, send.stage # "idle"
  PROVE  /\ send # Idle
         /\ send \in [stage : {"connect", "sendall", "sleep"}, target : Peers,
                      attempt : Attempts]
         /\ send.target \in Peers /\ send.attempt \in Attempts
BY DEF TypeOK, Send, Idle

\* A step changes one connection at most.
LEMMA OneConnection ==
  ASSUME TypeOK, NEW p \in Peers, NEW k \in Attempts, NEW c \in Connection,
         conn' = [conn EXCEPT ![p][k] = c]
  PROVE  /\ conn' \in [Peers -> [Attempts -> Connection]]
         /\ conn'[p][k] = c
         /\ \A q \in Peers, j \in Attempts : q # p \/ j # k => conn'[q][j] = conn[q][j]
BY DEF TypeOK

\* The fields that a step can change.
LEMMA Fields ==
  ASSUME TypeOK, NEW p \in Peers, NEW k \in Attempts
  PROVE  /\ conn[p][k] \in Connection
         /\ [conn[p][k] EXCEPT !.open = FALSE] \in Connection
         /\ \A n \in 0 .. FrameSize : [conn[p][k] EXCEPT !.written = n] \in Connection
         /\ [conn EXCEPT ![p][k].open = FALSE] =
              [conn EXCEPT ![p][k] = [conn[p][k] EXCEPT !.open = FALSE]]
         /\ \A n \in 0 .. FrameSize :
              [conn EXCEPT ![p][k].written = n] =
                [conn EXCEPT ![p][k] = [conn[p][k] EXCEPT !.written = n]]
<1>1. conn[p][k] \in Connection
  BY DEF TypeOK
<1>2. [conn[p][k] EXCEPT !.open = FALSE] \in Connection
  BY <1>1 DEF Connection
<1>3. \A n \in 0 .. FrameSize : [conn[p][k] EXCEPT !.written = n] \in Connection
  BY <1>1 DEF Connection
<1> QED
  BY <1>1, <1>2, <1>3

LEMMA InitHolds == Init => TInv
<1> SUFFICES ASSUME Init PROVE TInv
  OBVIOUS
<1>1. NoConnection \in Connection
  BY Sizes DEF NoConnection, Connection
<1>2. TypeOK
  BY <1>1 DEF Init, TypeOK, Send
<1>3. \A p \in Peers, k \in Attempts : conn[p][k] = NoConnection
  BY DEF Init
<1>4. Sound(NoConnection)
  BY DEF Sound, NoConnection
<1>5. \A p \in Peers, k \in Attempts : Untried(p, k) /\ ~Full(p, k)
  BY <1>3, Sizes DEF Untried, Full, NoConnection
<1> QED
  BY <1>2, <1>3, <1>4, <1>5 DEF TInv, ReadersOK, AttemptsOK, OneFull, FailedOK, Init, Targets

-----------------------------------------------------------------------------
(***************************************************************************)
(* The steps of the sender.                                                *)
(***************************************************************************)
LEMMA CallSendKeeps ==
  ASSUME TInv, NEW p \in Peers, CallSend(p), listening' = listening
  PROVE  TInv'
<1> DEFINE next == [stage |-> "connect", target |-> p, attempt |-> 1]
<1>1. /\ send = Idle /\ p \in todo /\ todo' = todo \ {p}
      /\ send' = next /\ conn' = conn /\ failed' = failed
  BY DEF CallSend
<1>2. 1 \in Attempts /\ \A k \in Attempts : k \in Nat /\ ~(k < 1)
  BY Sizes DEF Attempts
<1>3. /\ next \in Send /\ next # Idle
      /\ next.stage = "connect" /\ next.target = p /\ next.attempt = 1
  BY <1>2 DEF Send, Idle
<1> HIDE DEF next
<1>4. TypeOK'
  BY <1>1, <1>3 DEF TInv, TypeOK
<1>5. ReadersOK' /\ OneFull'
  BY <1>1 DEF TInv, ReadersOK, Sound, OneFull, Full
<1>6. \A q \in Peers : Targets(q)' <=> q = p
  BY <1>1, <1>3 DEF Targets
<1>7. AttemptsOK'
  <2>1. \A q \in Peers, k \in Attempts : Untried(q, k)' <=> Untried(q, k)
    BY <1>1 DEF Untried
  <2>2. \A k \in Attempts : Untried(p, k)
    BY <1>1 DEF TInv, AttemptsOK
  <2>3. \A q \in todo' : q # p /\ q \in todo
    BY <1>1
  <2> QED
    BY <1>1, <1>2, <1>3, <1>6, <2>1, <2>2, <2>3 DEF TInv, AttemptsOK
<1>8. FailedOK'
  BY <1>1, <1>6 DEF TInv, FailedOK, Busy, Targets, Full
<1> QED
  BY <1>4, <1>5, <1>7, <1>8 DEF TInv

\* The socket of the attempt that is being made, and nothing else.
LEMMA SocketStep ==
  ASSUME TInv, send.stage # "idle", NEW c \in Connection, Sound(c),
         conn' = [conn EXCEPT ![send.target][send.attempt] = c],
         NEW next \in Send, send' = next,
         todo' = todo, listening' = listening
  PROVE  /\ ReadersOK'
         /\ failed' \subseteq Peers => TypeOK'
         /\ \A q \in Peers, j \in Attempts :
              conn'[q][j] = IF q = send.target /\ j = send.attempt THEN c ELSE conn[q][j]
<1>1. send.target \in Peers /\ send.attempt \in Attempts
  BY ActiveSend DEF TInv
<1>2. /\ conn' \in [Peers -> [Attempts -> Connection]]
      /\ \A q \in Peers, j \in Attempts :
           conn'[q][j] = IF q = send.target /\ j = send.attempt THEN c ELSE conn[q][j]
  <2>1. conn \in [Peers -> [Attempts -> Connection]]
    BY DEF TInv, TypeOK
  <2> QED
    BY <1>1, <2>1
<1>3. ReadersOK'
  <2>1. \A q \in Peers, j \in Attempts : Sound(conn'[q][j])
    BY <1>2 DEF TInv, ReadersOK
  <2> QED
    BY <2>1 DEF ReadersOK, Sound
<1>4. failed' \subseteq Peers => TypeOK'
  BY <1>2 DEF TInv, TypeOK
<1> QED
  BY <1>2, <1>3, <1>4

LEMMA ConnectKeeps ==
  ASSUME TInv, Connect, listening' = listening
  PROVE  TInv'
<1> DEFINE next == [send EXCEPT !.stage = "sendall"]
           p == send.target
           a == send.attempt
<1>1. /\ send.stage = "connect" /\ todo' = todo /\ failed' = failed
      /\ conn' = [conn EXCEPT ![p][a] = Established] /\ send' = next
  BY DEF Connect
<1>2. /\ send # Idle /\ p \in Peers /\ a \in Attempts
      /\ send \in [stage : {"connect", "sendall", "sleep"}, target : Peers, attempt : Attempts]
  BY <1>1, ActiveSend DEF TInv
<1>3. /\ next \in Send /\ next # Idle
      /\ next.stage = "sendall" /\ next.target = p /\ next.attempt = a
  BY <1>2 DEF Send, Idle
<1>4. Established \in Connection /\ Sound(Established) /\ Established.written # FrameSize
  BY Sizes DEF Established, Connection, Sound
<1> HIDE DEF next
<1>5. /\ ReadersOK' /\ TypeOK'
      /\ \A q \in Peers, j \in Attempts :
           conn'[q][j] = IF q = p /\ j = a THEN Established ELSE conn[q][j]
  BY <1>1, <1>3, <1>4, SocketStep DEF TInv, TypeOK
<1>6. \A q \in Peers : Targets(q)' <=> Targets(q)
  BY <1>1, <1>2, <1>3 DEF Targets
<1>7. \A q \in Peers, j \in Attempts :
        /\ Full(q, j)' => Full(q, j)
        /\ Untried(q, j) /\ (q # p \/ j # a) => Untried(q, j)'
  BY <1>4, <1>5 DEF Full, Untried
<1>8. AttemptsOK'
  BY <1>1, <1>2, <1>3, <1>6, <1>7 DEF TInv, AttemptsOK, Targets, Attempts
<1>9. OneFull'
  BY <1>7 DEF TInv, OneFull
<1>10. FailedOK'
  BY <1>1, <1>6, <1>7 DEF TInv, FailedOK, Busy, Targets, TypeOK
<1> QED
  BY <1>5, <1>8, <1>9, <1>10 DEF TInv

LEMMA WriteKeeps ==
  ASSUME TInv, Write, listening' = listening
  PROVE  TInv'
<1> DEFINE p == send.target
           a == send.attempt
           old == conn[p][a]
<1>1. send.stage = "sendall" /\ todo' = todo /\ failed' = failed /\ send' = send
  BY DEF Write
<1>2. /\ send # Idle /\ p \in Peers /\ a \in Attempts
  BY <1>1, ActiveSend DEF TInv
<1>3. PICK n \in old.written + 1 .. FrameSize : conn' = [conn EXCEPT ![p][a].written = n]
  BY DEF Write, Socket
<1>4. old \in Connection /\ Sound(old)
  BY <1>2 DEF TInv, TypeOK, ReadersOK
<1>5. n \in 0 .. FrameSize /\ old.written < n
  BY <1>3, <1>4, Sizes DEF Connection
<1> DEFINE c == [old EXCEPT !.written = n]
<1>6. conn' = [conn EXCEPT ![p][a] = c] /\ c \in Connection
  BY <1>2, <1>3, <1>5, Fields DEF TInv
<1>7. Sound(c) /\ c.reader = old.reader
  <2>1. c.read = old.read /\ c.reader = old.reader /\ c.written = n
    BY <1>4 DEF Connection
  <2>2. old.read <= n
    BY <1>4, <1>5 DEF Sound, Connection
  <2> HIDE DEF c
  <2> QED
    BY <1>4, <2>1, <2>2 DEF Sound
<1>8. send \in Send
  BY DEF TInv, TypeOK
<1> HIDE DEF c
<1>9. /\ ReadersOK' /\ TypeOK'
      /\ \A q \in Peers, j \in Attempts :
           conn'[q][j] = IF q = p /\ j = a THEN c ELSE conn[q][j]
  BY <1>1, <1>6, <1>7, <1>8, SocketStep DEF TInv, TypeOK
<1>10. \A q \in Peers, j \in Attempts : q # p \/ j # a =>
         (Full(q, j)' <=> Full(q, j)) /\ (Untried(q, j)' <=> Untried(q, j))
  BY <1>9 DEF Full, Untried
<1>11. \A q \in Peers : (Targets(q)' <=> Targets(q)) /\ (Targets(q) <=> q = p)
  BY <1>1, <1>2 DEF Targets
<1>12. \A j \in Attempts : j # a => ~Full(p, j)
  <2>1. \A j \in Attempts : j < a => ~Full(p, j)
    BY <1>2, <1>11 DEF TInv, AttemptsOK
  <2>2. \A j \in Attempts : j > a => ~Full(p, j)
    BY <1>2, <1>11, Sizes DEF TInv, AttemptsOK, Untried, Full
  <2> QED
    BY <1>2, <2>1, <2>2 DEF Attempts
<1>13. AttemptsOK'
  <2>1. \A j \in Attempts : (j < a \/ j > a) <=> j # a
    BY <1>2 DEF Attempts
  <2> QED
    BY <1>1, <1>2, <1>10, <1>11, <2>1 DEF TInv, AttemptsOK
<1>14. OneFull'
  BY <1>10, <1>12 DEF TInv, OneFull
<1>15. FailedOK'
  <2>1. p \notin failed
    BY <1>2 DEF TInv, FailedOK, Busy
  <2> QED
    BY <1>1, <1>10, <1>11, <2>1 DEF TInv, FailedOK, Busy, Targets, TypeOK
<1> QED
  BY <1>9, <1>13, <1>14, <1>15 DEF TInv

\* Giving up a socket, or closing it, moves no byte.
LEMMA CloseStep ==
  ASSUME TInv, send.stage # "idle",
         conn' = [conn EXCEPT ![send.target][send.attempt].open = FALSE],
         NEW next \in Send, send' = next,
         todo' = todo, listening' = listening
  PROVE  /\ ReadersOK' /\ OneFull'
         /\ failed' \subseteq Peers => TypeOK'
         /\ \A q \in Peers, j \in Attempts :
              (Full(q, j)' <=> Full(q, j)) /\ (Untried(q, j)' <=> Untried(q, j))
<1> DEFINE p == send.target
           a == send.attempt
           old == conn[p][a]
           c == [old EXCEPT !.open = FALSE]
<1>1. p \in Peers /\ a \in Attempts
  BY ActiveSend DEF TInv
<1>2. conn' = [conn EXCEPT ![p][a] = c] /\ c \in Connection
  BY <1>1, Fields DEF TInv
<1>3. /\ old \in Connection /\ Sound(old)
  BY <1>1 DEF TInv, TypeOK, ReadersOK
<1>4. c.read = old.read /\ c.reader = old.reader /\ c.written = old.written
  BY <1>3 DEF Connection
<1> HIDE DEF c
<1>5. Sound(c)
  BY <1>3, <1>4 DEF Sound
<1>6. /\ ReadersOK'
      /\ failed' \subseteq Peers => TypeOK'
      /\ \A q \in Peers, j \in Attempts :
           conn'[q][j] = IF q = p /\ j = a THEN c ELSE conn[q][j]
  BY <1>2, <1>5, SocketStep
<1>7. \A q \in Peers, j \in Attempts :
        (Full(q, j)' <=> Full(q, j)) /\ (Untried(q, j)' <=> Untried(q, j))
  BY <1>4, <1>6 DEF Full, Untried
<1>8. OneFull'
  BY <1>7 DEF TInv, OneFull
<1> QED
  BY <1>6, <1>7, <1>8

LEMMA ReturnKeeps ==
  ASSUME TInv, Return, listening' = listening
  PROVE  TInv'
<1>1. /\ send.stage = "sendall" /\ todo' = todo /\ failed' = failed /\ send' = Idle
      /\ conn' = [conn EXCEPT ![send.target][send.attempt].open = FALSE]
  BY DEF Return
<1>2. Idle \in Send
  BY DEF Send
<1>3. /\ ReadersOK' /\ OneFull' /\ TypeOK'
      /\ \A q \in Peers, j \in Attempts :
           (Full(q, j)' <=> Full(q, j)) /\ (Untried(q, j)' <=> Untried(q, j))
  BY <1>1, <1>2, CloseStep DEF TInv, TypeOK
<1>4. \A q \in Peers : ~Targets(q)'
  BY <1>1 DEF Targets
<1>5. AttemptsOK'
  BY <1>1, <1>3, <1>4 DEF TInv, AttemptsOK
<1>6. FailedOK'
  BY <1>1, <1>3, <1>4 DEF TInv, FailedOK, Busy, Targets, TypeOK
<1> QED
  BY <1>3, <1>5, <1>6 DEF TInv

\* No attempt of the call has written the whole frame.
LEMMA NoneFull ==
  ASSUME TInv, CanRaise \/ send.stage = "sleep"
  PROVE  /\ send.stage # "idle" /\ ~Full(send.target, send.attempt)
         /\ \A k \in Attempts : k < send.attempt => ~Full(send.target, k)
         /\ \A k \in Attempts : k > send.attempt => Untried(send.target, k)
<1>1. send.stage # "idle"
  BY DEF CanRaise
<1>2. send.target \in Peers /\ send.attempt \in Attempts /\ Targets(send.target)
  BY <1>1, ActiveSend DEF TInv, Targets
<1>3. ~Full(send.target, send.attempt)
  <2>1. CASE send.stage = "sendall"
    <3>1. Socket.written < FrameSize
      BY <2>1 DEF CanRaise
    <3> QED
      BY <3>1, Sizes DEF Full, Socket
  <2>2. CASE send.stage = "connect"
    BY <1>2, <2>2, Sizes DEF TInv, AttemptsOK, Untried, Full
  <2>3. CASE send.stage = "sleep"
    BY <1>2, <2>3 DEF TInv, AttemptsOK
  <2> QED
    BY <2>1, <2>2, <2>3 DEF CanRaise
<1> QED
  BY <1>1, <1>2, <1>3 DEF TInv, AttemptsOK

LEMMA RaiseKeeps ==
  ASSUME TInv, Raise, listening' = listening
  PROVE  TInv'
<1> DEFINE p == send.target
           a == send.attempt
<1>1. CanRaise /\ todo' = todo
  BY DEF Raise
<1>2. /\ send.stage # "idle" /\ ~Full(p, a)
      /\ \A k \in Attempts : k < a => ~Full(p, k)
      /\ \A k \in Attempts : k > a => Untried(p, k)
  BY <1>1, NoneFull
<1>3. /\ send # Idle /\ p \in Peers /\ a \in Attempts
      /\ send \in [stage : {"connect", "sendall", "sleep"}, target : Peers, attempt : Attempts]
  BY <1>2, ActiveSend DEF TInv
<1>4. CASE a < SOCKET_SEND_RETRIES
  <2> DEFINE next == [send EXCEPT !.stage = "sleep"]
  <2>1. send' = next /\ conn' = conn /\ failed' = failed
    BY <1>4 DEF Raise
  <2>2. /\ next \in Send /\ next # Idle
        /\ next.stage = "sleep" /\ next.target = p /\ next.attempt = a
    BY <1>3 DEF Send, Idle
  <2> HIDE DEF next
  <2>3. TypeOK' /\ ReadersOK' /\ OneFull'
    BY <1>1, <2>1, <2>2 DEF TInv, TypeOK, ReadersOK, Sound, OneFull, Full
  <2>4. \A q \in Peers : Targets(q)' <=> Targets(q)
    BY <1>3, <2>1, <2>2 DEF Targets
  <2>5. \A q \in Peers, j \in Attempts :
          (Full(q, j)' <=> Full(q, j)) /\ (Untried(q, j)' <=> Untried(q, j))
    BY <2>1 DEF Full, Untried
  <2>6. AttemptsOK'
    <3>1. \A q \in Peers : Targets(q) => q = p
      BY DEF Targets
    <3> QED
      BY <1>1, <1>2, <1>4, <2>1, <2>2, <2>4, <2>5, <3>1 DEF TInv, AttemptsOK
  <2>7. FailedOK'
    BY <1>1, <2>1, <2>4, <2>5 DEF TInv, FailedOK, Busy, Targets, TypeOK
  <2> QED
    BY <2>3, <2>6, <2>7 DEF TInv
<1>5. CASE ~(a < SOCKET_SEND_RETRIES)
  <2>1. /\ send' = Idle /\ failed' = failed \cup {p}
        /\ conn' = [conn EXCEPT ![p][a].open = FALSE]
    BY <1>5 DEF Raise
  <2>2. Idle \in Send
    BY DEF Send
  <2>3. /\ ReadersOK' /\ OneFull' /\ TypeOK'
        /\ \A q \in Peers, j \in Attempts :
             (Full(q, j)' <=> Full(q, j)) /\ (Untried(q, j)' <=> Untried(q, j))
    BY <1>1, <1>2, <1>3, <2>1, <2>2, CloseStep DEF TInv, TypeOK
  <2>4. \A q \in Peers : ~Targets(q)'
    BY <2>1 DEF Targets
  <2>5. AttemptsOK'
    BY <1>1, <2>3, <2>4 DEF TInv, AttemptsOK
  <2>6. \A k \in Attempts : ~Full(p, k)
    <3>1. \A k \in Attempts : k < a \/ k = a
      BY <1>3, <1>5, Sizes DEF Attempts
    <3> QED
      BY <1>2, <3>1
  <2>7. p \notin todo
    BY <1>3 DEF TInv, AttemptsOK, Targets
  <2>8. FailedOK'
    <3> SUFFICES ASSUME NEW q \in failed'
                 PROVE  ~Busy(q)' /\ \A k \in Attempts : ~Full(q, k)'
      BY DEF FailedOK
    <3>1. q \in Peers
      BY <2>3 DEF TypeOK
    <3>2. ~Busy(q)'
      BY <1>1, <2>1, <2>4, <2>7, <3>1 DEF TInv, FailedOK, Busy, Targets
    <3>3. \A k \in Attempts : ~Full(q, k)
      BY <2>1, <2>6 DEF TInv, FailedOK
    <3> QED
      BY <2>3, <3>1, <3>2, <3>3
  <2> QED
    BY <2>3, <2>5, <2>8 DEF TInv
<1> QED
  BY <1>4, <1>5

LEMMA RetryKeeps ==
  ASSUME TInv, Retry, listening' = listening
  PROVE  TInv'
<1> DEFINE p == send.target
           a == send.attempt
           next == [send EXCEPT !.attempt = a + 1, !.stage = "connect"]
<1>1. /\ send.stage = "sleep" /\ todo' = todo /\ failed' = failed /\ send' = next
      /\ conn' = [conn EXCEPT ![p][a].open = FALSE]
  BY DEF Retry
<1>2. /\ send.stage # "idle" /\ ~Full(p, a)
      /\ \A k \in Attempts : k < a => ~Full(p, k)
      /\ \A k \in Attempts : k > a => Untried(p, k)
  BY <1>1, NoneFull
<1>3. /\ send # Idle /\ p \in Peers /\ a \in Attempts
      /\ send \in [stage : {"connect", "sendall", "sleep"}, target : Peers, attempt : Attempts]
  BY <1>2, ActiveSend DEF TInv
<1>4. a \in Nat /\ a + 1 \in Attempts /\ \A k \in Attempts : k \in Nat
  <2>1. a < SOCKET_SEND_RETRIES
    BY <1>1, <1>3 DEF TInv, AttemptsOK, Targets
  <2> QED
    BY <1>3, <2>1, Sizes DEF Attempts
<1>5. /\ next \in Send /\ next # Idle
      /\ next.stage = "connect" /\ next.target = p /\ next.attempt = a + 1
  BY <1>3, <1>4 DEF Send, Idle
<1> HIDE DEF next
<1>6. /\ ReadersOK' /\ OneFull' /\ TypeOK'
      /\ \A q \in Peers, j \in Attempts :
           (Full(q, j)' <=> Full(q, j)) /\ (Untried(q, j)' <=> Untried(q, j))
  BY <1>1, <1>2, <1>5, CloseStep DEF TInv, TypeOK
<1>7. \A q \in Peers : (Targets(q)' <=> Targets(q)) /\ (Targets(q) => q = p)
  BY <1>1, <1>3, <1>5 DEF Targets
<1>8. AttemptsOK'
  <2>1. \A k \in Attempts :
          /\ k < a + 1 => ~Full(p, k)
          /\ k > a + 1 => Untried(p, k)
          /\ k = a + 1 => Untried(p, k)
    BY <1>2, <1>4
  <2>2. \A q \in todo : ~Targets(q) /\ \A k \in Attempts : Untried(q, k)
    BY DEF TInv, TypeOK, AttemptsOK
  <2> QED
    BY <1>1, <1>5, <1>6, <1>7, <2>1, <2>2 DEF AttemptsOK
<1>9. FailedOK'
  BY <1>1, <1>6, <1>7 DEF TInv, FailedOK, Busy, Targets, TypeOK
<1> QED
  BY <1>6, <1>8, <1>9 DEF TInv

-----------------------------------------------------------------------------
(***************************************************************************)
(* The steps of the readers.                                               *)
(***************************************************************************)
\* What any step of a reader is: the one connection, read further or ended.
ReaderStep(p, k, c) ==
  /\ c \in Connection /\ Sound(c)
  /\ conn' = [conn EXCEPT ![p][k] = c]
  /\ c.written = conn[p][k].written
  /\ conn[p][k].reader # "none" /\ c.reader # "none"
  /\ Live(p, k)

LEMMA AcceptIsStep ==
  ASSUME TInv, NEW p \in Peers, NEW k \in Attempts, Accept(p, k)
  PROVE  \E c : ReaderStep(p, k, c)
<1> DEFINE old == conn[p][k]
           c == [old EXCEPT !.reader = "header"]
<1>1. old \in Connection /\ Sound(old)
  BY DEF TInv, TypeOK, ReadersOK
<1>2. conn' = [conn EXCEPT ![p][k] = c] /\ old.reader = "queued" /\ p \in listening
  BY DEF Accept
<1>3. c \in Connection /\ c.reader = "header" /\ c.written = old.written /\ c.read = old.read
  BY <1>1 DEF Connection
<1> HIDE DEF c
<1>4. Sound(c)
  BY <1>1, <1>2, <1>3, Sizes DEF Sound
<1> QED
  BY <1>2, <1>3, <1>4 DEF ReaderStep, Live

LEMMA RecvIsStep ==
  ASSUME TInv, NEW p \in Peers, NEW k \in Attempts, Recv(p, k)
  PROVE  \E c : ReaderStep(p, k, c)
<1> DEFINE old == conn[p][k]
           wanted == IF old.reader = "header" THEN MSG_HEADER_SIZE ELSE FrameSize
<1>1. old \in Connection /\ Sound(old)
  BY DEF TInv, TypeOK, ReadersOK
<1>2. Reading(old)
  BY DEF Recv
<1>3. PICK n \in 1 .. (wanted - old.read) :
        old.read + n <= old.written /\ conn' = [conn EXCEPT ![p][k] = Received(old, n)]
  BY DEF Recv
<1>4. old.read \in Nat /\ old.written \in 0 .. FrameSize
  BY <1>1, Sizes DEF Connection
<1>5. n \in Nat /\ n >= 1 /\ old.read + n <= wanted
  BY <1>3, <1>4, Sizes
<1> DEFINE c == Received(old, n)
           reader == CASE old.read + n = FrameSize -> "handled"
                       [] old.read + n = MSG_HEADER_SIZE -> "body"
                       [] OTHER -> old.reader
<1>6. old.read + n \in 0 .. FrameSize
  BY <1>3, <1>4, <1>5, Sizes
<1>7. reader \in {"header", "body", "handled"}
  BY <1>2 DEF Reading
<1>8. c = [old EXCEPT !.read = old.read + n, !.reader = reader]
  BY DEF Received
<1> HIDE DEF reader
<1>9. /\ c \in Connection /\ c.reader = reader
      /\ c.written = old.written /\ c.read = old.read + n
  BY <1>1, <1>6, <1>7, <1>8 DEF Connection
<1> HIDE DEF c
<1>10. Sound(c)
  <2>1. CASE old.read + n = FrameSize
    <3>1. reader = "handled"
      BY <2>1, Sizes DEF reader
    <3> QED
      BY <1>3, <1>9, <2>1, <3>1 DEF Sound
  <2>2. CASE old.read + n # FrameSize /\ old.read + n = MSG_HEADER_SIZE
    BY <1>3, <1>9, <2>2, Sizes DEF Sound, reader
  <2>3. CASE old.read + n # FrameSize /\ old.read + n # MSG_HEADER_SIZE
    <3>1. reader = old.reader
      BY <2>3 DEF reader
    <3>2. old.reader = "header" => old.read + n < MSG_HEADER_SIZE
      BY <1>4, <1>5, <2>3, Sizes
    <3>3. old.reader = "body" => old.read + n >= MSG_HEADER_SIZE /\ old.read + n < FrameSize
      BY <1>1, <1>4, <1>5, <1>6, <2>3, Sizes DEF Sound
    <3> QED
      BY <1>2, <1>3, <1>9, <3>1, <3>2, <3>3 DEF Sound, Reading
  <2> QED
    BY <2>1, <2>2, <2>3
<1> QED
  BY <1>2, <1>3, <1>7, <1>9, <1>10 DEF ReaderStep, Live, Reading, c

LEMMA EndIsStep ==
  ASSUME TInv, NEW p \in Peers, NEW k \in Attempts,
         EndOfStream(p, k) \/ RecvRaises(p, k)
  PROVE  \E c : ReaderStep(p, k, c)
<1> DEFINE old == conn[p][k]
           c == [old EXCEPT !.reader = "ended"]
<1>1. old \in Connection /\ Sound(old)
  BY DEF TInv, TypeOK, ReadersOK
<1>2. conn' = [conn EXCEPT ![p][k] = c] /\ Reading(old)
  BY DEF EndOfStream, RecvRaises
<1>3. c \in Connection /\ c.reader = "ended" /\ c.written = old.written /\ c.read = old.read
  BY <1>1 DEF Connection
<1> HIDE DEF c
<1>4. Sound(c)
  BY <1>1, <1>3 DEF Sound
<1> QED
  BY <1>2, <1>3, <1>4 DEF ReaderStep, Live, Reading

LEMMA ReaderIsStep ==
  ASSUME TInv, NEW p \in Peers, NEW k \in Attempts, Reader(p, k)
  PROVE  /\ \E c : ReaderStep(p, k, c)
         /\ UNCHANGED <<todo, send, failed, listening>>
BY AcceptIsStep, RecvIsStep, EndIsStep DEF Reader

LEMMA ReaderKeeps ==
  ASSUME TInv, NEW p \in Peers, NEW k \in Attempts, NEW c, ReaderStep(p, k, c),
         UNCHANGED <<todo, send, failed, listening>>
  PROVE  TInv'
<1>1. /\ conn' \in [Peers -> [Attempts -> Connection]]
      /\ \A q \in Peers, j \in Attempts :
           conn'[q][j] = IF q = p /\ j = k THEN c ELSE conn[q][j]
  <2>1. TypeOK /\ c \in Connection /\ conn' = [conn EXCEPT ![p][k] = c]
    BY DEF TInv, ReaderStep
  <2>2. conn' \in [Peers -> [Attempts -> Connection]]
    BY <2>1, OneConnection
  <2>3. conn'[p][k] = c
    BY <2>1, OneConnection
  <2>4. ASSUME NEW q \in Peers, NEW j \in Attempts, ~(q = p /\ j = k)
        PROVE  conn'[q][j] = conn[q][j]
    BY <2>1, <2>4, OneConnection
  <2> QED
    BY <2>2, <2>3, <2>4
<1>2. TypeOK'
  BY <1>1 DEF TInv, TypeOK
<1>3. ReadersOK'
  <2>1. \A q \in Peers, j \in Attempts : Sound(conn'[q][j])
    BY <1>1 DEF TInv, ReadersOK, ReaderStep
  <2> QED
    BY <2>1 DEF ReadersOK, Sound
<1>4. \A q \in Peers, j \in Attempts :
        (Full(q, j)' <=> Full(q, j)) /\ (Untried(q, j)' <=> Untried(q, j))
  BY <1>1 DEF Full, Untried, ReaderStep
<1>5. AttemptsOK'
  BY <1>4 DEF TInv, AttemptsOK, Targets
<1>6. OneFull' /\ FailedOK'
  BY <1>4 DEF TInv, OneFull, FailedOK, Busy, TypeOK
<1> QED
  BY <1>2, <1>3, <1>5, <1>6 DEF TInv

LEMMA ListenerEndsKeeps ==
  ASSUME TInv, NEW p \in Peers, ListenerEnds(p)
  PROVE  TInv'
BY DEF TInv, TypeOK, ReadersOK, Sound, AttemptsOK, OneFull, FailedOK, Busy, Targets,
       Untried, Full, ListenerEnds

LEMMA StepKeeps == TInv /\ [Next]_vars => TInv'
<1> SUFFICES ASSUME TInv, [Next]_vars PROVE TInv'
  OBVIOUS
<1>1. CASE Sender
  BY <1>1, CallSendKeeps, ConnectKeeps, WriteKeeps, ReturnKeeps, RaiseKeeps, RetryKeeps
     DEF Sender
<1>2. ASSUME NEW p \in Peers, ListenerEnds(p) PROVE TInv'
  BY <1>2, ListenerEndsKeeps
<1>3. ASSUME NEW p \in Peers, NEW k \in Attempts, Reader(p, k) PROVE TInv'
  BY <1>3, ReaderIsStep, ReaderKeeps
<1>4. CASE UNCHANGED vars
  BY <1>4 DEF vars, TInv, TypeOK, ReadersOK, Sound, AttemptsOK, OneFull, FailedOK, Busy,
              Targets, Untried, Full
<1> QED
  BY <1>1, <1>2, <1>3, <1>4 DEF Next

LEMMA TInvariant == Spec => []TInv
BY InitHolds, StepKeeps, PTL DEF Spec

-----------------------------------------------------------------------------
\* Who has handled the message has been sent all of it.
LEMMA HandledIsFull ==
  ASSUME TInv, NEW p \in Peers, NEW k \in Attempts, conn[p][k].reader = "handled"
  PROVE  Full(p, k)
<1>1. conn[p][k] \in Connection /\ Sound(conn[p][k])
  BY DEF TInv, TypeOK, ReadersOK
<1>2. /\ conn[p][k].read = FrameSize /\ FrameSize <= conn[p][k].written
      /\ conn[p][k].written \in 0 .. FrameSize
  BY <1>1 DEF Sound, Connection
<1> QED
  BY <1>2, Sizes DEF Full

(***************************************************************************)
(* The call, the connections and the readers stay within their types: no   *)
(* byte is read that was not written, and no attempt is made beyond the    *)
(* last (node.py:115-130, utils.py:84-108).                                *)
(***************************************************************************)
THEOREM TypeCorrect == Spec => []TypeOK
<1>1. TInv => TypeOK
  BY DEF TInv
<1> QED
  BY <1>1, TInvariant, PTL

(***************************************************************************)
(* "Failed to reach" is never logged of a peer that handles the message:   *)
(* however the frame was cut, none of the attempts that failed wrote all   *)
(* of it (node.py:127).                                                    *)
(***************************************************************************)
THEOREM FailureIsNeverWrong == Spec => []FailureIsReal
<1>1. TInv => FailureIsReal
  <2> SUFFICES ASSUME TInv, NEW p \in failed PROVE HandledAt(p) = {}
    BY DEF FailureIsReal
  <2>1. p \in Peers /\ \A k \in Attempts : ~Full(p, k)
    BY DEF TInv, TypeOK, FailedOK
  <2> QED
    BY <2>1, HandledIsFull DEF HandledAt
<1> QED
  BY <1>1, TInvariant, PTL

-----------------------------------------------------------------------------
(***************************************************************************)
(* The broadcast implements Delivery.                                      *)
(***************************************************************************)
Waits(p) == HandledAt(p) = {} /\ (Busy(p) \/ \E k \in Attempts : Live(p, k))

\* A step that is about one peer.
LosesAt(p) == HandledAt(p)' = HandledAt(p) /\ (Waits(p)' => Waits(p))
HandlesAt(p) == Waits(p) /\ \E k \in Attempts : HandledAt(p)' = {k}

OnlyAt(p) ==
  /\ LosesAt(p) \/ HandlesAt(p)
  /\ \A q \in Peers : q # p => (Waits(q)' <=> Waits(q)) /\ HandledAt(q)' = HandledAt(q)

LEMMA SenderOnlyAt ==
  ASSUME TInv, Sender
  PROVE  \E p \in Peers : OnlyAt(p)
<1>1. listening' = listening
  BY DEF Sender
<1>2. ASSUME NEW p \in Peers, CallSend(p) PROVE OnlyAt(p)
  <2>1. /\ send = Idle /\ p \in todo /\ conn' = conn /\ todo' = todo \ {p}
        /\ send'.target = p /\ send'.stage = "connect"
    BY <1>2 DEF CallSend
  <2>2. send' # Idle
    BY <2>1 DEF Idle
  <2>3. \A q \in Peers : Busy(q)' <=> Busy(q)
    BY <2>1, <2>2 DEF Busy
  <2>4. \A q \in Peers : HandledAt(q)' = HandledAt(q)
    BY <2>1 DEF HandledAt
  <2>5. \A q \in Peers, j \in Attempts : Live(q, j)' <=> Live(q, j)
    BY <1>1, <2>1 DEF Live, Reading
  <2> QED
    BY <2>3, <2>4, <2>5 DEF OnlyAt, LosesAt, Waits
<1>3. CASE send.stage # "idle" /\ (Connect \/ Write \/ Return \/ Raise \/ Retry)
  <2>0. PICK p \in Peers : p = send.target
    BY <1>3, ActiveSend DEF TInv
  <2> DEFINE a == send.attempt
  <2>1. /\ send # Idle /\ p = send.target /\ p \in Peers /\ a \in Attempts
        /\ send \in [stage : {"connect", "sendall", "sleep"}, target : Peers,
                     attempt : Attempts]
    BY <1>3, <2>0, ActiveSend DEF TInv
  <2>2. todo' = todo
    BY <1>3 DEF Connect, Write, Return, Raise, Retry
  <2>3. send' = Idle \/ send'.target = p
    BY <1>3, <2>1 DEF Connect, Write, Return, Raise, Retry
  <2>4. \A q \in Peers : /\ q # p => (Busy(q)' <=> Busy(q))
                         /\ Busy(p)
    BY <2>1, <2>2, <2>3 DEF Busy
  <2>5. \A q \in Peers, j \in Attempts :
          \/ conn'[q][j].reader = conn[q][j].reader
          \/ q = p /\ conn'[q][j].reader = "queued" /\ conn[q][j].reader = "none"
    <3>1. CASE Connect
      <4>1. Untried(p, a)
        BY <2>1, <3>1 DEF Connect, TInv, AttemptsOK, Targets
      <4>2. Established \in Connection
        BY Sizes DEF Established, Connection
      <4>3. conn' = [conn EXCEPT ![p][a] = Established]
        BY <2>0, <3>1 DEF Connect
      <4> QED
        BY <2>1, <4>1, <4>2, <4>3, OneConnection DEF TInv, Untried, Established
    <3>2. CASE conn' = [conn EXCEPT ![p][a].open = FALSE]
      BY <2>1, <3>2 DEF TInv, TypeOK, Connection
    <3>3. CASE Write
      BY <2>1, <3>3 DEF TInv, TypeOK, Connection, Write
    <3>4. CASE conn' = conn
      BY <3>4
    <3> QED
      BY <1>3, <2>0, <3>1, <3>2, <3>3, <3>4 DEF Return, Raise, Retry
  <2>6. \A q \in Peers : HandledAt(q)' = HandledAt(q)
    <3> TAKE q \in Peers
    <3>1. \A j \in Attempts :
            conn'[q][j].reader = "handled" <=> conn[q][j].reader = "handled"
      BY <2>5
    <3> QED
      BY <3>1 DEF HandledAt
  <2>7. \A q \in Peers, j \in Attempts : q # p => (Live(q, j)' <=> Live(q, j))
    BY <1>1, <2>5 DEF Live, Reading
  <2>8. \A q \in Peers : q # p => (Waits(q)' <=> Waits(q))
    BY <2>4, <2>6, <2>7 DEF Waits
  <2>9. Waits(p)' => Waits(p)
    BY <2>1, <2>4, <2>6 DEF Waits
  <2>10. OnlyAt(p)
    BY <2>1, <2>6, <2>8, <2>9 DEF OnlyAt, LosesAt
  <2> QED
    BY <2>1, <2>10
<1>4. Connect \/ Write \/ Return \/ Raise \/ Retry => send.stage # "idle"
  BY DEF Connect, Write, Return, Raise, CanRaise, Retry
<1> QED
  BY <1>2, <1>3, <1>4 DEF Sender

LEMMA ReaderOnlyAt ==
  ASSUME TInv, NEW p \in Peers, NEW k \in Attempts, NEW c, ReaderStep(p, k, c),
         UNCHANGED <<todo, send, failed, listening>>
  PROVE  OnlyAt(p)
<1>1. \A q \in Peers, j \in Attempts :
        conn'[q][j] = IF q = p /\ j = k THEN c ELSE conn[q][j]
  BY OneConnection DEF TInv, ReaderStep
<1>2. \A q \in Peers : Busy(q)' <=> Busy(q)
  BY DEF Busy
<1>3. Live(p, k) /\ conn[p][k].reader # "handled"
  BY DEF ReaderStep, Live, Reading
<1>4. \A q \in Peers, j \in Attempts : q # p \/ j # k => (Live(q, j)' <=> Live(q, j))
  BY <1>1 DEF Live, Reading
<1>5. \A q \in Peers : q # p => (Waits(q)' <=> Waits(q)) /\ HandledAt(q)' = HandledAt(q)
  <2>1. \A q \in Peers : q # p => HandledAt(q)' = HandledAt(q)
    BY <1>1 DEF HandledAt
  <2> QED
    BY <1>2, <1>4, <2>1 DEF Waits
<1>6. CASE c.reader # "handled"
  <2>1. HandledAt(p)' = HandledAt(p)
    BY <1>1, <1>3, <1>6 DEF HandledAt
  <2>2. Waits(p)' => Waits(p)
    BY <1>2, <1>3, <2>1 DEF Waits
  <2> QED
    BY <1>5, <2>1, <2>2 DEF OnlyAt, LosesAt
<1>7. CASE c.reader = "handled"
  <2>1. Full(p, k)
    <3>1. c.read = FrameSize /\ c.read <= c.written /\ c.written \in 0 .. FrameSize
      BY <1>7 DEF ReaderStep, Sound, Connection
    <3> QED
      BY <3>1, Sizes DEF Full, ReaderStep
  <2>2. HandledAt(p) = {}
    BY <1>3, <2>1, HandledIsFull DEF HandledAt, TInv, OneFull
  <2>3. HandledAt(p)' = {k}
    BY <1>1, <1>7, <2>2 DEF HandledAt
  <2>4. Waits(p)
    BY <1>3, <2>2 DEF Waits
  <2> QED
    BY <1>5, <2>3, <2>4 DEF OnlyAt, HandlesAt
<1> QED
  BY <1>6, <1>7

LEMMA ListenerOnlyAt ==
  ASSUME NEW p \in Peers, ListenerEnds(p)
  PROVE  OnlyAt(p)
<1>1. /\ listening' = listening \ {p}
      /\ todo' = todo /\ send' = send /\ conn' = conn
  BY DEF ListenerEnds
<1>2. \A q \in Peers : HandledAt(q)' = HandledAt(q) /\ (Busy(q)' <=> Busy(q))
  BY <1>1 DEF HandledAt, Busy
<1>3. \A q \in Peers, j \in Attempts :
        /\ Live(q, j)' => Live(q, j)
        /\ q # p => (Live(q, j)' <=> Live(q, j))
  BY <1>1 DEF Live, Reading
<1> QED
  BY <1>2, <1>3 DEF OnlyAt, LosesAt, Waits

-----------------------------------------------------------------------------
Waiting == {p \in Peers : Waits(p)}
Times == [p \in Peers |-> Cardinality(HandledAt(p))]

LEMMA OnlyAtIsAbstract ==
  ASSUME NEW p \in Peers, OnlyAt(p)
  PROVE  \/ Waiting' = Waiting /\ Times' = Times
         \/ p \in Waiting /\ Waiting' = Waiting \ {p} /\ Times' = Times
         \/ /\ p \in Waiting /\ Waiting' = Waiting \ {p}
            /\ Times' = [Times EXCEPT ![p] = @ + 1]
<1>1. \A q \in Peers : q # p => (Waits(q)' <=> Waits(q)) /\ HandledAt(q)' = HandledAt(q)
  BY DEF OnlyAt
<1>2. CASE LosesAt(p)
  <2>1. \A q \in Peers : HandledAt(q)' = HandledAt(q)
    BY <1>1, <1>2 DEF LosesAt
  <2>2. Times' = Times
    BY <2>1 DEF Times
  <2>3. CASE Waits(p)' <=> Waits(p)
    <3>1. Waiting' = Waiting
      BY <1>1, <2>3 DEF Waiting
    <3> QED
      BY <2>2, <3>1
  <2>4. CASE ~(Waits(p)' <=> Waits(p))
    <3>1. Waits(p) /\ ~Waits(p)'
      BY <1>2, <2>4 DEF LosesAt
    <3>2. p \in Waiting /\ Waiting' = Waiting \ {p}
      BY <1>1, <3>1 DEF Waiting
    <3> QED
      BY <2>2, <3>2
  <2> QED
    BY <2>3, <2>4
<1>3. CASE HandlesAt(p)
  <2>1. PICK k \in Attempts : HandledAt(p)' = {k}
    BY <1>3 DEF HandlesAt
  <2>2. Waits(p) /\ ~Waits(p)' /\ HandledAt(p) = {}
    BY <1>3, <2>1 DEF HandlesAt, Waits
  <2>3. p \in Waiting /\ Waiting' = Waiting \ {p}
    BY <1>1, <2>2 DEF Waiting
  <2>4. Cardinality(HandledAt(p)) = 0 /\ Cardinality(HandledAt(p)') = 1
    BY <2>1, <2>2, FS_EmptySet, FS_Singleton
  <2>5. Times' = [q \in Peers |-> Cardinality(HandledAt(q)')]
    BY DEF Times
  <2>6. \A q \in Peers : Times'[q] = IF q = p THEN Times[q] + 1 ELSE Times[q]
    BY <1>1, <2>4, <2>5 DEF Times
  <2>7. Times' = [Times EXCEPT ![p] = @ + 1]
    <3>1. Times = [q \in Peers |-> Times[q]] /\ Times' = [q \in Peers |-> Times'[q]]
      BY <2>5 DEF Times
    <3> HIDE DEF Times
    <3> QED
      BY <2>6, <3>1
  <2> QED
    BY <2>3, <2>7
<1> QED
  BY <1>2, <1>3 DEF OnlyAt

LEMMA AbstractStep ==
  ASSUME TInv, [Next]_vars
  PROVE  [Abstract!Next]_(Abstract!vars)
<1>1. (Waiting' = Waiting /\ Times' = Times) \/ \E p \in Peers : OnlyAt(p)
  <2>1. CASE UNCHANGED vars
    BY <2>1 DEF vars, Waiting, Times, Waits, HandledAt, Busy, Live, Reading
  <2>2. CASE Sender
    BY <2>2, SenderOnlyAt
  <2>3. ASSUME NEW p \in Peers, ListenerEnds(p) PROVE OnlyAt(p)
    BY <2>3, ListenerOnlyAt
  <2>4. ASSUME NEW p \in Peers, NEW k \in Attempts, Reader(p, k) PROVE OnlyAt(p)
    BY <2>4, ReaderIsStep, ReaderOnlyAt
  <2> QED
    BY <2>1, <2>2, <2>3, <2>4 DEF Next
<1>2. \/ Waiting' = Waiting /\ Times' = Times
      \/ \E p \in Peers :
           /\ p \in Waiting /\ Waiting' = Waiting \ {p}
           /\ Times' = Times \/ Times' = [Times EXCEPT ![p] = @ + 1]
  BY <1>1, OnlyAtIsAbstract
<1> QED
  BY <1>2 DEF Abstract!Next, Abstract!Handle, Abstract!Lose, Abstract!vars,
              Waiting, Times, Waits

LEMMA AbstractInit == Init => Abstract!Init
<1> SUFFICES ASSUME Init PROVE Abstract!Init
  OBVIOUS
<1>1. \A p \in Peers : HandledAt(p) = {} /\ Busy(p)
  BY DEF Init, HandledAt, Busy, NoConnection
<1>2. \A p \in Peers : Cardinality(HandledAt(p)) = 0
  BY <1>1, FS_EmptySet
<1> QED
  BY <1>1, <1>2 DEF Abstract!Init

(***************************************************************************)
(* Each peer handles the message once or not at all, wherever connect and  *)
(* sendall raise, whatever pieces of a frame a failed attempt leaves to    *)
(* its reader, and whenever listeners end (node.py:84, 115-130,            *)
(* utils.py:84-108).                                                       *)
(***************************************************************************)
THEOREM DeliversAtMostOnce == Spec => ImplementsDelivery
<1>1. TInv /\ [Next]_vars => [Abstract!Next]_(Abstract!vars)
  BY AbstractStep
<1> QED
  BY <1>1, AbstractInit, TInvariant, PTL DEF Spec, ImplementsDelivery, Abstract!Spec
=============================================================================
