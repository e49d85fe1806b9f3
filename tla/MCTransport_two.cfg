\* A peer that is up and one that is down, the real header and number of
\* attempts, and a body of two bytes: header and body both come in pieces.
CONSTANTS
  Peers = {p1, p2}
  Down = {p2}
  SOCKET_SEND_RETRIES = 2
  MSG_HEADER_SIZE = 4
  BodySize = 2
SPECIFICATION FairSpec
INVARIANTS TypeOK FailureIsReal
PROPERTIES ImplementsDelivery EverythingEnds
\* A broadcast ends.
CHECK_DEADLOCK FALSE
