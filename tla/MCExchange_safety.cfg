\* Two requests, their responses, a late RST_STREAM, a lost connection and a
\* Write task that dies inside Dequeue; what follows the queueing is fair.
SPECIFICATION FairSpec
CONSTANTS
  Senders <- Both
  Request <- BothRequests
  Response <- BothResponses
INVARIANTS ExchangeInv WholeResponse CreditConserved
PROPERTIES SendEnds
CHECK_DEADLOCK FALSE
