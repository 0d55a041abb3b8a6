\* Every endpoint from every state, and two requests for one connection each.
CONSTANTS
  b = b  s = s  x = x
  Buyer = b
  Seller = s
  Stranger = x
  Start <- States
  Request <- Requests
  MaxRequests = 2
  Together <- Meet
  MaxConns = 1
SPECIFICATION Spec
INVARIANTS
  RefusalsAreClean
  OnlyFaultsFail
  AnswersWithinContract
  ContactsStayBetweenParties
PROPERTY
  EveryRequestAnswered
\* Clients stop after MaxRequests requests.
CHECK_DEADLOCK FALSE
