\* The same requests, for what a client is told of a session that is not accepted.
SPECIFICATION Spec
CONSTANTS
  User = {"ann", "bob", "svc"}
  Project = {"p1", "p2"}
  Account = {"acc"}
  Vtex = {"store"}
  Token <- MCToken
  Holds <- MCHolds
  Carried <- MCCarried
  StandIn = {"svc"}
  Mutable <- MCMutable
  MaxChanges = 2
  None = None
  Initially <- MCInitially
  Required = {2, 3, 4}
INVARIANTS
  UnauthenticatedIsForbidden
CHECK_DEADLOCK FALSE
