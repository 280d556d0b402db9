\* Every kind of caller at every kind of view; the world changes twice meanwhile.
SPECIFICATION Spec
CONSTANTS
  User = {"ann", "bob", "svc"}
  Project = {"p1", "p2"}
  Account = {"acc"}
  Vtex = {"store"}
  Token <- MCToken
  Holds <- MCHolds
  Carried <- MCCarried
  StandIn = {"svc"}
  Mutable <- MCMutable
  MaxChanges = 2
  None = None
  Initially <- MCInitially
  Required = {2, 3, 4}
INVARIANTS
  WeniTypeOK
  TenantFromToken
  NoImpersonation
  GrantHeld
  OneSubject
  StatusTellsWhy
CHECK_DEADLOCK FALSE
