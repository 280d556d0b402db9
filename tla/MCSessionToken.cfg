\* One token, three workers, a clock that outlasts the window of the cache.
SPECIFICATION Spec
CONSTANTS
  Token = {t1}
  Expiry <- MCExpiry
  Service <- MCService
  Connect = "connect"
  Request <- MCRequest
  ServedBy <- MCServedBy
  MaxTtl = 2
  Second = 2
  Flight = 1
  Lag = 1
  Horizon = 8
  Absent = Absent
  Never = Never
  Unreadable = Unreadable
INVARIANTS
  SessionTypeOK
  CacheBounded
PROPERTIES
  ImplementsContract
CHECK_DEADLOCK FALSE
