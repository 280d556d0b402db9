\* A parameter whose name has an underscore.
SPECIFICATION DiscoverySpec
CONSTANTS
  Pattern <- MCPatterns
  ClassMark <- MCClassMark
  ActionMark <- MCActionMark
  Implemented <- MCImplemented
  Prefix <- MCPrefix
  PrefixService = "flows-service"
  Suffix = "json"
  Service <- MCService
  LuaName <- MCLuaName
  None = None
  MaxPatterns = 3
INVARIANTS
  CapturesReach
CHECK_DEADLOCK FALSE
