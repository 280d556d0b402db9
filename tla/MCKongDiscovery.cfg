\* Resolvers of up to three patterns, read by both commands.
SPECIFICATION DiscoverySpec
CONSTANTS
  Pattern <- MCPatterns
  ClassMark <- MCClassMark
  ActionMark <- MCActionMark
  Implemented <- MCImplemented
  Prefix <- MCPrefix
  PrefixService = "flows-service"
  Suffix = "json"
  Service <- MCService
  LuaName <- MCLuaName
  None = None
  MaxPatterns = 3
INVARIANTS
  DiscoveryTypeOK
  InventoryAgrees
  OverwritesReported
  RewriteReaches
  PublicPathIsOwn
CHECK_DEADLOCK FALSE
