\* One service deployed three times from any Kong of LateKongs; a run may die
\* anywhere and its last request arrive later.
SPECIFICATION LateSpec
CONSTANTS
  RouteName <- LateRoutes
  AllowName <- LateAllow
  Service <- MCService
  Url <- MCUrl
  Path <- MCPath
  Method <- MCMethod
  Tag <- MCTag
  PluginName <- MCPluginName
  Config <- MCConfig
  Client <- OneJob
  Sync <- OneJob
  SyncPrefix <- MCPrefix
  SyncService <- MCTarget
  Images <- LateImages
  Options <- LateOptions
  Initially <- LateKongs
  Absent = Absent
  Unread = Unread
  MaxStarts = 3
  MaxLate = 2
INVARIANTS
  TypeOK
  Converged
  DryRunPredicts
  DryRunWritesNothing
  PruneWithinLimit
PROPERTIES
  WritesOnlyDrift
  HandMadeKept
  PruneSparesDeclared
  NeverAddsSecondRewriter
CONSTRAINT Scenario
CHECK_DEADLOCK FALSE
