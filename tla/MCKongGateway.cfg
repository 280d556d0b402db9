\* Two services that share an alias, each deployed twice at the same time; or two
\* replicas that onboard one of them while it is deployed.  Any of them may die anywhere.
SPECIFICATION GatewayFairSpec
CONSTANTS
  RouteName <- GatewayRoutes
  AllowName <- RaceAllow
  Service <- MCService
  Url <- GatewayUrls
  Path <- MCPath
  Method <- MCMethod
  Tag <- MCTag
  PluginName <- MCPluginName
  Config <- MCConfig
  Client <- GatewayClients
  Sync <- TwoJobs
  SyncPrefix <- MCPrefix
  SyncService <- MCTarget
  Images <- TwoJobsImages
  Options <- TwoJobsOptions
  Initially <- GatewayKongs
  Absent = Absent
  Unread = Unread
  MaxStarts = 2
  Ensure <- Replicas
  EnsureService <- OnboardService
  EnsureUrl <- OnboardUrl
  EnsurePrefix <- OnboardPrefix
  BlockName <- OnboardBlock
  EnsuredKongs <- GatewayKongs
  MaxEnsures = 2
INVARIANTS
  EnsureTypeOK
  EnsuredClosed
  PrivateConverged
PROPERTIES
  StaysClosed
  RaceOnboards
  Termination
CONSTRAINT Scenario
CHECK_DEADLOCK FALSE
