\* Prune deletes by name a route that another service has claimed since.
SPECIFICATION Spec
CONSTANTS
  RouteName <- TwoJobsRoutes
  AllowName <- TwoJobsAllow
  Service <- MCService
  Url <- MCUrl
  Path <- MCPath
  Method <- MCMethod
  Tag <- MCTag
  PluginName <- MCPluginName
  Config <- MCConfig
  Client <- TwoJobs
  Sync <- TwoJobs
  SyncPrefix <- MCPrefix
  SyncService <- MCTarget
  Images <- TwoJobsImages
  Options <- TwoJobsOptions
  Initially <- TwoJobsKongs
  Absent = Absent
  Unread = Unread
  MaxStarts = 1
PROPERTIES
  PruneStaysOnService
CHECK_DEADLOCK FALSE
