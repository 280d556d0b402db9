\* Prune deletes a route that carries the tag of another prefix.
SPECIFICATION Spec
CONSTANTS
  RouteName <- GuestRoutes
  AllowName <- GuestAllow
  Service <- MCService
  Url <- MCUrl
  Path <- MCPath
  Method <- MCMethod
  Tag <- MCTag
  PluginName <- MCPluginName
  Config <- MCConfig
  Client <- TwoJobs
  Sync <- TwoJobs
  SyncPrefix <- MCPrefix
  SyncService <- MCTarget
  Images <- GuestImages
  Options <- TwoJobsOptions
  Initially <- TwoJobsKongs
  Absent = Absent
  Unread = Unread
  MaxStarts = 1
PROPERTIES
  PruneStaysOnPrefix
CHECK_DEADLOCK FALSE
