\* Four runs in any order, each of which may die anywhere, and an edit by hand.
SPECIFICATION Spec
CONSTANTS
  Alias = {"flows", "nexus"}
  Path = {"/a", "/b", "/c"}
  Tag = {"Messages", "Contacts"}
  Part = {"security", "Cursor"}
  Value = {"weni", "other"}
  Item <- MCItem
  TagsOf <- MCTagsOf
  Headline <- MCHeadline
  Shared <- MCShared
  Fragments <- MCFragments
  MaxRuns = 4
  MaxEdits = 1
  None = None
  Missing = Missing
  Torn = Torn
INVARIANTS
  MergeTypeOK
  OnePathOneAlias
  OthersKept
  PartsResolve
  TagsDeclared
  NoOrphans
  RerunIsNoop
  RetryRepairs
CHECK_DEADLOCK FALSE
