\* A run that dies and one of another alias.
SPECIFICATION Spec
CONSTANTS
  Alias = {"flows", "nexus"}
  Path = {"/a", "/b", "/c"}
  Tag = {"Messages", "Contacts"}
  Part = {"security", "Cursor"}
  Value = {"weni", "other"}
  Item <- MCItem
  TagsOf <- MCTagsOf
  Headline <- MCHeadline
  Shared <- MCShared
  Fragments <- MCFragments
  MaxRuns = 2
  MaxEdits = 0
  None = None
  Missing = Missing
  Torn = Torn
PROPERTIES
  ConflictsRefused
CHECK_DEADLOCK FALSE
