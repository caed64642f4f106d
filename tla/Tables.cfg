SPECIFICATION Spec
CONSTANTS
  Entries <- MCEntries
  MaxEntries = 5
  CapList = 3
  CapMineList = 2
  CollapseRunning = 1
  MaxActionRunes = 120
  MaxLineRunes = 140
  Items <- MCItems
  MaxItems = 4
  Commands <- MCCommands
  Places <- MCPlaces
  HeadLists <- MCHeadLists
INVARIANTS
  EntriesAddUp
  OrderIsIrrelevant
  LinesFit
  OrderMattersToSevereOnly
  ReadInAnyOrder
  ScopeNeverWidens
  DirectoryHasNoSay
  StrangersHaveNoSay
PROPERTIES
  FirstSevereDecides
CHECK_DEADLOCK FALSE
