CONSTANTS
  Biome = {"NORMAL", "HELL"}
  HoverText = {"NORMAL", "HELL"}
  Canonical <- Spelling
  Place = {1}
  User = {}
  NoBiome = ""
  NoUser = ""
  Dir = {"d1", "d2"}
  FirstDir = "d1"
  DirOf <- Directory
  Lines <- MCLines
  File = {"a.log", "b.log"}
  MaxHalves = 4
  MaxMishaps = 1
  MaxChanges = 1
SPECIFICATION FairWatcherSpec
INVARIANTS WatcherTypeOK ReadsEachLineOnce ToldInTurn
PROPERTIES CatchesUp
CHECK_DEADLOCK FALSE
