CONSTANTS
  Biome = {"NORMAL", "HELL"}
  HoverText = {"NORMAL", "normal", "HELL", "blank"}
  Canonical <- Spelling
  Place = {1, 2}
  User = {"u"}
  NoBiome = ""
  NoUser = ""
  Instance = {"a.log"}
  Lines <- MCLines
  PlaceLists <- MCPlaceLists
  MaxLines = 4
SPECIFICATION Spec
INVARIANTS TypeOK StreamMatches
