CONSTANTS
  Editor = {"dashboard", "bot"}
  MaxEdits = 2
  MaxTime = 2
SPECIFICATION FairSpec
INVARIANTS TypeOK OnePoster StaleIsReported
PROPERTIES ConfigConverges RefetchSettles
