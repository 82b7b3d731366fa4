CONSTANTS
  c1 = c1
  c2 = c2
  Caller = {c1, c2}
  MaxConnection = 2
  MaxCalls = 2
  MaxLinks = 1
  MaxMishaps = 1
SYMMETRY Symmetry
SPECIFICATION Spec
INVARIANTS TypeOK LastFetchCurrent OwnLinkCached FileSettles
CHECK_DEADLOCK FALSE
