SPECIFICATION SideSpec
CONSTANTS
  s0 = s0
  s1 = s1
  s2 = s2
  c1 = c1
  c2 = c2
  Nil = Nil
  MaxPending = 2
  MaxTries = 1
  Streams <- OneStream
  Circuits <- ThreeCircuits
  Answers <- TwoAnswers
  Points = {p, q}
  Dirs = {d}
  Wanted = 1
  MaxFails = 1
  MaxUnreach = 2
  MaxPosts = 1
  Slow = {2}
  Builds <- OneCircuit
  N = 2
  MaxTime = 2
  IntMax = 6
  BinWidth = 2
  MinCircs = 1
  MaxTimeouts = 2
  InitialTimeout = 3
  MinTimeout = 2
  RecentCounts <- Recents
  DefaultRecent = 2
  AllMayFail = FALSE
  MaxEvents = 1
INVARIANTS StreamsSound Introduced TimesSound
CHECK_DEADLOCK FALSE
SYMMETRY Symmetry
