SPECIFICATION Spec
CONSTANTS
  MaxBandwidth = 8
  Bits = 3
  Wide = 2
  LastPort = 4
  Cutoff = 2
  MaxSummary = 1
  s1 = s1
  s2 = s2
  host = host
  test = test
  Nil = Nil
  Servers = {s1, s2}
  Lookups = {host, test}
  Checks = {test}
  Configs <- BothServers
  MaxInflight = 1
  MaxTimeouts = 1
  MaxTransmits = 1
  MaxReissues = 1
  MaxProbes = 1
  MaxSearch = 0
INVARIANTS RequestsSound ConsensusRight ParsersRefuse PoliciesAgree PathsRight
CHECK_DEADLOCK FALSE
