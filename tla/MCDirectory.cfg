SPECIFICATION SideSpec
CONSTANTS
  relay = relay
  Nil = Nil
  Descs <- ThreeDescs
  Extras <- AnExtra
  Consensuses <- TwoConsensuses
  Owner <- OneOwner
  ExtraOf <- SharedExtra
  JournalMax = 1
  JournalEnd = 2
  NotCached = {2}
  MaxErrors = 1
  Auths = {v1, v2, v3}
  MaxInterval = 1
  MaxRestarts = 1
INVARIANTS StoreSound OneConsensus
PROPERTY NothingLost
SYMMETRY Symmetry
CHECK_DEADLOCK FALSE
