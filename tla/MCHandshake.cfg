SPECIFICATION SideSpec
CONSTANTS
  Keys <- ThreeKeys
  Bad = 4
  Nodes <- Relays
  Flagged <- Trusted
  Stable <- Trusted
  Family <- Relatives
  EntrySets <- Entries
  ExcludeSets <- Excluded
  Lists <- Consensuses
  Nets <- Reached
  NumEntryGuards = 2
  MaxEvents = 1
CHECK_DEADLOCK FALSE
INVARIANTS LinkSound GuardsSound
PROPERTIES LinkOpens Comeback
