SPECIFICATION FairSpec
CONSTANTS
  c1 = c1
  c2 = c2
  c3 = c3
  k1 = k1
  k2 = k2
  Nil = Nil
  Circuits <- Three
  Origins <- Two
  Conns <- First
  OursLow <- First
  NumIds = 2
  MaxCells = 1
  MaxOut = 2
  LowMark = 1
  HighMark = 2
  Patient = FALSE
CHECK_DEADLOCK FALSE
PROPERTIES WaitersAnswered EveryTurnComes
