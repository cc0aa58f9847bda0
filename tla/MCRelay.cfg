SPECIFICATION Spec
CONSTANTS
  c1 = c1
  c2 = c2
  c3 = c3
  k1 = k1
  k2 = k2
  Nil = Nil
  Circuits <- Two
  Origins <- None
  Conns <- Both
  OursLow <- Both
  NumIds = 1
  MaxCells = 2
  MaxOut = 2
  LowMark = 1
  HighMark = 2
  Patient = FALSE
CHECK_DEADLOCK FALSE
SYMMETRY Alike
INVARIANT TableSound
PROPERTY NoSilentEnd
