SPECIFICATION SideSpec
CONSTANTS
  Start = 24
  Limit = 24
  Increment = 6
  Initial = 15
  Checked = TRUE
  Eager = FALSE
  HeaderLen = 1
  Default = 4
  MinAlloc = 2
  MaxAlloc = 8
  MinRead = 2
  Bytes = 6
  MaxOp = 4
  Requests <- Applications
  Ports <- Http
  MaxAddr = 5
  MaxName = 40
  Bad = {34}
  Scenes <- Together
  Rate = 1
  Burst = 2
  Base = 1
  MinFlush = 2
  MaxData = 3
  MaxOthers = 1
  TimerErrors = FALSE
  Hard = 2
  SoftBytes = 1
  SoftMinutes = 1
  Length = 4
  PerSecond = 2
  Expectations = {0, 2}
  Months <- Calendar
  ShutdownWait = 2
  MaxNow = 7
  MaxEvents = 1
CHECK_DEADLOCK FALSE
INVARIANTS Conservation NeverKilled NeverOverfilled NeverWedged PipeSound SocksSound ConnectionsSound HibernatesRight
PROPERTY BuffersDrain
