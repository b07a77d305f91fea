SPECIFICATION SuiteSpec
CONSTANTS
  Parts = {"loop", "timers", "log"}
  Threads = {t1, t2}
  Channels = {c1, c2}
  kEventListSize = 1
  MaxFunctors = 3
  MaxEvents = 3
  Addrs = {a1, a2}
  MaxCreated = 3
  End = 2
  Intervals = {0, 1}
  Windows = FALSE
  RollSize = 5
  CheckEveryN = 2
  FlushInterval = 1
  Day = 2
  LineLengths = {1, 2}
  MaxLines = 4
  BufferSize = 4
  MaxTime = 5
  MayStop = TRUE
SYMMETRY Symmetric
INVARIANTS
  FunctorsInOrder
  NoSleepOnFunctor
  TimersKept
  LinesInOrder
