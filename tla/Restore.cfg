\* Gate: two instances with two goroutines each and an offline restore: one
\* committed restore, one lost session or one crash or shutdown.  Backups: one
\* scheduler and one operator over three archives, two ticks of the clock, one
\* operator's run, one fault.
CONSTANTS
  Cli = Cli  None = None  Nothing = Nothing
  Instances = {i1, i2}
  Slots = {s1, s2}
  MaxLosses = 1
  MaxRestores = 1
  MaxStops = 1
  Tickers = {p1}
  Operators = {o1}
  Archives = {1, 2, 3}
  Keep = 2
  Retention = 2
  Backoff = 2
  RunLimit = 1
  Period = 2
  MaxTime = 3
  MaxRuns = 1
  MaxFaults = 1
SYMMETRY Symmetry
SPECIFICATION MCSpec
INVARIANTS DrainedWhileRestoring RestoreExcludesOthers RecoveryPointKept
PROPERTIES FailClosedIsFinal OffsiteKept AttemptsSpaced
CHECK_DEADLOCK FALSE
