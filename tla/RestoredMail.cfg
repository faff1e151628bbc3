\* One instance with one goroutine: one committed restore, one crash.
CONSTANTS
  i1 = i1  i2 = i2  s1 = s1  s2 = s2
  Cli = Cli  None = None
  Instances = {i1}
  Slots = {s1}
  MaxLosses = 0
  MaxRestores = 1
  MaxStops = 1
SPECIFICATION Spec
INVARIANT RestoredMailHeld
