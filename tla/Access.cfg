\* Accounts: two accounts, two requests at a time and two in all.  Audit: three rows,
\* two days, two backups, one restore.  Prices: one of every item, two bases, one booking.
CONSTANTS
  None = None  NoHeads = NoHeads  Null = Null
  b1 = b1  b2 = b2  t1 = t1  l1 = l1  m1 = m1  g1 = g1  n1 = n1  e1 = e1
  Accounts = {a1, a2}
  Workers = {w1, w2}
  Keys = {k1}
  MaxFails = 2
  MaxRequests = 2
  MaxClock = 2
  RowId <- MCRow
  LastDay = 2
  Window <- MCWindow
  Batch = 2
  MaxDumps = 2
  MaxRestores = 1
  Base = {b1, b2}
  Tractor = {t1}
  Load = {l1}
  Machine = {m1}
  Rig = {g1}
  Neighbor = {n1}
  Entry = {e1}
  NeighborOf <- MCNeighborOf
  Opening <- MCOpening
  Day = {1, 2}
  Worked = {2}
  Hours = {3}
  Price = {4}
  Pct = {50}
  Rule <- MCRule
  Selection <- MCSelection
  MaxChanges = 2
  MaxEvents = 1
SYMMETRY Symmetry
SPECIFICATION MCSpec
CONSTRAINT CalmAll
INVARIANTS AdminRemains DeactivatedHoldsNothing ProofUsedOnce NoFalseAlarm OwnBackupsPass
PROPERTIES PreviewHolds FrozenPrices
CHECK_DEADLOCK FALSE
