CONSTANTS
  Null = Null  b1 = b1  b2 = b2  t1 = t1  l1 = l1  m1 = m1  g1 = g1  n1 = n1  e1 = e1
  Base = {b1, b2}
  Tractor = {t1}
  Load = {l1}
  Machine = {m1}
  Rig = {g1}
  Neighbor = {n1}
  Entry = {e1}
  NeighborOf <- MCNeighborOf
  Opening <- MCOpening
  Day = {1, 2}
  Worked = {2}
  Hours = {3}
  Price = {4}
  Pct = {50}
  Rule <- MCRule
  Selection <- MCSelection
  MaxChanges = 2
  MaxEvents = 0
SPECIFICATION PricesSpec
PROPERTIES RepricedAsBooked
CHECK_DEADLOCK FALSE
CONSTRAINT Calm
