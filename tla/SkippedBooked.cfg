\* One rule and one tick; the operator may act once.
CONSTANTS
  Rules = {1}
  LedgerRules = {}
  Workers = {w1}
  MonthStarts <- ShortCalendar
  Week = 1
  YearOf <- YearOfDay
  CatchUp = 2
  Starts = {1}
  Ends = {4}
  MaxOps = 1
  MaxFaults = 0
SPECIFICATION SeriesSpec
PROPERTIES SkippedNeverBooked
CHECK_DEADLOCK FALSE
