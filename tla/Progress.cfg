\* Mail: one reminder and two senders.  Rules: two rules, one worker, one action of
\* the operator, one fault.
CONSTANTS
  Mail = {m1}
  Reminder = {m1}
  Message = {10}
  Settled = Settled
  Sender = {s1, s2}
  MaxAttempts = 2
  MaxRows = 1
  MaxRequests = 2
  MonthStarts <- ShortCalendar
  YearOf <- YearOfDay
  Rules = {1, 2}
  LedgerRules = {2}
  Workers = {w1}
  Week = 1
  CatchUp = 2
  Starts = {1}
  Ends = {2}
  MaxOps = 1
  MaxFaults = 1
SPECIFICATION MCSpec
PROPERTIES EveryMailSettles OutdatedNeverSent DueIsBookedOrExplained
CHECK_DEADLOCK FALSE
