\* Rules: one counterclaim rule, two workers, two actions of the operator or one
\* and a fault.
\* Mail: two e-mails, one of them a reminder, compete for a queue with room for one
\* undelivered payload; two senders, two requests.
\* Bank: two statements, two commits, three invoices of two accounts.
CONSTANTS
  Rules = {1}
  LedgerRules = {1}
  Workers = {p1, p2}
  MonthStarts <- ShortCalendar
  Week = 1
  YearOf <- YearOfDay
  CatchUp = 2
  Starts = {1}
  Ends = {2, 4}
  MaxOps = 2
  MaxFaults = 1
  Mail = {m1, m2}
  Reminder = {m1}
  Message = {10}
  Settled = Settled
  Sender = {p1, p2}
  MaxAttempts = 2
  MaxRows = 1
  MaxRequests = 2
  c1 = c1  c2 = c2
  Invoice = {1, 2, 3}
  AccountOf <- MCAccountOf
  Gross <- MCGross
  Txn = {c1, c2}
  Reference <- MCReference
  Payers <- MCPayers
  Statement <- MCStatement
  Content <- MCContent
  Ledger <- MCLedger
  Standalone <- MCStandalone
  Opening <- MCOpening
  Request = {p1, p2}
  CashAmount = {60}
  CreditAmount = {50}
  MaxPayments = 3
  MaxEvents = 2
SYMMETRY Symmetry
SPECIFICATION MCSpec
INVARIANTS BookedOnce AttemptsClosed QueueBounded ImportedOnce AllocationAddsUp
PROPERTIES KeepsPromise BooksOpenAccountsOnly NeverPassesUnbooked
CHECK_DEADLOCK FALSE
