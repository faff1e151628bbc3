\* Every question of the accounts: what the instances may do is in MCAccounts.
CONSTANTS
  n1 = n1  n2 = n2  e1 = e1  e2 = e2  k1 = k1  k2 = k2
  Year = {1, 2}
  Neighbor = {n1, n2}
  Entry = {e1, e2}
  AccountOf <- MCAccountOf
  Cost = {100, 205}
  CreditAmount = {50, 70, 72}
  PostedSum = {0}
  VatRate = {0, 20}
  InvoiceStart = 7
  MaxDocs = 4
  LastDay = 2
  FormKey = {k1, k2}
  NoKey = NoKey
  PaymentAmount = {48, 50}
  PostingAmount = {30}
  SkontoPct = {60}
  MaxPayments = 2
  MaxPostings = 3
SPECIFICATION MCSpec
INVARIANTS TypeOK FrozenSourcesIntact CreditsWithinInvoice JournalBalances SequencesGapless NumbersUnique TransfersPaired
PROPERTIES ConfirmedIssue ClosedYearFrozen DatedInOrder SettlesExactly InvoiceAddsOnlyItsTax
