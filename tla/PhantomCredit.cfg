\* One booking, one free credit, no money and no posting at all.
CONSTANTS
  n1 = n1  e1 = e1  k1 = k1  k2 = k2
  Year = {1}
  Neighbor = {n1}
  Entry = {e1}
  AccountOf <- MCAccountOf
  Cost = {100}
  CreditAmount = {70}
  PostedSum = {0}
  VatRate = {20}
  InvoiceStart = 1
  MaxDocs = 1
  LastDay = 1
  FormKey = {k1}
  NoKey = NoKey
  PaymentAmount = {}
  PostingAmount = {}
  SkontoPct = {}
  MaxPayments = 0
  MaxPostings = 0
SPECIFICATION SeasonSpec
INVARIANT OnlyPaymentsMakeCredit
