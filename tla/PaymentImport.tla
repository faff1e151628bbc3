---------------------------- MODULE PaymentImport ----------------------------
(***************************************************************************)
(* Bank statements become payments, and payments are spread over invoices  *)
(* (server/payment_import.go, store/payment_import_batches.go,             *)
(* store/bank.go, bankimport/bankimport.go, server/payments_handlers.go,   *)
(* store/invoice_allocation_plan.go, store/invoice_allocations.go).        *)
(*                                                                         *)
(* A statement is parked by its preview and committed by a request that    *)
(* reads which credits were seen, matches the rest, records a batch with a *)
(* row per credit and then books row by row, each in a transaction of its  *)
(* own.  Requests overlap, die between two rows, and meet storno, erasure  *)
(* and reversal.  The spreading is a pure function of the account.         *)
(***************************************************************************)
EXTENDS Integers, FiniteSets, SequencesExt

CONSTANTS
  Invoice,      \* invoice ids 1, 2, ... in the order of issue
  AccountOf,    \* [Invoice -> <<year, neighbor>>]
  Gross,        \* [Invoice -> Int], negative for a historical surplus
  Txn,          \* what a credit says: date, text and payer
  Reference,    \* [Txn -> the invoice named in the text, or 0]
  Payers,       \* [Txn -> the neighbors whose master data has the IBAN]
  Statement,    \* files, by name
  Content,      \* [Statement -> [format, entries]], see Parse
  Request,      \* commits, each recording one batch
  Ledger,       \* [account -> signed net of its postings]
  Standalone,   \* [account -> sum of its credit notes without an invoice]
  Opening,      \* the invoices issued before the first step, as [Invoice -> status]
  CashAmount,   \* amounts of payments entered by hand
  CreditAmount, \* amounts of credit notes on an invoice
  MaxPayments,  \* bound: payments ever recorded
  MaxEvents     \* bound: changes by the operator, expiries and faults

\* The lines of a file: what the bank says of one movement and its details.
ASSUME EntriesShaped ==
  /\ Invoice = 1..Cardinality(Invoice)
  /\ Content \in [Statement -> [format : {"camt", "csv", "mt940"},
       entries : Seq([side : {"credit", "debit", "reversal"}, currency : {"EUR", "other"},
                      amount : Nat, bankRef : STRING,
                      details : Seq([txn : Txn, amount : Nat]) \ {<<>>}])]]

VARIABLES
  invoices,     \* [Invoice -> "planned" | "issued" | "canceled"]
  credited,     \* [Invoice -> sum of the standing credit notes attached to it]
  anonymized,   \* set of erased neighbors
  parked,       \* statements whose preview has not expired
  hashes,       \* payment_imports
  payments,     \* sequence of payment rows, the id is the index
  commits,      \* [Request -> where its commit stands]
  batches,      \* [Request -> status and rows of the batch it records]
  events        \* changes, expiries and faults so far

documents == <<invoices, credited, anonymized>>
import == <<parked, commits, batches>>
importVars == <<invoices, credited, anonymized, parked, hashes, payments, commits,
          batches, events>>

Account == {AccountOf[i] : i \in Invoice}
Neighbor == {a[2] : a \in Account}
NoBatch == [status |-> "none", rows |-> <<>>]
Away == [pc |-> "idle", file |-> "", seen |-> {}, at |-> 0]

Event == events < MaxEvents /\ events' = events + 1

ImportInit ==
  /\ invoices \in Opening
  /\ credited = [i \in Invoice |-> 0]
  /\ anonymized = {} /\ parked = {} /\ hashes = {} /\ payments = <<>>
  /\ commits = [r \in Request |-> Away]
  /\ batches = [r \in Request |-> NoBatch]
  /\ events = 0

-----------------------------------------------------------------------------
(* Reading a statement *)

\* Only money received, and of camt only what says it is euro.
IsCredit(format, e) ==
  /\ e.side = "credit" /\ e.amount > 0
  /\ format = "camt" => e.currency = "EUR"

\* The bank's own reference when there is one, else what the credit says.
Key(e, txn, amount, detail) ==
  IF e.bankRef # "" THEN [ref |-> e.bankRef, detail |-> detail]
  ELSE [txn |-> txn, amount |-> amount]

Single(e) ==
  LET txn == e.details[1].txn IN
  [txn |-> txn, amount |-> e.amount, key |-> Key(e, txn, e.amount, 0)]

\* A batch entry is split when every detail states its amount and they account
\* for the whole entry; otherwise it is left out.
SplitBatch(e) ==
  IF /\ \A j \in DOMAIN e.details : e.details[j].amount > 0
     /\ SumFunction([j \in DOMAIN e.details |-> e.details[j].amount]) = e.amount
  THEN [j \in DOMAIN e.details |->
          LET d == e.details[j]
          IN [txn |-> d.txn, amount |-> d.amount, key |-> Key(e, d.txn, d.amount, j)]]
  ELSE <<>>

EntryCredits(format, e) ==
  IF ~IsCredit(format, e) THEN <<>>
  ELSE IF format = "camt" /\ Len(e.details) > 1 THEN SplitBatch(e)
  ELSE <<Single(e)>>

Parse == [file \in Statement |->
  LET lines == Content[file].entries IN
  FlattenSeq([k \in DOMAIN lines |-> EntryCredits(Content[file].format, lines[k])])]

\* The k-th of several equal credits in one file carries its own hash.
Hash == [file \in Statement |->
  LET credits == Parse[file] IN
  [k \in DOMAIN credits |->
     [key |-> credits[k].key,
      nth |-> Cardinality({j \in 1..k : credits[j].key = credits[k].key})]]]

Hashes(file) == Range(Hash[file])

\* Issued invoices of neighbors that still exist: match targets, and the list
\* offered for assignment by hand.
Targets ==
  {i \in Invoice : invoices[i] = "issued" /\ AccountOf[i][2] \notin anonymized}

\* An IBAN names a neighbor only when exactly one carries it, and an account
\* only when that neighbor has invoices of one year.
IbanAccounts(t) ==
  LET carriers == Payers[t] \ anonymized
      accounts == {AccountOf[i] : i \in {j \in Targets : AccountOf[j][2] \in carriers}}
  IN IF Cardinality(carriers) = 1 /\ Cardinality(accounts) = 1 THEN accounts ELSE {}

Unmatched == [acct |-> <<>>, invoice |-> 0]

\* Reference first, then payer IBAN, then the assignment from the preview.
MatchTxn(t, assigned) ==
  IF Reference[t] \in Targets
  THEN [acct |-> AccountOf[Reference[t]], invoice |-> Reference[t]]
  ELSE IF IbanAccounts(t) # {}
  THEN [acct |-> CHOOSE a \in IbanAccounts(t) : TRUE, invoice |-> 0]
  ELSE IF assigned \in Targets
  THEN [acct |-> AccountOf[assigned], invoice |-> assigned]
  ELSE Unmatched

ImportRow(hash, amount, seen, match) ==
  [hash |-> hash, amount |-> amount, acct |-> match.acct, invoice |-> match.invoice,
   status |-> IF hash \in seen THEN "duplicate"
              ELSE IF match = Unmatched THEN "unmatched" ELSE "pending",
   payment |-> 0, reversal |-> 0]

-----------------------------------------------------------------------------
(* The commit *)

\* The preview parks the file; previews expire or are purged.
SaveImportUpload(file) ==
  /\ file \notin parked
  /\ parked' = parked \cup {file}
  /\ UNCHANGED <<documents, hashes, payments, commits, batches, events>>

PurgeUpload(file) ==
  /\ file \in parked /\ Event
  /\ parked' = parked \ {file}
  /\ UNCHANGED <<documents, hashes, payments, commits, batches>>

\* LoadImportUpload does not consume the token: the form can be sent again.
SeenPaymentHashes(r, file) ==
  /\ commits[r].pc = "idle" /\ file \in parked
  /\ commits' = [commits EXCEPT ![r] =
       [pc |-> "seen", file |-> file, seen |-> Hashes(file) \cap hashes, at |-> 0]]
  /\ UNCHANGED <<documents, parked, hashes, payments, batches, events>>

\* The loop passes over rows that were seen before or matched nothing.
NextPending(rows, k) ==
  Min({j \in k..Len(rows) : rows[j].status = "pending"} \cup {Len(rows) + 1})

\* Matching reads the targets after the seen hashes; the batch keeps what it saw.
CreatePaymentImportBatch(r, assigned) ==
  LET file == commits[r].file
      credits == Parse[file]
  IN
  /\ commits[r].pc = "seen"
  /\ batches' = [batches EXCEPT ![r] =
       [status |-> "processing",
        rows |-> [k \in DOMAIN credits |->
                    ImportRow(Hash[file][k], credits[k].amount, commits[r].seen,
                              MatchTxn(credits[k].txn, assigned))]]]
  /\ commits' = [commits EXCEPT ![r].pc = "booking",
                    ![r].at = NextPending(batches'[r].rows, 1)]
  /\ UNCHANGED <<documents, parked, hashes, payments, events>>

RowAt(r) == batches[r].rows[commits[r].at]
AtRow(r) == commits[r].pc = "booking" /\ commits[r].at \in DOMAIN batches[r].rows
Stored(r, k, row) == [batches EXCEPT ![r].rows[k] = row]
Advance(r) ==
  commits' = [commits EXCEPT ![r].pc = "booking",
                 ![r].at = NextPending(batches[r].rows, @ + 1)]

\* lockAccountBoundary and the check of the matched invoice, under the lock.
Bookable(row) ==
  /\ row.acct[2] \notin anonymized
  /\ row.invoice # 0 => invoices[row.invoice] = "issued"

Payment(acct, amount, day, preferred, of, source) ==
  [acct |-> acct, amount |-> amount, day |-> day, preferred |-> preferred,
   of |-> of, source |-> source, deleted |-> FALSE]

NoSource == [key |-> [txn |-> "none"], nth |-> 0]
Room == Len(payments) < MaxPayments

\* The hash, the payment and the row's outcome are one transaction.
BookRow(r) ==
  LET row == RowAt(r)
      id == Len(payments) + 1
  IN /\ AtRow(r) /\ row.status = "pending" /\ Room
     /\ row.hash \notin hashes /\ Bookable(row)
     /\ hashes' = hashes \cup {row.hash}
     /\ payments' = Append(payments, Payment(row.acct, row.amount, 1, row.invoice,
                                             0, row.hash))
     /\ batches' = Stored(r, commits[r].at,
                          [row EXCEPT !.status = "booked", !.payment = id])
     /\ Advance(r)
     /\ UNCHANGED <<documents, parked, events>>

\* Another import booked the hash since it was read.
FindDuplicate(r) ==
  LET row == RowAt(r) IN
  /\ AtRow(r) /\ row.status = "pending" /\ row.hash \in hashes
  /\ batches' = Stored(r, commits[r].at, [row EXCEPT !.status = "duplicate"])
  /\ Advance(r)
  /\ UNCHANGED <<documents, parked, hashes, payments, events>>

Refused(r) ==
  AtRow(r) /\ RowAt(r).status = "pending" /\ RowAt(r).hash \notin hashes
           /\ ~Bookable(RowAt(r))

\* Faulty variant: the refusal rolls back the payment but not the hash.
RefuseRowKeepingHash(r) ==
  /\ Refused(r)
  /\ hashes' = hashes \cup {RowAt(r).hash}
  /\ commits' = [commits EXCEPT ![r].pc = "skip"]
  /\ UNCHANGED <<documents, parked, payments, batches, events>>

\* A business refusal rolls the transaction back, the hash included ...
RefuseRow(r) ==
  /\ Refused(r)
  /\ commits' = [commits EXCEPT ![r].pc = "skip"]
  /\ UNCHANGED <<documents, parked, hashes, payments, batches, events>>

\* ... and a statement of its own marks the row.
MarkPaymentImportRowSkipped(r) ==
  /\ commits[r].pc = "skip"
  /\ batches' = Stored(r, commits[r].at, [RowAt(r) EXCEPT !.status = "skipped"])
  /\ Advance(r)
  /\ UNCHANGED <<documents, parked, hashes, payments, events>>

FinishPaymentImportBatch(r) ==
  /\ commits[r].pc = "booking" /\ ~AtRow(r)
  /\ batches' = [batches EXCEPT ![r].status = "completed"]
  /\ commits' = [commits EXCEPT ![r].pc = "done"]
  /\ UNCHANGED <<documents, parked, hashes, payments, events>>

\* An infrastructure error ends the request; the batch is marked failed, or
\* stays "processing" when the process or the database is gone.
AbortCommit(r) ==
  /\ commits[r].pc \in {"booking", "skip"} /\ Event
  /\ \E mark \in {"failed", "processing"} :
       batches' = [batches EXCEPT ![r].status = mark]
  /\ commits' = [commits EXCEPT ![r].pc = "done"]
  /\ UNCHANGED <<documents, parked, hashes, payments>>

\* An equal negative payment; the imported payment, its row and its hash stay.
ReverseImportedPayment(r, k) ==
  LET row == batches[r].rows[k]
      paid == payments[row.payment]
  IN /\ row.status = "booked" /\ row.reversal = 0 /\ Room
     /\ row.acct[2] \notin anonymized
     /\ payments' = Append(payments,
          Payment(row.acct, -paid.amount, 2, 0, row.payment, NoSource))
     /\ batches' = Stored(r, k, [row EXCEPT !.status = "reversed",
                                            !.reversal = Len(payments) + 1])
     /\ UNCHANGED <<documents, parked, hashes, commits, events>>

-----------------------------------------------------------------------------
(* Payments entered by hand *)

Standing(a) == {i \in Invoice : AccountOf[i] = a /\ invoices[i] = "issued"}

\* preferred is the invoice chosen on the form, 0 for oldest first.
PaymentAdd(a, amount, day, preferred) ==
  /\ Room /\ a[2] \notin anonymized /\ preferred \in Standing(a) \cup {0} /\ Event
  /\ payments' = Append(payments, Payment(a, amount, day, preferred, 0, NoSource))
  /\ UNCHANGED <<documents, import, hashes>>

\* Faulty variant: money from the bank is treated like money typed in.
MutablePaymentAny(p) == payments[p].acct[2] \notin anonymized

\* Imported money and its counter-entries are evidence.
MutablePayment(p) ==
  /\ payments[p].acct[2] \notin anonymized
  /\ payments[p].source = NoSource /\ payments[p].of = 0

SetPaymentDeleted(p, deleted) ==
  /\ MutablePayment(p) /\ payments[p].deleted # deleted /\ Event
  /\ payments' = [payments EXCEPT ![p].deleted = deleted]
  /\ UNCHANGED <<documents, import, hashes>>

PaymentUpdate(p, amount, day) ==
  /\ MutablePayment(p) /\ ~payments[p].deleted /\ Event
  /\ payments' = [payments EXCEPT ![p].amount = amount, ![p].day = day]
  /\ UNCHANGED <<documents, import, hashes>>

-----------------------------------------------------------------------------
(* What documents do to it *)

IssueInvoice(i) ==
  /\ invoices[i] = "planned" /\ AccountOf[i][2] \notin anonymized /\ Event
  /\ \A j \in Invoice : AccountOf[j] = AccountOf[i] /\ j < i => invoices[j] # "planned"
  /\ invoices' = [invoices EXCEPT ![i] = "issued"]
  /\ UNCHANGED <<credited, anonymized, import, hashes, payments>>

Larger(x, y) == IF x >= y THEN x ELSE y
Smaller(x, y) == IF x <= y THEN x ELSE y

GutschriftInvoice(i, amount) ==
  /\ invoices[i] = "issued" /\ AccountOf[i][2] \notin anonymized /\ Event
  /\ credited[i] + amount <= Larger(Gross[i], 0)
  /\ credited' = [credited EXCEPT ![i] = @ + amount]
  /\ UNCHANGED <<invoices, anonymized, import, hashes, payments>>

\* The storno takes the attached credit notes with it.
StornoInvoice(i) ==
  /\ invoices[i] = "issued" /\ AccountOf[i][2] \notin anonymized /\ Event
  /\ invoices' = [invoices EXCEPT ![i] = "canceled"]
  /\ credited' = [credited EXCEPT ![i] = 0]
  /\ UNCHANGED <<anonymized, import, hashes, payments>>

AnonymizePayer(n) ==
  /\ n \notin anonymized /\ Event
  /\ anonymized' = anonymized \cup {n}
  /\ UNCHANGED <<invoices, credited, import, hashes, payments>>

-----------------------------------------------------------------------------
(* Spreading an account's money over its invoices *)

InOrder(ids) == SelectSeq([i \in 1..Cardinality(Invoice) |-> i], LAMBDA i : i \in ids)
Live(a) == {p \in DOMAIN payments : payments[p].acct = a /\ ~payments[p].deleted}
Outstanding(i) == Gross[i] - credited[i]
SumOver(f) == FoldLeft(LAMBDA sum, i : sum + f[i], 0, InOrder(DOMAIN f))

\* A canceled choice releases the payment to oldest first.
Preferred(p) ==
  IF payments[p].preferred # 0 /\ invoices[payments[p].preferred] = "issued"
  THEN <<payments[p].preferred>> ELSE <<>>

Reversals(p) == {q \in DOMAIN payments : payments[q].of = p /\ ~payments[q].deleted}

\* What allocationPaymentInputs and allocationNetPayments refuse to plan with.
PairedReversal(a, p) ==
  LET of == payments[p].of IN
  /\ of \in Live(a) /\ payments[of].of = 0
  /\ payments[of].amount = -payments[p].amount
  /\ Reversals(of) = {p}

UsablePayment(a, p) ==
  LET pay == payments[p] IN
  /\ pay.amount # 0
  /\ IF pay.of = 0 THEN pay.amount > 0 ELSE pay.amount < 0 /\ PairedReversal(a, p)
  /\ pay.preferred # 0 =>
       AccountOf[pay.preferred] = a /\ invoices[pay.preferred] # "planned"

\* What allocationInvoiceInputs and the planner refuse of documents.
UsableCredits(a) ==
  \A i \in Invoice : AccountOf[i] = a =>
    /\ credited[i] # 0 => invoices[i] = "issued"
    /\ credited[i] <= Larger(Gross[i], 0)

PlannerAccepts(a) == UsableCredits(a) /\ \A p \in Live(a) : UsablePayment(a, p)

\* Payments without a counter-entry, by day and id.
NetPayments(a) ==
  SetToSortSeq({p \in Live(a) : payments[p].of = 0 /\ Reversals(p) = {}},
               LAMBDA p, q : \/ payments[p].day < payments[q].day
                             \/ payments[p].day = payments[q].day /\ p < q)

\* Moves what fits from `left` onto invoice i, on behalf of `payer`.
Apply(acc, i, payer) ==
  LET part == Smaller(acc.left, acc.remaining[i]) IN
  IF part <= 0 THEN acc
  ELSE [left |-> acc.left - part,
        remaining |-> [acc.remaining EXCEPT ![i] = @ - part],
        parts |-> acc.parts \cup {[payer |-> payer, invoice |-> i, amount |-> part]},
        idle |-> acc.idle]

\* One payment: the chosen invoice first, the rest oldest first, the surplus idle.
Spend(acc, a, p) ==
  LET spent == FoldLeft(LAMBDA s, i : Apply(s, i, p),
                        [acc EXCEPT !.left = payments[p].amount],
                        Preferred(p) \o InOrder(Standing(a)))
  IN [spent EXCEPT !.idle = @ + spent.left]

\* Credits of the account that belong to no invoice: a negative ledger, credit
\* notes without an invoice, historical negative invoices.
Offset(a) ==
  Larger(-Ledger[a], 0) - Standalone[a]
    + SumOver([i \in Standing(a) |-> Larger(-Outstanding(i), 0)])

Plan(a) ==
  LET offset == FoldLeft(LAMBDA s, i : Apply(s, i, 0),
                  [left |-> Offset(a), parts |-> {}, idle |-> 0,
                   remaining |-> [i \in Standing(a) |-> Larger(Outstanding(i), 0)]],
                  InOrder(Standing(a)))
      paid == FoldLeft(LAMBDA s, p : Spend(s, a, p), offset, NetPayments(a))
  IN [remaining |-> paid.remaining, parts |-> paid.parts, cash |-> paid.idle,
      unused |-> offset.left,
      residual |-> Larger(Ledger[a], 0) - offset.left - paid.idle]

\* The annual balance without pending work: documents, postings, cash.
AnnualRemaining(a) ==
  SumOver([i \in Standing(a) |-> Outstanding(i)]) + Ledger[a] + Standalone[a]
    - SumOver([p \in Live(a) |-> payments[p].amount])

Total(parts) == FoldSet(LAMBDA x, sum : x.amount + sum, 0, parts)

\* What the account page shows: reductions of an invoice, uses of a payment.
SettlementLines(plan, i) ==
  Smaller(credited[i], Larger(Gross[i], 0)) + Total({x \in plan.parts : x.invoice = i})
PaymentUsage(plan, p) == Total({x \in plan.parts : x.payer = p})

-----------------------------------------------------------------------------
RowsStored == UNION {{r} \X DOMAIN batches[r].rows : r \in Request}

Importing ==
  \/ \E file \in Statement : SaveImportUpload(file) \/ PurgeUpload(file)
  \/ \E r \in Request, file \in Statement : SeenPaymentHashes(r, file)
  \/ \E r \in Request, i \in Invoice \cup {0} : CreatePaymentImportBatch(r, i)
  \/ \E r \in Request :
       \/ BookRow(r) \/ FindDuplicate(r) \/ RefuseRow(r)
       \/ MarkPaymentImportRowSkipped(r) \/ FinishPaymentImportBatch(r)
       \/ AbortCommit(r)
  \/ \E x \in RowsStored : ReverseImportedPayment(x[1], x[2])

Paying ==
  \/ \E a \in Account, amount \in CashAmount, day \in {1, 2}, i \in Invoice \cup {0} :
       PaymentAdd(a, amount, day, i)
  \/ \E p \in DOMAIN payments, deleted \in BOOLEAN : SetPaymentDeleted(p, deleted)
  \/ \E p \in DOMAIN payments, amount \in CashAmount, day \in {1, 2} :
       PaymentUpdate(p, amount, day)

Documents ==
  \/ \E i \in Invoice : IssueInvoice(i) \/ StornoInvoice(i)
  \/ \E i \in Invoice, amount \in CreditAmount : GutschriftInvoice(i, amount)
  \/ \E n \in Neighbor : AnonymizePayer(n)

ImportNext == Importing \/ Paying \/ Documents

ImportSpec == ImportInit /\ [][ImportNext]_importVars

-----------------------------------------------------------------------------
(* Properties *)

BatchRow(x) == batches[x[1]].rows[x[2]]
BookedFrom(h) == {p \in DOMAIN payments : payments[p].source = h}

\* No part of a movement is booked without the rest of it (splitBatch).
WholeEntries(file) ==
  \A k \in DOMAIN Content[file].entries :
    LET e == Content[file].entries[k]
        parsed == EntryCredits(Content[file].format, e)
    IN SumFunction([j \in DOMAIN parsed |-> parsed[j].amount]) \in {0, e.amount}

FilesWhole == \A file \in Statement : WholeEntries(file)

\* However often a statement is uploaded, committed twice or cut short, a credit
\* is booked once and whole, and whatever a batch calls booked or already imported really
\* is a payment (ImportPayment: "a failure never leaves the credit
\* marked-imported-but-unbooked"); a reversed one has exactly one counter-entry.
ImportedOnce ==
  /\ FilesWhole
  /\ \A h \in hashes : Cardinality(BookedFrom(h)) = 1
  /\ \A p \in DOMAIN payments : payments[p].source # NoSource => payments[p].source \in hashes
  /\ \A x \in RowsStored :
       /\ BatchRow(x).status \in {"booked", "duplicate", "reversed"} => BatchRow(x).hash \in hashes
       /\ BatchRow(x).payment # 0 => BookedFrom(BatchRow(x).hash) = {BatchRow(x).payment}
       /\ BatchRow(x).status = "reversed" => Reversals(BatchRow(x).payment) = {BatchRow(x).reversal}

\* planInvoiceAllocation distributes and never creates money: the documents'
\* open amounts and the residual are the annual balance, no payment is spent
\* beyond its amount, and the lines shown for an invoice add up to what was
\* taken off it (else explainAccountSettlement refuses to show them).
Conserves(a) ==
  LET plan == Plan(a) IN
  /\ \A i \in Standing(a) :
       /\ plan.remaining[i] \in 0..Larger(Outstanding(i), 0)
       /\ SettlementLines(plan, i) = Larger(Gross[i], 0) - plan.remaining[i]
  /\ \A p \in Live(a) : PaymentUsage(plan, p) <= Larger(payments[p].amount, 0)
  /\ SumOver(plan.remaining) + plan.residual = AnnualRemaining(a)

\* No sequence of imports, reversals, corrections and storno brings an account
\* into a state the planner refuses (every page of the account would fail), and
\* its plan always accounts for every cent.
AllocationBalances == \A a \in Account : PlannerAccepts(a) /\ Conserves(a)
=============================================================================
