------------------------- MODULE AccountDocuments -------------------------
(***************************************************************************)
(* The documents of Treckrr's yearly accounts: bookings (entries), the     *)
(* invoices that freeze them, attached and free credit notes (Gutschrift), *)
(* requests for part payment (Anzahlung) and the documents that reverse    *)
(* them (Storno).  Sources: internal/store/company.go, invoice_*.go,       *)
(* entries.go, years.go.                                                   *)
(*                                                                         *)
(* An account is a pair <<year, neighbor>>, the row of                     *)
(* billing_year_neighbors.  Every writer below runs in one transaction     *)
(* that first takes lockAccountBoundary: the year's advisory lock          *)
(* serializes all of them, so each is one atomic action here.              *)
(* Amounts are whole cents.                                                *)
(***************************************************************************)
EXTENDS Integers, Sequences, FiniteSets, FiniteSetsExt, Functions

CONSTANTS
  Year, Neighbor,   \* primary keys of billing_years and neighbors
  Entry,            \* primary keys of entries, never reused
  AccountOf,        \* the account an entry is booked on, fixed at creation
  Cost,             \* costs a booking can have
  CreditAmount,     \* gross amounts a credit or an Anzahlung can have
  PostedSum,        \* sums the postings of an account can have
  VatRate,          \* the company's VAT rates in percent (0: no VAT shown)
  InvoiceStart,     \* company.invoice_start
  MaxDocs,          \* bound: documents issued in a behaviour
  LastDay           \* bound: days in a behaviour

Account == Year \X Neighbor
Day == 1 .. LastDay

ASSUME AccountOfAssumption == AccountOf \in [Entry -> Account]
ASSUME AmountAssumption ==
  /\ Cost \subseteq Nat \ {0}
  /\ CreditAmount \subseteq Nat \ {0}
  /\ PostedSum \subseteq Int
  /\ VatRate \subseteq Nat
ASSUME BoundAssumption == InvoiceStart \in Nat /\ MaxDocs \in Nat /\ LastDay \in Nat \ {0}

VARIABLES
  status,      \* billing_years.status
  member,      \* rows of billing_year_neighbors
  anonymized,  \* neighbors.anonymized
  entries,     \* rows of entries: life cycle, cost, voided
  docs,        \* rows of invoices except Stornos, in id order
  stornos,     \* the reversing rows, each keyed by the document it reverses
  claims,      \* active rows of invoice_entries: <<document, entry>>
  preview,     \* per account, the content whose hash the operator confirmed
  vatRate,     \* company.vat_rate (0 when no VAT is shown)
  today        \* the server's date

vars == <<status, member, anonymized, entries, docs, stornos, claims, preview,
          vatRate, today>>

-----------------------------------------------------------------------------
(* Rows *)

Content == [lines : SUBSET (Entry \X Cost), rate : VatRate \cup {0}]
NoContent == [lines |-> {}, rate |-> 0]

Absent == [state |-> "absent", cost |-> 0, voided |-> FALSE]
Deleted == [state |-> "deleted", cost |-> 0, voided |-> FALSE]
EntryRow == [state : {"live"}, cost : Cost, voided : BOOLEAN] \cup {Absent, Deleted}

\* <year>-003, <year>-A001, <year>-G001, and <year>-003-G, -G2, ... for credits
\* attached to invoice 3; suffix 0 is a number without one.
DocNumber == [class : {"R", "A", "G"}, seq : Nat, suffix : Nat]

Document == [kind : {"invoice", "gutschrift", "anzahlung"},
             status : {"issued", "canceled"}, acct : Account,
             ref : Nat, number : DocNumber, issuedOn : Day,
             amount : Int, content : Content]

\* VAT is rounded half up once, on the net sum of the invoice.
VatOn(net, rate) == (net * rate + 50) \div 100
NetOf(content) == SumFunction([line \in content.lines |-> line[2]])
GrossOf(content) == NetOf(content) + VatOn(NetOf(content), content.rate)
Gross(d) == IF d.kind = "invoice" THEN GrossOf(d.content) ELSE d.amount

\* A Storno negates the frozen net, VAT and gross of the document it reverses.
ReversedGross(s) == -Gross(docs[s.of])

Ids == DOMAIN docs
Issued(kind) == {i \in Ids : docs[i].kind = kind /\ docs[i].status = "issued"}
OfAccount(a) == {i \in Ids : docs[i].acct = a}
OfYear(y) == {i \in Ids : docs[i].acct[1] = y}
GrossByDoc == [i \in Ids |-> Gross(docs[i])]
SumGross(ids) == SumFunctionOnSet(GrossByDoc, ids)

-----------------------------------------------------------------------------
(* The account boundary and what a booking may still do *)

\* Faulty variant: the boundary does not read the year's status.
OpenAccountAnyYear(a) == a \in member /\ ~anonymized[a[2]]

OpenAccount(a) ==
  a \in member /\ status[a[1]] = "in_progress" /\ ~anonymized[a[2]]

Claimed(e) == \E c \in claims : c[2] = e

\* Faulty variant: the writer does not look for an invoice that froze the row.
EditableFrozenEntry(e) ==
  entries[e].state = "live" /\ OpenAccount(AccountOf[e])

\* A booking writer holds its open account and finds the row unclaimed.
EditableEntry(e) ==
  /\ entries[e].state = "live"
  /\ OpenAccount(AccountOf[e])
  /\ ~Claimed(e)

Live(a) == {e \in Entry : AccountOf[e] = a /\ entries[e].state = "live"
                          /\ ~entries[e].voided}
Pending(a) == {e \in Live(a) : ~Claimed(e)}

ContentOf(es) == [lines |-> {<<e, entries[e].cost>> : e \in es},
                  rate |-> vatRate]

-----------------------------------------------------------------------------
(* Numbering and dating *)

InvoiceSeq(y) ==
  Max({InvoiceStart}
      \cup {docs[i].number.seq + 1 : i \in {j \in OfYear(y) : docs[j].kind = "invoice"}})

\* What "<letter>[0-9]+$" reads at the end of a number.
TrailingSeq(number, letter) ==
  IF number.suffix > 0
  THEN IF letter = "G" /\ number.suffix > 1 THEN {number.suffix} ELSE {}
  ELSE IF number.class = letter THEN {number.seq} ELSE {}

\* Faulty variant: attached credits count as standalone ones.
AllNumberedDocs(y) == OfYear(y)

\* Only standalone documents count; an attached credit belongs to its invoice.
SequencedDocs(y) == {i \in OfYear(y) : docs[i].ref = 0}

ClassSeq(y, letter) ==
  1 + Max({0} \cup UNION {TrailingSeq(docs[i].number, letter) : i \in SequencedDocs(y)})

\* Faulty variant: the suffix counts the credits still standing.
StandingSuffix(i) ==
  1 + Cardinality({j \in Ids : docs[j].ref = i /\ docs[j].status = "issued"})

\* Canceled credits keep their suffix.
AttachedSuffix(i) == 1 + Cardinality({j \in Ids : docs[j].ref = i})

\* Faulty variant: only a date in the future is refused.
NotInFuture(y, on) == on <= today

\* Never in the future, never before the youngest document of the year.
IssueDateValid(y, on) ==
  /\ on <= today
  /\ \A i \in OfYear(y) : docs[i].issuedOn <= on
  /\ \A s \in stornos : docs[s.of].acct[1] = y => s.on <= on

-----------------------------------------------------------------------------
(* Credit caps *)

IssuedInvoices(a) == Issued("invoice") \cap OfAccount(a)
IssuedCredits(a) == Issued("gutschrift") \cap OfAccount(a)
AttachedCredits(i) == {j \in Issued("gutschrift") : docs[j].ref = i}

Credited(ids) == -SumGross(ids)
FitsAccountCap(a, cap, amount) == amount <= cap - Credited(IssuedCredits(a))

\* Faulty variant: only the account-wide cap is checked.
FitsOnlyAccountCap(i, amount) ==
  FitsAccountCap(docs[i].acct, SumGross(IssuedInvoices(docs[i].acct)), amount)

FitsInvoiceCap(i, amount) ==
  /\ amount <= Gross(docs[i]) - Credited(AttachedCredits(i))
  /\ FitsAccountCap(docs[i].acct, SumGross(IssuedInvoices(docs[i].acct)), amount)

\* Before any invoice: what it would gross, bounded by what the balance bills.
PreInvoiceCap(a, posted) ==
  LET wouldBe == ContentOf(Live(a))
      billed == NetOf(wouldBe) + posted
  IN Max({0, Min({GrossOf(wouldBe), billed})})

FreeCreditCap(a, posted) ==
  IF IssuedInvoices(a) = {} THEN PreInvoiceCap(a, posted)
  ELSE SumGross(IssuedInvoices(a))

\* Credits issued before the invoice count against it once it exists.
CoversCredits(a, content) ==
  Credited(IssuedCredits(a)) <= SumGross(IssuedInvoices(a)) + GrossOf(content)

-----------------------------------------------------------------------------
Init ==
  /\ status = [y \in Year |-> "in_progress"]
  /\ member = {}
  /\ anonymized = [n \in Neighbor |-> FALSE]
  /\ entries = [e \in Entry |-> Absent]
  /\ docs = <<>>
  /\ stornos = {}
  /\ claims = {}
  /\ preview = [a \in Account |-> NoContent]
  /\ vatRate \in VatRate
  /\ today = 1

(* Membership, year and master data *)

AddNeighborToYear(a) ==
  /\ member' = member \cup {a}
  /\ UNCHANGED <<status, anonymized, entries, docs, stornos, claims, preview,
                 vatRate, today>>

\* Voided and canceled rows are history and keep the membership too.
HasRecords(a) ==
  \/ \E e \in Entry : AccountOf[e] = a /\ entries[e].state = "live"
  \/ OfAccount(a) # {}

RemoveNeighborFromYear(a) ==
  /\ a \in member
  /\ ~HasRecords(a)
  /\ member' = member \ {a}
  /\ UNCHANGED <<status, anonymized, entries, docs, stornos, claims, preview,
                 vatRate, today>>

SetYearStatus(y, to) ==
  /\ status' = [status EXCEPT ![y] = to]
  /\ UNCHANGED <<member, anonymized, entries, docs, stornos, claims, preview,
                 vatRate, today>>

AnonymizeNeighbor(n) ==
  /\ anonymized' = [anonymized EXCEPT ![n] = TRUE]
  /\ UNCHANGED <<status, member, entries, docs, stornos, claims, preview,
                 vatRate, today>>

\* Faulty variant: the gross factor is stored for the rate.
UpdateCompanyFactor(rate) ==
  /\ vatRate' = 100 + rate
  /\ UNCHANGED <<status, member, anonymized, entries, docs, stornos, claims,
                 preview, today>>

UpdateCompany(rate) ==
  /\ vatRate' = rate
  /\ UNCHANGED <<status, member, anonymized, entries, docs, stornos, claims,
                 preview, today>>

Tick ==
  /\ today < LastDay
  /\ today' = today + 1
  /\ UNCHANGED <<status, member, anonymized, entries, docs, stornos, claims,
                 preview, vatRate>>

(* Bookings *)

WriteEntry(e, row) ==
  /\ entries' = [entries EXCEPT ![e] = row]
  /\ UNCHANGED <<status, member, anonymized, docs, stornos, claims, preview,
                 vatRate, today>>

CreateEntry(e, cost) ==
  /\ entries[e].state = "absent"
  /\ OpenAccount(AccountOf[e])
  /\ WriteEntry(e, [state |-> "live", cost |-> cost, voided |-> FALSE])

UpdateEntry(e, cost) ==
  /\ EditableEntry(e)
  /\ WriteEntry(e, [entries[e] EXCEPT !.cost = cost])

SetEntryVoided(e, voided) ==
  /\ EditableEntry(e)
  /\ WriteEntry(e, [entries[e] EXCEPT !.voided = voided])

DeleteEntry(e) ==
  /\ EditableEntry(e)
  /\ WriteEntry(e, Deleted)

(* Invoices *)

\* A page load, in a transaction of its own and without the account lock.
BuildPendingInvoiceContent(a) ==
  /\ Pending(a) # {}
  /\ preview' = [preview EXCEPT ![a] = ContentOf(Pending(a))]
  /\ UNCHANGED <<status, member, anonymized, entries, docs, stornos, claims,
                 vatRate, today>>

IssueDocument(kind, a, ref, number, on, amount, content) ==
  /\ Len(docs) < MaxDocs
  /\ docs' = Append(docs, [kind |-> kind, status |-> "issued", acct |-> a,
                           ref |-> ref, number |-> number, issuedOn |-> on,
                           amount |-> amount, content |-> content])

\* The same confirmation again returns the issued invoice and changes nothing.
IsReplay(a) == \E i \in IssuedInvoices(a) : docs[i].content = preview[a]

\* Faulty variant: only the billed total is compared.
ConfirmedTotal(a) == NetOf(ContentOf(Pending(a))) = NetOf(preview[a])

Confirmed(a) == ContentOf(Pending(a)) = preview[a]

IssueInvoice(a, on) ==
  /\ a \in member /\ ~anonymized[a[2]]
  /\ preview[a] # NoContent
  /\ ~IsReplay(a)
  /\ Pending(a) # {}
  /\ status[a[1]] = "in_progress"
  /\ Confirmed(a)
  /\ IssueDateValid(a[1], on)
  /\ CoversCredits(a, ContentOf(Pending(a)))
  /\ IssueDocument("invoice", a, 0,
                   [class |-> "R", seq |-> InvoiceSeq(a[1]), suffix |-> 0],
                   on, 0, ContentOf(Pending(a)))
  /\ claims' = claims \cup {<<Len(docs) + 1, e>> : e \in Pending(a)}
  /\ UNCHANGED <<status, member, anonymized, entries, stornos, preview,
                 vatRate, today>>

\* Each document of ids is canceled by a reversing document of its own.
Reverse(ids) ==
  /\ docs' = [i \in Ids |-> IF i \in ids
                            THEN [docs[i] EXCEPT !.status = "canceled"]
                            ELSE docs[i]]
  /\ stornos' = stornos \cup {[of |-> i, on |-> today] : i \in ids}

Reversible(i, kinds) ==
  /\ docs[i].kind \in kinds /\ docs[i].status = "issued"
  /\ docs[i].acct \in member /\ status[docs[i].acct[1]] = "in_progress"

\* Faulty variant: attached credits are only marked canceled.
StornoInvoiceMarkingCredits(i) ==
  /\ Reversible(i, {"invoice"})
  /\ docs' = [j \in Ids |-> IF j \in {i} \cup AttachedCredits(i)
                            THEN [docs[j] EXCEPT !.status = "canceled"]
                            ELSE docs[j]]
  /\ stornos' = stornos \cup {[of |-> i, on |-> today]}
  /\ claims' = {c \in claims : c[1] # i}
  /\ UNCHANGED <<status, member, anonymized, entries, preview, vatRate, today>>

\* The issued credits attached to the invoice go with it; its sources are free.
StornoInvoice(i) ==
  /\ Reversible(i, {"invoice"})
  /\ Reverse({i} \cup AttachedCredits(i))
  /\ claims' = {c \in claims : c[1] # i}
  /\ UNCHANGED <<status, member, anonymized, entries, preview, vatRate, today>>

StornoDocument(i) ==
  /\ Reversible(i, {"anzahlung", "gutschrift"})
  /\ Reverse({i})
  /\ UNCHANGED <<status, member, anonymized, entries, claims, preview, vatRate,
                 today>>

(* Credit notes and part payments *)

GutschriftInvoice(i, amount) ==
  /\ Reversible(i, {"invoice"})
  /\ FitsInvoiceCap(i, amount)
  /\ IssueDocument("gutschrift", docs[i].acct, i,
                   [docs[i].number EXCEPT !.suffix = AttachedSuffix(i)],
                   today, -amount, NoContent)
  /\ UNCHANGED <<status, member, anonymized, entries, stornos, claims, preview,
                 vatRate, today>>

\* A standalone credit and an Anzahlung take the date before they wait for the
\* lock of the year, and midnight may fall in the wait.
DayBegun == {today - 1, today} \cap Day

FreeGutschrift(a, amount, posted) ==
  /\ OpenAccount(a)
  /\ FitsAccountCap(a, FreeCreditCap(a, posted), amount)
  /\ \E on \in DayBegun :
       IssueDocument("gutschrift", a, 0,
                     [class |-> "G", seq |-> ClassSeq(a[1], "G"), suffix |-> 0],
                     on, -amount, NoContent)
  /\ UNCHANGED <<status, member, anonymized, entries, stornos, claims, preview,
                 vatRate, today>>

CreateAnzahlung(a, amount) ==
  /\ OpenAccount(a)
  /\ \E on \in DayBegun :
       IssueDocument("anzahlung", a, 0,
                     [class |-> "A", seq |-> ClassSeq(a[1], "A"), suffix |-> 0],
                     on, amount, NoContent)
  /\ UNCHANGED <<status, member, anonymized, entries, stornos, claims, preview,
                 vatRate, today>>

MasterData ==
  \/ \E a \in Account : AddNeighborToYear(a)
  \/ \E y \in Year, to \in {"in_progress", "completed"} : SetYearStatus(y, to)
  \/ \E n \in Neighbor : AnonymizeNeighbor(n)
  \/ \E rate \in VatRate : UpdateCompany(rate)
  \/ Tick

Booking ==
  \E e \in Entry :
    \/ \E cost \in Cost : CreateEntry(e, cost) \/ UpdateEntry(e, cost)
    \/ \E voided \in BOOLEAN : SetEntryVoided(e, voided)
    \/ DeleteEntry(e)

Invoicing ==
  \/ \E a \in Account : BuildPendingInvoiceContent(a)
  \/ \E a \in Account, on \in Day : IssueInvoice(a, on)
  \/ \E i \in Ids : StornoInvoice(i) \/ StornoDocument(i)
  \/ \E i \in Ids, amount \in CreditAmount : GutschriftInvoice(i, amount)
  \/ \E a \in Account, amount \in CreditAmount : CreateAnzahlung(a, amount)

Next ==
  \/ MasterData
  \/ Booking
  \/ Invoicing
  \/ \E a \in Account : RemoveNeighborFromYear(a)
  \/ \E a \in Account, amount \in CreditAmount, posted \in PostedSum :
       FreeGutschrift(a, amount, posted)

Spec == Init /\ [][Next]_vars

-----------------------------------------------------------------------------
(* Properties *)

\* Every variable holds rows of its table's shape.
TypeOK ==
  /\ status \in [Year -> {"in_progress", "completed"}]
  /\ member \subseteq Account
  /\ anonymized \in [Neighbor -> BOOLEAN]
  /\ entries \in [Entry -> EntryRow]
  /\ docs \in Seq(Document)
  /\ stornos \subseteq [of : Nat, on : Day]
  /\ claims \subseteq Nat \X Entry
  /\ preview \in [Account -> Content]
  /\ vatRate \in VatRate
  /\ today \in Day

\* An active claim belongs to an issued invoice of the booking's account.
ClaimsBelongToInvoices ==
  \A c \in claims : /\ c[1] \in Issued("invoice")
                    /\ docs[c[1]].acct = AccountOf[c[2]]

\* A booking is frozen by at most one invoice.
ClaimsExclusive == \A c, d \in claims : c[2] = d[2] => c[1] = d[1]

\* An issued invoice's lines are its claimed bookings, as they still stand.
LinesAsBooked ==
  \A i \in Issued("invoice") :
    /\ docs[i].content.lines = {<<c[2], entries[c[2]].cost>>
                                : c \in {d \in claims : d[1] = i}}
    /\ \A c \in claims : c[1] = i => entries[c[2]].state = "live"
                                     /\ ~entries[c[2]].voided

\* What an issued invoice froze is exactly the work it holds: no claimed booking
\* is edited, voided, deleted or billed twice for as long as the invoice stands
\* (lockUninvoicedEntry, claimInvoiceSources, StornoInvoiceByID).
FrozenSourcesIntact ==
  ClaimsBelongToInvoices /\ ClaimsExclusive /\ LinesAsBooked

\* The credits attached to a standing invoice never exceed it, and none
\* outlives its storno (checkInvoiceCreditCap, the cascade of StornoInvoiceByID).
CreditsWithinInvoice ==
  /\ \A i \in Issued("invoice") : Credited(AttachedCredits(i)) <= Gross(docs[i])
  /\ \A j \in Issued("gutschrift") :
       docs[j].ref # 0 => docs[j].ref \in Issued("invoice")

\* The journal nets out: all documents ever issued on an account together with
\* their reversals sum to what still stands (stornoDocumentTx: a cancellation
\* without a reversing document would remove a declared correction).
JournalBalances ==
  \A a \in {docs[i].acct : i \in Ids} :
    SumGross(OfAccount(a))
      + SumFunction([s \in {r \in stornos : docs[r.of].acct = a} |-> ReversedGross(s)])
    = SumGross({i \in OfAccount(a) : docs[i].status = "issued"})

\* A document is canceled if and only if exactly one document reverses it.
OneReversal ==
  /\ \A s \in stornos : s.of \in Ids /\ docs[s.of].status = "canceled"
  /\ \A i \in Ids : docs[i].status = "canceled" => \E s \in stornos : s.of = i
  /\ \A s, t \in stornos : s.of = t.of => s = t

\* No two documents of a year carry one number: an issuance never fails on the
\* unique index invoices(billing_year_id, number).
NumbersUnique ==
  \A i, j \in Ids :
    docs[i].acct[1] = docs[j].acct[1] /\ docs[i].number = docs[j].number => i = j

\* Standalone credits and Anzahlungen of a year are numbered 1, 2, 3, ...
\* without a gap, whatever was attached, canceled or invoiced in between.
SequencesGapless ==
  \A y \in Year, letter \in {"A", "G"} :
    LET own == {i \in SequencedDocs(y) : docs[i].number.class = letter}
    IN {docs[i].number.seq : i \in own} = 1 .. Cardinality(own)

\* What is dated under the lock of the year, an invoice, an attached credit or a
\* reversal, is dated no earlier than every document and every reversal that was
\* there before, and not in the future (§ 11 UStG).  A standalone credit or an
\* Anzahlung, dated before the lock, is at most the one midnight behind them.
DatedInOrder ==
  [][LET dates(y) == {docs[i].issuedOn : i \in OfYear(y)}
                       \cup {s.on : s \in {t \in stornos : docs[t.of].acct[1] = y}}
         dated(y, on, wait) == on <= today /\ \A d \in dates(y) : d <= on + wait
         waited(d) == IF d.kind # "invoice" /\ d.ref = 0 THEN 1 ELSE 0
     IN /\ \A i \in DOMAIN docs' \ Ids :
             dated(docs'[i].acct[1], docs'[i].issuedOn, waited(docs'[i]))
        /\ \A s \in stornos' \ stornos : dated(docs'[s.of].acct[1], s.on, 0)]_vars

\* No record sits on an account whose membership row is gone: every writer
\* needs that row, so such a record could never be reversed.
NoOrphans == \A a \in Account : HasRecords(a) => a \in member

\* A completed year's bookings, documents and claims do not change.
ClosedYearFrozen ==
  [][\A y \in Year : status[y] = "completed" =>
       /\ \A e \in Entry : AccountOf[e][1] = y => entries'[e] = entries[e]
       /\ \A i \in DOMAIN docs' : docs'[i].acct[1] = y =>
            i \in Ids /\ docs'[i] = docs[i]
       /\ \A c \in (claims \ claims') \cup (claims' \ claims) :
            AccountOf[c[2]][1] # y]_vars

\* A new invoice freezes the content the operator confirmed, and that is all of
\* the account's unbilled work at this moment and at the company's current rate.
ConfirmedIssue ==
  [][\A i \in DOMAIN docs' \ Ids : docs'[i].kind = "invoice" =>
       LET a == docs'[i].acct
       IN docs'[i].content = preview[a] /\ preview[a] = ContentOf(Pending(a))]_vars

=============================================================================
