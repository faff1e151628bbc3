---------------------------- MODULE Settlement ----------------------------
(***************************************************************************)
(* The money side of an account: payments, ledger postings, and the        *)
(* operations that derive what they write from the balance itself - settle *)
(* the rest, carry it into the next year, pay out a credit.  It extends    *)
(* AccountDocuments: both share the account rows, the free credit reads    *)
(* the ledger, and a payment may issue a Skonto credit on an invoice.      *)
(* Sources: internal/store/account_lock.go, payments.go, ledger.go,        *)
(* carry_preview.go.                                                       *)
(***************************************************************************)
EXTENDS AccountDocuments

CONSTANTS
  FormKey,        \* idempotency keys, one per rendered payment form
  NoKey,          \* a payment that no form recorded
  PaymentAmount,  \* amounts an operator types on a payment
  PostingAmount,  \* amounts an operator posts by hand, of either sign
  SkontoPct,      \* Skonto percentages
  MaxPayments,    \* bound: payments recorded in a behaviour
  MaxPostings     \* bound: postings inserted in a behaviour

ASSUME SettlementAssumption ==
  /\ Year \subseteq Nat
  /\ NoKey \notin FormKey
  /\ PaymentAmount \subseteq Nat \ {0}
  /\ PostingAmount \subseteq Int
  /\ SkontoPct \subseteq 1 .. 100
  /\ MaxPayments \in Nat /\ MaxPostings \in Nat

VARIABLES
  payments,     \* rows of payments, in id order; deletion is soft
  postings,     \* rows of neighbor_ledger
  lastPosting,  \* the id of the last posting inserted
  carryPreview  \* per neighbor, the two balances the operator confirmed

moneyVars == <<payments, postings, lastPosting, carryPreview>>
allVars == <<vars, moneyVars>>

Payment == [acct : Account, amount : Nat, key : FormKey \cup {NoKey},
            deleted : BOOLEAN]

\* transfer is 0 or the id shared by the two sides of a carry-forward.
Posting == [id : Nat, acct : Account, amount : Int, transfer : Nat,
            origin : {"manual", "payout", "carry"}, voided : BOOLEAN]

NoCarry == [from |-> 0, to |-> 0, source |-> 0, target |-> 0]

-----------------------------------------------------------------------------
(* The balance *)

PostingsOf(a) == {p \in postings : p.acct = a}
PostedTo(a) == SumFunction([p \in {q \in PostingsOf(a) : ~q.voided} |-> p.amount])

PaymentsOf(a) == {i \in DOMAIN payments : payments[i].acct = a}
Paid(a) == SumFunction([i \in {j \in PaymentsOf(a) : ~payments[j].deleted} |->
                         payments[i].amount])

\* Faulty variant: every booking counts, also one an invoice has replaced.
BookedAgain(a) ==
  SumGross(IssuedInvoices(a)) + NetOf(ContentOf(Live(a)))
    - Credited(IssuedCredits(a))

\* Invoices replace the bookings they claim; an Anzahlung is not a claim.
Billed(a) ==
  SumGross(IssuedInvoices(a)) + NetOf(ContentOf(Pending(a)))
    - Credited(IssuedCredits(a))

Remaining(a) == Billed(a) + PostedTo(a) - Paid(a)

-----------------------------------------------------------------------------
SettlementInit ==
  /\ Init
  /\ payments = <<>>
  /\ postings = {}
  /\ lastPosting = 0
  /\ carryPreview = [n \in Neighbor |-> NoCarry]

(* Payments *)

InsertPayment(a, amount, key) ==
  /\ Len(payments) < MaxPayments
  /\ payments' = Append(payments, [acct |-> a, amount |-> amount, key |-> key,
                                   deleted |-> FALSE])

\* A key already recorded answers with the stored payment or a conflict.
FreshForm(key) == \A i \in DOMAIN payments : payments[i].key # key

PayableAccount(a) == a \in member /\ ~anonymized[a[2]]

RecordPayment(a, amount, key) ==
  /\ FreshForm(key)
  /\ PayableAccount(a)
  /\ InsertPayment(a, amount, key)
  /\ UNCHANGED <<vars, postings, lastPosting, carryPreview>>

SkontoAmount(i, pct) == (Gross(docs[i]) * pct + 50) \div 100

\* Every precondition of the credit holds before the payment is written.
SkontoAllowed(i, amount) ==
  amount \in CreditAmount /\ Reversible(i, {"invoice"}) /\ FitsInvoiceCap(i, amount)

\* The payment and its credit on invoice i commit together.
RecordPaymentWithSkonto(i, amount, key, pct) ==
  LET a == docs[i].acct
      credit == SkontoAmount(i, pct)
  IN /\ FreshForm(key)
     /\ PayableAccount(a)
     /\ SkontoAllowed(i, credit)
     /\ InsertPayment(a, amount, key)
     /\ IssueDocument("gutschrift", a, i,
                      [docs[i].number EXCEPT !.suffix = AttachedSuffix(i)],
                      today, -credit, NoContent)
     /\ UNCHANGED <<status, member, anonymized, entries, stornos, claims,
                    preview, vatRate, today, postings, lastPosting, carryPreview>>

ChangePayment(i, row) ==
  /\ PayableAccount(payments[i].acct)
  /\ payments' = [payments EXCEPT ![i] = row]
  /\ UNCHANGED <<vars, postings, lastPosting, carryPreview>>

UpdatePayment(i, amount) ==
  ~payments[i].deleted /\ ChangePayment(i, [payments[i] EXCEPT !.amount = amount])

DeletePayment(i) ==
  ~payments[i].deleted /\ ChangePayment(i, [payments[i] EXCEPT !.deleted = TRUE])

RestorePayment(i) ==
  payments[i].deleted /\ ChangePayment(i, [payments[i] EXCEPT !.deleted = FALSE])

SettleRemaining(a) ==
  /\ a \in member
  /\ Remaining(a) > 0
  /\ InsertPayment(a, Remaining(a), NoKey)
  /\ UNCHANGED <<vars, postings, lastPosting, carryPreview>>

(* Ledger postings *)

InsertPostings(rows) ==
  /\ lastPosting + Cardinality(rows) <= MaxPostings
  /\ postings' = postings \cup rows
  /\ lastPosting' = lastPosting + Cardinality(rows)
  /\ UNCHANGED <<vars, payments, carryPreview>>

PostingRow(id, a, amount, transfer, origin) ==
  [id |-> id, acct |-> a, amount |-> amount, transfer |-> transfer,
   origin |-> origin, voided |-> FALSE]

AddNeighborLedger(a, amount) ==
  /\ OpenAccount(a)
  /\ InsertPostings({PostingRow(lastPosting + 1, a, amount, 0, "manual")})

\* Faulty variant: one side of a carry-forward may change on its own.
OpenPosting(p) == OpenAccount(p.acct)

\* A carry-forward side only ever changes together with its other side.
EditablePosting(p) == OpenAccount(p.acct) /\ p.transfer = 0

ReplacePostings(old, new) ==
  /\ postings' = (postings \ old) \cup new
  /\ UNCHANGED <<vars, payments, lastPosting, carryPreview>>

UpdateNeighborLedger(p, amount) ==
  EditablePosting(p) /\ ReplacePostings({p}, {[p EXCEPT !.amount = amount]})

SetLedgerVoided(p, voided) ==
  EditablePosting(p) /\ ReplacePostings({p}, {[p EXCEPT !.voided = voided]})

DeleteNeighborLedger(p) == EditablePosting(p) /\ ReplacePostings({p}, {})

PayoutCredit(a) ==
  /\ a \in member
  /\ Remaining(a) < 0
  /\ InsertPostings({PostingRow(lastPosting + 1, a, -Remaining(a), 0, "payout")})

(* Carry-forward *)

\* The next year's row, when there is one.
NextYear(y) == {z \in Year : z = y + 1}

\* Both accounts exist and the target is open; the source may be completed.
CarryAccounts(n, y, z) ==
  /\ <<y, n>> \in member /\ <<z, n>> \in member
  /\ status[z] = "in_progress"

PreviewCarryForward(n, y, z) ==
  /\ CarryAccounts(n, y, z)
  /\ carryPreview' = [carryPreview EXCEPT ![n] =
                        [from |-> y, to |-> z, source |-> Remaining(<<y, n>>),
                         target |-> Remaining(<<z, n>>)]]
  /\ UNCHANGED <<vars, payments, postings, lastPosting>>

\* Faulty variant: what the source owes is compared, what the target owes is not.
CarryConfirmedSource(n, y, z) ==
  /\ carryPreview[n].from = y /\ carryPreview[n].to = z
  /\ carryPreview[n].source = Remaining(<<y, n>>)

CarryConfirmed(n, y, z) ==
  carryPreview[n] = [from |-> y, to |-> z, source |-> Remaining(<<y, n>>),
                     target |-> Remaining(<<z, n>>)]

CarrySides(n, y, z) ==
  LET amount == Remaining(<<y, n>>)
      transfer == lastPosting + 1
  IN {PostingRow(transfer, <<y, n>>, -amount, transfer, "carry"),
      PostingRow(transfer + 1, <<z, n>>, amount, transfer, "carry")}

CarryForward(n, y, z) ==
  /\ CarryAccounts(n, y, z)
  /\ CarryConfirmed(n, y, z)
  /\ Remaining(<<y, n>>) # 0
  /\ InsertPostings(CarrySides(n, y, z))

SidesOf(transfer) == {p \in postings : p.transfer = transfer}

\* Undoing a transfer needs every account it touches to be open.
ReversibleTransfer(sides) == sides # {} /\ \A p \in sides : OpenAccount(p.acct)

SetLedgerVoidedTransfer(transfer, voided) ==
  LET sides == SidesOf(transfer)
  IN /\ ReversibleTransfer(sides)
     /\ ReplacePostings(sides, {[p EXCEPT !.voided = voided] : p \in sides})

DeleteLedgerTransfer(transfer) ==
  LET sides == SidesOf(transfer)
  IN ReversibleTransfer(sides) /\ ReplacePostings(sides, {})

-----------------------------------------------------------------------------
PaymentStep ==
  \/ \E a \in Account, amount \in PaymentAmount, key \in FormKey :
       RecordPayment(a, amount, key)
  \/ \E i \in Ids, amount \in PaymentAmount, key \in FormKey, pct \in SkontoPct :
       RecordPaymentWithSkonto(i, amount, key, pct)
  \/ \E i \in DOMAIN payments :
       \/ \E amount \in PaymentAmount : UpdatePayment(i, amount)
       \/ DeletePayment(i)
       \/ RestorePayment(i)
  \/ \E a \in Account : SettleRemaining(a)

LedgerStep ==
  \/ \E a \in Account, amount \in PostingAmount : AddNeighborLedger(a, amount)
  \/ \E p \in postings :
       \/ \E amount \in PostingAmount : UpdateNeighborLedger(p, amount)
       \/ \E voided \in BOOLEAN : SetLedgerVoided(p, voided)
       \/ DeleteNeighborLedger(p)
  \/ \E a \in Account : PayoutCredit(a)
  \/ \E n \in Neighbor, y \in Year : \E z \in NextYear(y) :
       PreviewCarryForward(n, y, z) \/ CarryForward(n, y, z)
  \/ \E transfer \in {p.transfer : p \in postings} \ {0} :
       \/ \E voided \in BOOLEAN : SetLedgerVoidedTransfer(transfer, voided)
       \/ DeleteLedgerTransfer(transfer)

\* The documents' own steps, with the ledger they read and the rows that keep a
\* membership.
DocumentStep ==
  /\ \/ MasterData \/ Booking \/ Invoicing
     \/ \E a \in Account :
          /\ RemoveNeighborFromYear(a)
          /\ PaymentsOf(a) = {} /\ PostingsOf(a) = {}
     \/ \E a \in Account, amount \in CreditAmount, posted \in PostedSum :
          posted = PostedTo(a) /\ FreeGutschrift(a, amount, posted)
  /\ UNCHANGED moneyVars

SettlementNext == DocumentStep \/ PaymentStep \/ LedgerStep

SettlementSpec == SettlementInit /\ [][SettlementNext]_allVars

-----------------------------------------------------------------------------
(* Properties *)

SettlementTypeOK ==
  /\ payments \in Seq(Payment)
  /\ postings \subseteq Posting
  /\ lastPosting \in Nat
  /\ carryPreview \in [Neighbor -> [from : Year \cup {0}, to : Year \cup {0},
                                    source : Int, target : Int]]

\* A carry-forward is always whole: an outgoing and an incoming side of opposite
\* amounts on one neighbor's accounts in consecutive years, standing or voided
\* together, so it never creates or destroys a balance (transfer_id in ledger.go).
TransfersPaired ==
  \A transfer \in {p.transfer : p \in postings} \ {0} :
    \E out, in \in postings :
      /\ SidesOf(transfer) = {out, in}
      /\ out.amount = -in.amount /\ out.voided = in.voided
      /\ in.acct = <<out.acct[1] + 1, out.acct[2]>>

\* Settling, paying out and carrying forward leave the account they act on at
\* exactly zero; a carry-forward moves the whole balance to the neighbor's next
\* year, leaves every other account as it was, and ends where the operator was
\* shown it would: what it moves and where the next year ends come to the two
\* balances on the preview, whatever was paid or posted since (CarryForwardConfirmed).
SettlesExactly ==
  [][LET settled == {payments'[i] : i \in DOMAIN payments' \ DOMAIN payments}
         posted == {p \in postings' \ postings : p.id > lastPosting}
     IN /\ \A row \in settled : row.key = NoKey => Remaining(row.acct)' = 0
        /\ \A p \in posted :
             /\ p.origin = "payout" \/ p.id = p.transfer => Remaining(p.acct)' = 0
             /\ p.id = p.transfer =>
                  LET next == <<p.acct[1] + 1, p.acct[2]>>
                      shown == carryPreview[p.acct[2]]
                  IN /\ shown.from = p.acct[1] /\ Remaining(p.acct) = shown.source
                     /\ Remaining(next)' = shown.target + shown.source
                     /\ Remaining(next)' = Remaining(next) + Remaining(p.acct)
                     /\ \A a \in Account \ {p.acct, next} : Remaining(a)' = Remaining(a)]_allVars

\* Issuing an invoice raises the balance by the invoice's VAT and by nothing
\* else, because the invoice replaces the bookings it claims; its storno takes
\* back exactly that and the credits it reverses (remainingSQL).
InvoiceAddsOnlyItsTax ==
  [][LET tax(content) == GrossOf(content) - NetOf(content)
         issued == {docs'[i] : i \in Issued("invoice")' \ Issued("invoice")}
         reversed == {<<docs[i], Credited(AttachedCredits(i))>> :
                        i \in Issued("invoice") \ Issued("invoice")'}
     IN /\ \A d \in issued :
             Remaining(d.acct)' = Remaining(d.acct) + tax(d.content)
        /\ \A r \in reversed :
             Remaining(r[1].acct)' = Remaining(r[1].acct) - tax(r[1].content) + r[2]]_allVars

\* In a completed year the ledger changes only to bring an account to zero: a
\* payout or the outgoing side of a carry-forward, never a new opening posting.
ClosedLedgerOnlySettles ==
  [][\A a \in Account : status[a[1]] = "completed" /\ PostingsOf(a)' # PostingsOf(a)
       => PostingsOf(a) \subseteq PostingsOf(a)' /\ Remaining(a)' = 0]_allVars

\* invoice_partial.go, on the cap of a credit issued before any invoice: such a
\* credit "can then only turn the account negative through real payments".
OnlyPaymentsMakeCredit ==
  \A a \in Account : Remaining(a) < 0 => Paid(a) > 0 \/ PostingsOf(a) # {}

=============================================================================
