----------------------------- MODULE MCAccounts -----------------------------
(***************************************************************************)
(* Settlement, with the documents it extends, for TLC.  A behaviour asks   *)
(* one question: which accounts, bookings and amounts it is about.         *)
(*   claims     bookings, previews, issuing, storno, closing of the year   *)
(*   amounts    one booking at two costs, two VAT rates                      *)
(*   credits    credits and part payments on up to two standing invoices   *)
(*   numbering  two accounts share a year's numbers and dates              *)
(*   carry      two consecutive years: payments, postings, carry-forward,   *)
(*              at most three records of money in all                       *)
(*   skonto     payments with Skonto beside every step on the documents    *)
(***************************************************************************)
EXTENDS Settlement

CONSTANTS n1, n2, e1, e2, k1, k2

VARIABLE question

\* All bookings are work of one account.
MCAccountOf == [e \in Entry |-> <<1, n1>>]

\* What each question is about: accounts, bookings, amounts, and how many
\* documents, days and payments it sees.
Accounting == [years |-> {1}, neighbors |-> {n1}, works |-> {e1}, costs |-> {100}, rates |-> {20},
               credits |-> {}, paying |-> {}, forms |-> {}, docs |-> 3, days |-> 1, payments |-> 0]
Questions ==
  [claims |-> [Accounting EXCEPT !.works = {e1, e2}, !.costs = Cost, !.docs = 2],
   amounts |-> [Accounting EXCEPT !.costs = Cost, !.rates = VatRate],
   credits |-> [Accounting EXCEPT !.works = {e1, e2}, !.credits = {70}, !.docs = 4],
   numbering |-> [Accounting EXCEPT !.neighbors = {n1, n2}, !.credits = {50}, !.days = 2],
   carry |-> [Accounting EXCEPT !.years = {1, 2}, !.works = {}, !.rates = {0}, !.docs = 0,
                                !.paying = {50}, !.forms = {k1}, !.payments = 1],
   skonto |-> [Accounting EXCEPT !.credits = {72}, !.paying = {48}, !.forms = {k1, k2},
                                 !.payments = 2]]

Asked == Questions[question]
Accounts == Asked.years \X Asked.neighbors
Room == Len(docs) < Asked.docs

MCMasterData ==
  \/ \E a \in Accounts : AddNeighborToYear(a) \/ RemoveNeighborFromYear(a)
  \/ \E y \in Asked.years, to \in {"in_progress", "completed"} : SetYearStatus(y, to)
  \/ \E n \in Asked.neighbors : AnonymizeNeighbor(n)
  \/ \E rate \in Asked.rates : UpdateCompany(rate)
  \/ today < Asked.days /\ Tick

MCBooking ==
  \E e \in Asked.works :
    \/ \E cost \in Asked.costs : CreateEntry(e, cost) \/ UpdateEntry(e, cost)
    \/ \E voided \in BOOLEAN : SetEntryVoided(e, voided)
    \/ DeleteEntry(e)

MCInvoicing ==
  \/ \E a \in Accounts : BuildPendingInvoiceContent(a)
  \/ \E i \in Ids : StornoInvoice(i) \/ StornoDocument(i)
  \/ /\ Room
     /\ \/ \E a \in Accounts, on \in Day : IssueInvoice(a, on)
        \/ \E i \in Ids, amount \in Asked.credits : GutschriftInvoice(i, amount)
        \/ \E a \in Accounts, amount \in Asked.credits :
             CreateAnzahlung(a, amount) \/ FreeGutschrift(a, amount, PostedTo(a))

MCDocuments ==
  /\ MCMasterData \/ MCBooking \/ MCInvoicing
  /\ \A a \in member \ member' : PaymentsOf(a) = {} /\ PostingsOf(a) = {}
  /\ UNCHANGED moneyVars

MCPayments ==
  \/ /\ Len(payments) < Asked.payments
     /\ \/ \E a \in Accounts, amount \in Asked.paying, key \in Asked.forms : RecordPayment(a, amount, key)
        \/ \E a \in Accounts : SettleRemaining(a)
        \/ \E i \in Ids, amount \in Asked.paying, key \in Asked.forms, pct \in SkontoPct :
             Room /\ RecordPaymentWithSkonto(i, amount, key, pct)
  \/ \E i \in DOMAIN payments :
       \/ \E amount \in Asked.paying : UpdatePayment(i, amount)
       \/ DeletePayment(i)
       \/ RestorePayment(i)

MCNext ==
  /\ MCDocuments \/ MCPayments \/ (question = "carry" /\ LedgerStep)
  /\ question = "carry" => Len(payments') + Cardinality(postings') <= 3
  /\ UNCHANGED question

\* Carry-forwards start in a season in progress: the neighbor belongs to both years.
SeasonInit ==
  /\ question = "carry" /\ member = Year \X {n1}
  /\ status = [y \in Year |-> "in_progress"] /\ anonymized = [n \in Neighbor |-> FALSE]
  /\ entries = [e \in Entry |-> Absent] /\ docs = <<>> /\ stornos = {} /\ claims = {}
  /\ preview = [a \in Account |-> NoContent] /\ today = 1
  /\ payments = <<>> /\ postings = {} /\ lastPosting = 0
  /\ carryPreview = [n \in Neighbor |-> NoCarry]

MCInit ==
  /\ question \in DOMAIN Questions
  /\ vatRate \in Asked.rates
  /\ SeasonInit \/ (question # "carry" /\ SettlementInit)

MCSpec == MCInit /\ [][MCNext]_<<allVars, question>>
=============================================================================
