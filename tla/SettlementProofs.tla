-------------------------- MODULE SettlementProofs --------------------------
(***************************************************************************)
(* Theorems about Settlement, for every value of its constants: money never*)
(* disturbs what AccountDocuments promises, and the balance moves exactly  *)
(* as the payments, postings and invoices say.                             *)
(***************************************************************************)
EXTENDS Settlement, AccountDocumentsProofs

-----------------------------------------------------------------------------
(* Settlement implements AccountDocuments *)

LEMMA MoneyLeavesDocuments ==
  ASSUME LedgerStep \/ \E a \in Account : SettleRemaining(a)
  PROVE  UNCHANGED vars
BY DEF LedgerStep, SettleRemaining, AddNeighborLedger, UpdateNeighborLedger, SetLedgerVoided,
       DeleteNeighborLedger, PayoutCredit, PreviewCarryForward, CarryForward,
       SetLedgerVoidedTransfer, DeleteLedgerTransfer, InsertPostings, ReplacePostings

\* A payment's Skonto is a credit on the invoice it pays.
LEMMA SkontoIsCredit ==
  ASSUME NEW i \in Ids, NEW amount \in PaymentAmount, NEW key \in FormKey, NEW pct \in SkontoPct,
         RecordPaymentWithSkonto(i, amount, key, pct)
  PROVE  /\ SkontoAmount(i, pct) \in CreditAmount
         /\ GutschriftInvoice(i, SkontoAmount(i, pct))
BY DEF RecordPaymentWithSkonto, SkontoAllowed, GutschriftInvoice

LEMMA StepOfSettlement ==
  ASSUME [SettlementNext]_allVars
  PROVE  [Next]_vars
<1>1. CASE UNCHANGED allVars
  BY <1>1 DEF allVars
<1>2. CASE DocumentStep
  BY <1>2 DEF DocumentStep, Next
<1>3. CASE LedgerStep
  BY <1>3, MoneyLeavesDocuments
<1>4. CASE PaymentStep
  <2>1. CASE \E i \in Ids, amount \in PaymentAmount, key \in FormKey, pct \in SkontoPct :
               RecordPaymentWithSkonto(i, amount, key, pct)
    BY <2>1, SkontoIsCredit DEF Next, Invoicing
  <2>2. CASE \E a \in Account : SettleRemaining(a)
    BY <2>2, MoneyLeavesDocuments
  <2>3. CASE ~(\/ \E i \in Ids, amount \in PaymentAmount, key \in FormKey, pct \in SkontoPct :
                    RecordPaymentWithSkonto(i, amount, key, pct)
               \/ \E a \in Account : SettleRemaining(a))
    BY <1>4, <2>3 DEF PaymentStep, RecordPayment, UpdatePayment, DeletePayment, RestorePayment,
                      ChangePayment
  <2>4. QED
    BY <2>1, <2>2, <2>3
<1>5. QED
  BY <1>1, <1>2, <1>3, <1>4 DEF SettlementNext

\* The money side is invisible to the documents: every behaviour of the accounts
\* is a behaviour of AccountDocuments, a payment with Skonto among them.
THEOREM ImplementsDocuments == SettlementSpec => Spec
<1>1. SettlementInit => Init
  BY DEF SettlementInit
<1>2. [SettlementNext]_allVars => [Next]_vars
  BY StepOfSettlement
<1>3. QED
  BY <1>1, <1>2, PTL DEF SettlementSpec, Spec

\* So whatever is paid, posted, settled or carried forward, the documents stay
\* as the theorems of AccountDocuments say.
THEOREM DocumentsUndisturbed ==
  SettlementSpec => /\ [](TypeOK /\ FrozenSourcesIntact /\ CreditsWithinInvoice)
                    /\ [](JournalBalances /\ NumbersUnique /\ SequencesGapless)
                    /\ ConfirmedIssue /\ ClosedYearFrozen /\ DatedInOrder
BY ImplementsDocuments, TypeCorrect, SourcesStayFrozen, CreditsStayWithin, JournalAlwaysBalances,
   NumbersNeverMeet, NumbersWithoutGap, IssuedAsConfirmed, ClosedYearsKeep, DatesRunForward, PTL

-----------------------------------------------------------------------------
(* Balances are numbers *)

\* Only so many postings were ever made, and their ids were given out in order.
PostingsCounted ==
  /\ IsFiniteSet(postings)
  /\ \A p \in postings : p.id \in 1 .. lastPosting /\ p.transfer \in 0 .. lastPosting

MoneyInv == SettlementTypeOK /\ PostingsCounted

LEMMA BilledType ==
  ASSUME TypeOK, AmountInv, NEW a \in Account
  PROVE  /\ SumGross(IssuedInvoices(a)) \in Int /\ SumGross(IssuedCredits(a)) \in Int
         /\ NetOf(ContentOf(Pending(a))) \in Int /\ Billed(a) \in Int
<1>1. IssuedInvoices(a) \in SUBSET Ids /\ IssuedCredits(a) \in SUBSET Ids
  BY DEF IssuedInvoices, IssuedCredits, Issued, OfAccount
<1>2. Pending(a) \subseteq {e \in Entry : entries[e].state = "live"}
  BY DEF Pending, Live
<1>3. ContentOf(Pending(a)) \in Content /\ IsFiniteSet(ContentOf(Pending(a)).lines)
  BY <1>2, ContentType, WorkLines DEF AmountInv
<1>4. NetOf(ContentOf(Pending(a))) \in Nat
  BY <1>3, ContentAmounts
<1> DEFINE g == SumGross(IssuedInvoices(a))
           n == NetOf(ContentOf(Pending(a)))
           c == SumGross(IssuedCredits(a))
<1>5. g \in Int /\ n \in Nat /\ c \in Int
  BY <1>1, <1>4, GrossSums
<1> HIDE DEF g, n, c
<1>6. g + n - (-c) \in Int
  BY <1>5
<1>7. Billed(a) = g + n - (-c)
  BY DEF Billed, Credited, g, n, c
<1>8. QED
  BY <1>5, <1>6, <1>7 DEF g, n, c

LEMMA PaymentsFinite ==
  ASSUME SettlementTypeOK, NEW S \in SUBSET (DOMAIN payments)
  PROVE  IsFiniteSet(S) /\ \A i \in S : payments[i].amount \in Nat
<1>1. DOMAIN payments = 1 .. Len(payments) /\ Len(payments) \in Nat
      /\ \A i \in DOMAIN payments : payments[i] \in Payment
  BY DEF SettlementTypeOK
<1>2. IsFiniteSet(DOMAIN payments)
  BY <1>1, FS_Interval
<1>3. IsFiniteSet(S)
  BY <1>2, FS_Subset
<1>4. QED
  BY <1>1, <1>3 DEF Payment

LEMMA PaidType ==
  ASSUME SettlementTypeOK, NEW a
  PROVE  Paid(a) \in Nat
<1> DEFINE S == {j \in PaymentsOf(a) : ~payments[j].deleted}
           amount == [i \in S |-> payments[i].amount]
<1>1. S \in SUBSET (DOMAIN payments)
  BY DEF PaymentsOf
<1>2. IsFiniteSet(S) /\ \A i \in S : amount[i] \in Nat
  BY <1>1, PaymentsFinite
<1>3. Paid(a) = SumFunctionOnSet(amount, S)
  BY DEF Paid, SumFunction
<1> HIDE DEF S, amount
<1>4. QED
  BY <1>2, <1>3, SumNotNegative

LEMMA PostedType ==
  ASSUME SettlementTypeOK, PostingsCounted, NEW a
  PROVE  PostedTo(a) \in Int
<1> DEFINE S == {q \in PostingsOf(a) : ~q.voided}
           amount == [p \in S |-> p.amount]
<1>1. S \in SUBSET postings
  BY DEF PostingsOf
<1>2. \A p \in S : amount[p] \in Int
  BY <1>1 DEF SettlementTypeOK, Posting
<1>3. IsFiniteSet(S)
  BY <1>1, FS_Subset DEF PostingsCounted
<1>4. PostedTo(a) = SumFunctionOnSet(amount, S)
  BY DEF PostedTo, SumFunction
<1> HIDE DEF S, amount
<1>5. QED
  BY <1>2, <1>3, <1>4, SumIsInteger

LEMMA BalanceType ==
  ASSUME TypeOK, AmountInv, MoneyInv, NEW a \in Account
  PROVE  Billed(a) \in Int /\ PostedTo(a) \in Int /\ Paid(a) \in Nat /\ Remaining(a) \in Int
<1>1. Billed(a) \in Int /\ PostedTo(a) \in Int /\ Paid(a) \in Nat
  BY BilledType, PaidType, PostedType DEF MoneyInv
<1>2. Billed(a) + PostedTo(a) - Paid(a) \in Int
  <2> DEFINE b == Billed(a)
             p == PostedTo(a)
             q == Paid(a)
  <2>1. b \in Int /\ p \in Int /\ q \in Nat
    BY <1>1
  <2> HIDE DEF b, p, q
  <2>2. b + p - q \in Int
    BY <2>1
  <2>3. QED
    BY <2>2 DEF b, p, q
<1>3. QED
  BY <1>1, <1>2 DEF Remaining

-----------------------------------------------------------------------------
(* What a step may do to the money *)

Inserts(rows, count) ==
  /\ postings' = postings \cup rows /\ lastPosting' = lastPosting + count
  /\ UNCHANGED <<vars, payments, carryPreview>>

\* One posting by hand or a payout.
Posts(a, amount, origin) ==
  Inserts({PostingRow(lastPosting + 1, a, amount, 0, origin)}, 1)

\* Both sides of a carry-forward.
Carries(n, y, z) ==
  /\ Inserts(CarrySides(n, y, z), 2) /\ CarryAccounts(n, y, z) /\ CarryConfirmed(n, y, z)
  /\ z = y + 1

\* A posting that belongs to no transfer is rewritten in place or removed.
Rewrites(p, rows) ==
  /\ p.transfer = 0 /\ OpenAccount(p.acct) /\ ReplacePostings({p}, rows)
  /\ \/ rows = {}
     \/ \E q : rows = {q} /\ q.id = p.id /\ q.acct = p.acct /\ q.transfer = 0 /\ q.origin = p.origin
               /\ q \in Posting

\* Both sides of a transfer are voided, brought back or removed.
RewritesTransfer(transfer, rows) ==
  /\ ReversibleTransfer(SidesOf(transfer)) /\ ReplacePostings(SidesOf(transfer), rows)
  /\ \/ rows = {}
     \/ \E voided \in BOOLEAN : rows = {[p EXCEPT !.voided = voided] : p \in SidesOf(transfer)}

LEMMA CountOne == ASSUME NEW r PROVE Cardinality({r}) = 1
BY FS_Singleton

LEMMA CountTwo ==
  ASSUME NEW r, NEW s, r # s
  PROVE  Cardinality({r, s}) = 2
<1>1. IsFiniteSet({r}) /\ Cardinality({r}) = 1
  BY FS_Singleton
<1>2. {r, s} = {r} \cup {s} /\ s \notin {r}
  OBVIOUS
<1>3. Cardinality({r} \cup {s}) = 1 + 1
  BY <1>1, <1>2, FS_AddElement
<1>4. QED
  BY <1>2, <1>3

LEMMA CarryMakesTwo ==
  ASSUME MoneyInv, NEW n, NEW y, NEW z
  PROVE  Cardinality(CarrySides(n, y, z)) = 2
<1> DEFINE r == PostingRow(lastPosting + 1, <<y, n>>, -Remaining(<<y, n>>), lastPosting + 1, "carry")
           s == PostingRow((lastPosting + 1) + 1, <<z, n>>, Remaining(<<y, n>>), lastPosting + 1, "carry")
<1>1. r.id = lastPosting + 1 /\ s.id = (lastPosting + 1) + 1 /\ lastPosting \in Nat
  BY DEF PostingRow, MoneyInv, SettlementTypeOK
<1>2. r # s
  <2>1. lastPosting + 1 # (lastPosting + 1) + 1
    BY <1>1
  <2> HIDE DEF r, s
  <2>2. QED
    BY <1>1, <2>1
<1>3. CarrySides(n, y, z) = {r, s}
  BY DEF CarrySides
<1> HIDE DEF r, s
<1>4. PICK u, v : u # v /\ CarrySides(n, y, z) = {u, v}
  BY <1>2, <1>3
<1>5. Cardinality({u, v}) = 2
  BY <1>4, CountTwo
<1>6. QED
  BY <1>4, <1>5

LEMMA StepOfLedger ==
  ASSUME TypeInv, AmountInv, MoneyInv, LedgerStep
  PROVE  \/ \E a \in Account, amount \in PostingAmount : Posts(a, amount, "manual") /\ OpenAccount(a)
         \/ \E a \in Account : Posts(a, -Remaining(a), "payout")
         \/ \E n \in Neighbor, y, z \in Year : Carries(n, y, z)
         \/ \E p \in postings : \E rows : Rewrites(p, rows)
         \/ \E transfer \in {p.transfer : p \in postings} \ {0} : \E rows : RewritesTransfer(transfer, rows)
         \/ /\ UNCHANGED <<vars, payments, postings, lastPosting>>
            /\ \E n \in Neighbor, y, z \in Year : PreviewCarryForward(n, y, z)
<1>1. \A p \in postings : p \in Posting
  BY DEF MoneyInv, SettlementTypeOK
<1>2. ASSUME NEW a \in Account, NEW amount \in PostingAmount, AddNeighborLedger(a, amount)
      PROVE  Posts(a, amount, "manual") /\ OpenAccount(a)
  BY <1>2, CountOne DEF AddNeighborLedger, InsertPostings, Posts, Inserts
<1>3. ASSUME NEW a \in Account, PayoutCredit(a)
      PROVE  Posts(a, -Remaining(a), "payout")
  BY <1>3, CountOne DEF PayoutCredit, InsertPostings, Posts, Inserts
<1>4. ASSUME NEW n \in Neighbor, NEW y \in Year, NEW z \in NextYear(y), CarryForward(n, y, z)
      PROVE  z \in Year /\ Carries(n, y, z)
  BY <1>4, CarryMakesTwo DEF CarryForward, InsertPostings, Carries, Inserts, NextYear
<1>5. ASSUME NEW n \in Neighbor, NEW y \in Year, NEW z \in NextYear(y), PreviewCarryForward(n, y, z)
      PROVE  /\ z \in Year /\ PreviewCarryForward(n, y, z)
             /\ UNCHANGED <<vars, payments, postings, lastPosting>>
  BY <1>5 DEF PreviewCarryForward, NextYear
<1>6. ASSUME NEW p \in postings,
             \/ \E amount \in PostingAmount : UpdateNeighborLedger(p, amount)
             \/ \E voided \in BOOLEAN : SetLedgerVoided(p, voided)
             \/ DeleteNeighborLedger(p)
      PROVE  \E rows : Rewrites(p, rows)
  <2>1. p \in Posting
    BY <1>1
  <2>2. ASSUME NEW amount \in PostingAmount, UpdateNeighborLedger(p, amount)
        PROVE  Rewrites(p, {[p EXCEPT !.amount = amount]})
    <3>1. amount \in Int
      BY SettlementAssumption
    <3>2. [p EXCEPT !.amount = amount] \in Posting
          /\ [p EXCEPT !.amount = amount].id = p.id /\ [p EXCEPT !.amount = amount].acct = p.acct
          /\ [p EXCEPT !.amount = amount].transfer = p.transfer
          /\ [p EXCEPT !.amount = amount].origin = p.origin
      BY <2>1, <3>1 DEF Posting
    <3>3. QED
      BY <2>2, <3>2 DEF UpdateNeighborLedger, EditablePosting, Rewrites
  <2>3. ASSUME NEW voided \in BOOLEAN, SetLedgerVoided(p, voided)
        PROVE  Rewrites(p, {[p EXCEPT !.voided = voided]})
    <3>1. [p EXCEPT !.voided = voided] \in Posting
          /\ [p EXCEPT !.voided = voided].id = p.id /\ [p EXCEPT !.voided = voided].acct = p.acct
          /\ [p EXCEPT !.voided = voided].transfer = p.transfer
          /\ [p EXCEPT !.voided = voided].origin = p.origin
      BY <2>1 DEF Posting
    <3>2. QED
      BY <2>3, <3>1 DEF SetLedgerVoided, EditablePosting, Rewrites
  <2>4. ASSUME DeleteNeighborLedger(p) PROVE Rewrites(p, {})
    BY <2>4 DEF DeleteNeighborLedger, EditablePosting, Rewrites
  <2>5. QED
    BY <1>6, <2>2, <2>3, <2>4
<1>7. ASSUME NEW transfer, \/ \E voided \in BOOLEAN : SetLedgerVoidedTransfer(transfer, voided)
                           \/ DeleteLedgerTransfer(transfer)
      PROVE  \E rows : RewritesTransfer(transfer, rows)
  BY <1>7 DEF SetLedgerVoidedTransfer, DeleteLedgerTransfer, RewritesTransfer
<1>8. QED
  BY <1>2, <1>3, <1>4, <1>5, <1>6, <1>7 DEF LedgerStep

\* A payment is recorded for once, or one recorded is rewritten in place; a payment
\* that no form recorded settles the account.
LEMMA StepOfPayments ==
  ASSUME TypeInv, AmountInv, MoneyInv, PaymentStep
  PROVE  /\ UNCHANGED <<postings, lastPosting, carryPreview>>
         /\ \/ \E row \in Payment :
                 /\ payments' = Append(payments, row)
                 /\ ~row.deleted
                 /\ row.key = NoKey => row.amount = Remaining(row.acct) /\ UNCHANGED vars
            \/ /\ \E i \in DOMAIN payments, row \in Payment : payments' = [payments EXCEPT ![i] = row]
               /\ UNCHANGED vars
<1> DEFINE Records(row) == /\ row \in Payment /\ payments' = Append(payments, row) /\ ~row.deleted
                           /\ row.key = NoKey => row.amount = Remaining(row.acct) /\ UNCHANGED vars
           Row(a, amount, key) == [acct |-> a, amount |-> amount, key |-> key, deleted |-> FALSE]
           Others == UNCHANGED <<postings, lastPosting, carryPreview>>
<1>1. \A i \in DOMAIN payments : payments[i] \in Payment
  BY DEF MoneyInv, SettlementTypeOK
<1>2. \A amount \in PaymentAmount : amount \in Nat
  BY SettlementAssumption
<1>3. ASSUME NEW a \in Account, NEW amount \in Nat, NEW key \in FormKey \cup {NoKey},
             InsertPayment(a, amount, key),
             key = NoKey => amount = Remaining(a) /\ UNCHANGED vars
      PROVE  \E row : Records(row)
  <2>1. Row(a, amount, key) \in Payment
    BY DEF Payment
  <2>2. Records(Row(a, amount, key))
    BY <1>3, <2>1 DEF InsertPayment
  <2>3. QED
    BY <2>2
<1>4. ASSUME NEW a \in Account, NEW amount \in PaymentAmount, NEW key \in FormKey,
             RecordPayment(a, amount, key)
      PROVE  Others /\ \E row : Records(row)
  BY <1>2, <1>3, <1>4, SettlementAssumption DEF RecordPayment
<1>5. ASSUME NEW i \in Ids, NEW amount \in PaymentAmount, NEW key \in FormKey, NEW pct \in SkontoPct,
             RecordPaymentWithSkonto(i, amount, key, pct)
      PROVE  Others /\ \E row : Records(row)
  <2>1. docs[i].acct \in Account
    BY IdsFinite DEF TypeInv, Document
  <2>2. InsertPayment(docs[i].acct, amount, key) /\ Others
    BY <1>5 DEF RecordPaymentWithSkonto
  <2>3. QED
    BY <1>2, <1>3, <2>1, <2>2, SettlementAssumption
<1>6. ASSUME NEW a \in Account, SettleRemaining(a)
      PROVE  Others /\ \E row : Records(row)
  <2>1. Remaining(a) \in Int /\ Remaining(a) > 0
    BY <1>6, BalanceType DEF SettleRemaining, TypeInv
  <2>2. PICK amount \in Nat : amount = Remaining(a)
    BY <2>1
  <2>3. InsertPayment(a, amount, NoKey) /\ UNCHANGED vars /\ Others
    BY <1>6, <2>2 DEF SettleRemaining
  <2>4. QED
    BY <1>3, <2>2, <2>3
<1>7. ASSUME NEW i \in DOMAIN payments,
             (\E amount \in PaymentAmount : UpdatePayment(i, amount)) \/ DeletePayment(i)
               \/ RestorePayment(i)
      PROVE  /\ Others /\ UNCHANGED vars
             /\ \E row \in Payment : payments' = [payments EXCEPT ![i] = row]
  <2>1. \A amount \in PaymentAmount : [payments[i] EXCEPT !.amount = amount] \in Payment
    BY <1>1, <1>2 DEF Payment
  <2>2. \A deleted \in BOOLEAN : [payments[i] EXCEPT !.deleted = deleted] \in Payment
    BY <1>1 DEF Payment
  <2>3. QED
    BY <1>7, <2>1, <2>2 DEF UpdatePayment, DeletePayment, RestorePayment, ChangePayment
<1> HIDE DEF Row
<1>8. CASE \E i \in DOMAIN payments :
             (\E amount \in PaymentAmount : UpdatePayment(i, amount)) \/ DeletePayment(i)
               \/ RestorePayment(i)
  BY <1>7, <1>8
<1>9. CASE ~\E i \in DOMAIN payments :
             (\E amount \in PaymentAmount : UpdatePayment(i, amount)) \/ DeletePayment(i)
               \/ RestorePayment(i)
  <2>1. Others /\ \E row : Records(row)
    <3> HIDE DEF Others, Records
    <3>1. QED
      BY <1>4, <1>5, <1>6, <1>9 DEF PaymentStep
  <2>2. QED
    BY <2>1
<1>10. QED
  BY <1>8, <1>9

LEMMA PostingsStayCounted ==
  ASSUME MoneyInv, NEW rows, IsFiniteSet(rows), rows \subseteq Posting,
         postings' \subseteq postings \cup rows, lastPosting' \in Nat, lastPosting <= lastPosting',
         \A q \in rows : q.id \in 1 .. lastPosting' /\ q.transfer \in 0 .. lastPosting',
         UNCHANGED <<payments, carryPreview>>
  PROVE  MoneyInv'
<1>1. SettlementTypeOK'
  BY DEF MoneyInv, SettlementTypeOK
<1>2. IsFiniteSet(postings \cup rows)
  BY FS_Union DEF MoneyInv, PostingsCounted
<1>3. IsFiniteSet(postings')
  BY <1>2, FS_Subset
<1>4. ASSUME NEW p \in postings'
      PROVE  p.id \in 1 .. lastPosting' /\ p.transfer \in 0 .. lastPosting'
  <2>1. CASE p \in rows
    BY <2>1
  <2>2. CASE p \in postings
    <3>1. p.id \in 1 .. lastPosting /\ p.transfer \in 0 .. lastPosting /\ lastPosting \in Nat
      BY <2>2 DEF MoneyInv, PostingsCounted, SettlementTypeOK
    <3>2. QED
      BY <3>1
  <2>3. QED
    BY <2>1, <2>2
<1>5. QED
  BY <1>1, <1>3, <1>4 DEF MoneyInv, PostingsCounted

LEMMA PostingRowType ==
  ASSUME NEW id \in Nat, NEW a \in Account, NEW amount \in Int, NEW transfer \in Nat,
         NEW origin \in {"manual", "payout", "carry"}
  PROVE  /\ PostingRow(id, a, amount, transfer, origin) \in Posting
         /\ PostingRow(id, a, amount, transfer, origin).id = id
         /\ PostingRow(id, a, amount, transfer, origin).acct = a
         /\ PostingRow(id, a, amount, transfer, origin).amount = amount
         /\ PostingRow(id, a, amount, transfer, origin).transfer = transfer
         /\ PostingRow(id, a, amount, transfer, origin).origin = origin
         /\ ~PostingRow(id, a, amount, transfer, origin).voided
BY DEF PostingRow, Posting

LEMMA MoneyStep ==
  ASSUME TypeInv, AmountInv, MoneyInv, [SettlementNext]_allVars
  PROVE  MoneyInv'
<1>1. \A a \in Account : Remaining(a) \in Int
  BY BalanceType DEF TypeInv
<1>2. lastPosting \in Nat /\ lastPosting + 1 \in Nat /\ (lastPosting + 1) + 1 \in Nat
  BY DEF MoneyInv, SettlementTypeOK
<1>3. \A p \in postings : /\ p \in Posting
                          /\ p.id \in 1 .. lastPosting /\ p.transfer \in 0 .. lastPosting
  BY DEF MoneyInv, SettlementTypeOK, PostingsCounted
<1>4. CASE UNCHANGED moneyVars
  BY <1>4 DEF moneyVars, MoneyInv, SettlementTypeOK, PostingsCounted
<1>5. CASE PaymentStep
  <2>1. payments' \in Seq(Payment) /\ UNCHANGED <<postings, lastPosting, carryPreview>>
    <3>1. payments \in Seq(Payment)
      BY DEF MoneyInv, SettlementTypeOK
    <3>2. ASSUME NEW row \in Payment, payments' = Append(payments, row)
          PROVE  payments' \in Seq(Payment)
      BY <3>1, <3>2
    <3>3. ASSUME NEW i \in DOMAIN payments, NEW row \in Payment,
                 payments' = [payments EXCEPT ![i] = row]
          PROVE  payments' \in Seq(Payment)
      BY <3>1, <3>3
    <3>4. QED
      BY <1>5, <3>2, <3>3, StepOfPayments
  <2>2. QED
    BY <2>1 DEF MoneyInv, SettlementTypeOK, PostingsCounted
<1>6. CASE LedgerStep
  <2>1. ASSUME NEW a \in Account, NEW amount \in Int, NEW origin \in {"manual", "payout"},
               Posts(a, amount, origin)
        PROVE  MoneyInv'
    <3> DEFINE row == PostingRow(lastPosting + 1, a, amount, 0, origin)
    <3>1. row \in Posting /\ row.id = lastPosting + 1 /\ row.transfer = 0
      BY <1>2, PostingRowType
    <3>2. /\ postings' = postings \cup {row} /\ lastPosting' = lastPosting + 1
          /\ UNCHANGED <<payments, carryPreview>>
      BY <2>1 DEF Posts, Inserts
    <3> HIDE DEF row
    <3>3. IsFiniteSet({row})
      BY FS_Singleton
    <3>4. lastPosting <= lastPosting' /\ lastPosting' \in Nat
          /\ row.id \in 1 .. lastPosting' /\ row.transfer \in 0 .. lastPosting'
      BY <1>2, <3>1, <3>2
    <3>5. PICK rows : rows = {row}
      OBVIOUS
    <3>6. QED
      BY <3>1, <3>2, <3>3, <3>4, <3>5, PostingsStayCounted
  <2>2. ASSUME NEW n \in Neighbor, NEW y \in Year, NEW z \in Year, Carries(n, y, z)
        PROVE  MoneyInv'
    <3> DEFINE amount == Remaining(<<y, n>>)
               out == PostingRow(lastPosting + 1, <<y, n>>, -amount, lastPosting + 1, "carry")
               in == PostingRow((lastPosting + 1) + 1, <<z, n>>, amount, lastPosting + 1, "carry")
    <3>1. <<y, n>> \in Account /\ <<z, n>> \in Account
      BY DEF Account
    <3>2. amount \in Int /\ -amount \in Int
      BY <1>1, <3>1
    <3>3. CarrySides(n, y, z) = {out, in}
      BY DEF CarrySides
    <3> HIDE DEF amount
    <3>4. /\ out \in Posting /\ out.id = lastPosting + 1 /\ out.transfer = lastPosting + 1
          /\ in \in Posting /\ in.id = (lastPosting + 1) + 1 /\ in.transfer = lastPosting + 1
      <4>1. \A id, transfer \in Nat, a \in Account, sum \in Int :
              LET row == PostingRow(id, a, sum, transfer, "carry")
              IN  row \in Posting /\ row.id = id /\ row.transfer = transfer
        BY PostingRowType
      <4>2. QED
        BY <1>2, <3>1, <3>2, <4>1
    <3> HIDE DEF out, in
    <3>5. /\ postings' = postings \cup {out, in} /\ lastPosting' = lastPosting + 2
          /\ UNCHANGED <<payments, carryPreview>>
      BY <2>2, <3>3 DEF Carries, Inserts
    <3>6. IsFiniteSet({out} \cup {in}) /\ {out, in} = {out} \cup {in}
      BY FS_Singleton, FS_Union
    <3>7. lastPosting <= lastPosting' /\ lastPosting' \in Nat
          /\ \A id \in {lastPosting + 1, (lastPosting + 1) + 1} :
               id \in 1 .. lastPosting' /\ id \in 0 .. lastPosting'
      BY <1>2, <3>5
    <3>8. PICK rows : rows = {out, in}
      OBVIOUS
    <3>9. QED
      BY <3>4, <3>5, <3>6, <3>7, <3>8, PostingsStayCounted
  <2>3. ASSUME NEW p \in postings, NEW rows, Rewrites(p, rows)
        PROVE  MoneyInv'
    <3>1. /\ postings' = (postings \ {p}) \cup rows
          /\ UNCHANGED <<payments, lastPosting, carryPreview>>
      BY <2>3 DEF Rewrites, ReplacePostings
    <3>2. CASE rows = {}
      BY <1>2, <3>1, <3>2, FS_EmptySet, PostingsStayCounted
    <3>3. CASE rows # {}
      <4>1. PICK q : rows = {q} /\ q.id = p.id /\ q.transfer = 0 /\ q \in Posting
        BY <2>3, <3>3 DEF Rewrites
      <4>2. q.id \in 1 .. lastPosting' /\ q.transfer \in 0 .. lastPosting'
        BY <1>2, <1>3, <3>1, <4>1
      <4>3. IsFiniteSet({q})
        BY FS_Singleton
      <4>4. QED
        BY <1>2, <3>1, <4>1, <4>2, <4>3, PostingsStayCounted
    <3>4. QED
      BY <3>2, <3>3
  <2>4. ASSUME NEW transfer, NEW rows, RewritesTransfer(transfer, rows)
        PROVE  MoneyInv'
    <3>1. /\ postings' = (postings \ SidesOf(transfer)) \cup rows
          /\ UNCHANGED <<payments, lastPosting, carryPreview>>
      BY <2>4 DEF RewritesTransfer, ReplacePostings
    <3>2. CASE rows = {}
      BY <1>2, <3>1, <3>2, FS_EmptySet, PostingsStayCounted
    <3>3. CASE rows # {}
      <4>1. PICK voided \in BOOLEAN : rows = {[p EXCEPT !.voided = voided] : p \in SidesOf(transfer)}
        BY <2>4, <3>3 DEF RewritesTransfer
      <4>2. SidesOf(transfer) \subseteq postings
        BY DEF SidesOf
      <4>3. IsFiniteSet(rows)
        <5> DEFINE f == [p \in SidesOf(transfer) |-> [p EXCEPT !.voided = voided]]
        <5>1. PICK S : S = SidesOf(transfer)
          OBVIOUS
        <5>2. IsFiniteSet(S)
          BY <4>2, <5>1, FS_Subset DEF MoneyInv, PostingsCounted
        <5>3. rows = {f[p] : p \in S}
          BY <4>1, <5>1
        <5>4. PICK g : g = f
          OBVIOUS
        <5>5. rows = {g[p] : p \in S}
          BY <5>3, <5>4
        <5>6. QED
          BY <5>2, <5>5, ImageIsFinite
      <4>4. \A q \in rows : q \in Posting /\ q.id \in 1 .. lastPosting' /\ q.transfer \in 0 .. lastPosting'
        <5>1. SUFFICES ASSUME NEW p \in postings
                       PROVE  LET q == [p EXCEPT !.voided = voided]
                              IN  q \in Posting /\ q.id = p.id /\ q.transfer = p.transfer
          BY <1>3, <3>1, <4>1, <4>2
        <5>2. p \in Posting
          BY <1>3
        <5>3. QED
          BY <5>2 DEF Posting
      <4>5. QED
        BY <1>2, <3>1, <4>3, <4>4, PostingsStayCounted
    <3>4. QED
      BY <3>2, <3>3
  <2>5. ASSUME NEW n \in Neighbor, NEW y \in Year, NEW z \in Year, PreviewCarryForward(n, y, z),
               UNCHANGED <<vars, payments, postings, lastPosting>>
        PROVE  MoneyInv'
    <3>1. <<y, n>> \in Account /\ <<z, n>> \in Account
      BY DEF Account
    <3>2. carryPreview' \in [Neighbor -> [from : Year \cup {0}, to : Year \cup {0},
                                          source : Int, target : Int]]
      BY <1>1, <2>5, <3>1 DEF PreviewCarryForward, MoneyInv, SettlementTypeOK
    <3>3. QED
      BY <2>5, <3>2 DEF MoneyInv, SettlementTypeOK, PostingsCounted
  <2>6. \A a \in Account : -Remaining(a) \in Int
    BY <1>1
  <2>7. \A amount \in PostingAmount : amount \in Int
    BY SettlementAssumption
  <2>8. QED
    BY <1>6, <2>1, <2>2, <2>3, <2>4, <2>5, <2>6, <2>7, StepOfLedger
<1>7. QED
  BY <1>4, <1>5, <1>6 DEF SettlementNext, DocumentStep, allVars

DocumentsInv == TypeInv /\ AmountInv

LEMMA DocumentsInvAlways == SettlementSpec => []DocumentsInv
BY ImplementsDocuments, TypeInvAlways, AmountInvAlways, PTL DEF DocumentsInv

LEMMA MoneyInvAlways == SettlementSpec => []MoneyInv
<1>1. ASSUME SettlementInit PROVE MoneyInv
  <2>1. NoCarry \in [from : Year \cup {0}, to : Year \cup {0}, source : Int, target : Int]
    BY DEF NoCarry
  <2>2. QED
    BY <1>1, <2>1, FS_EmptySet DEF SettlementInit, MoneyInv, SettlementTypeOK, PostingsCounted
<1>2. DocumentsInv /\ MoneyInv /\ [SettlementNext]_allVars => MoneyInv'
  BY MoneyStep DEF DocumentsInv
<1>3. QED
  BY <1>1, <1>2, DocumentsInvAlways, PTL DEF SettlementSpec

\* Payments, postings and confirmed balances are numbers of their accounts: no
\* arithmetic of settle, payout or carry-forward leaves the columns' types.
THEOREM MoneyTyped == SettlementSpec => []SettlementTypeOK
BY MoneyInvAlways, PTL DEF MoneyInv

-----------------------------------------------------------------------------
(* Carry-forwards stay whole *)

\* The two sides of a whole carry-forward.
Pair(sides, out, in) ==
  /\ sides = {out, in}
  /\ out.amount = -in.amount /\ out.voided = in.voided
  /\ in.acct = <<out.acct[1] + 1, out.acct[2]>>

Whole(sides) == sides = {} \/ \E out, in : Pair(sides, out, in)

LEMMA PairsStand ==
  ASSUME TransfersPaired, NEW transfer, transfer # 0
  PROVE  Whole(SidesOf(transfer))
<1>1. CASE SidesOf(transfer) = {}
  BY <1>1 DEF Whole
<1>2. CASE SidesOf(transfer) # {}
  <2>1. transfer \in {p.transfer : p \in postings} \ {0}
    BY <1>2 DEF SidesOf
  <2>2. PICK out, in \in postings : Pair(SidesOf(transfer), out, in)
    BY <2>1 DEF TransfersPaired, Pair
  <2>3. QED
    BY <2>2 DEF Whole
<1>3. QED
  BY <1>1, <1>2

\* Voiding or bringing back both sides leaves them opposite.
LEMMA RewrittenPair ==
  ASSUME NEW sides, sides \subseteq Posting, sides # {}, Whole(sides), NEW voided \in BOOLEAN
  PROVE  Whole({[p EXCEPT !.voided = voided] : p \in sides})
<1>1. PICK out, in : Pair(sides, out, in)
  BY DEF Whole
<1>2. out \in Posting /\ in \in Posting
  BY <1>1 DEF Pair
<1> DEFINE Rewritten(p) == [p EXCEPT !.voided = voided]
<1>3. \A p \in Posting : /\ Rewritten(p).amount = p.amount /\ Rewritten(p).acct = p.acct
                         /\ Rewritten(p).voided = voided
  BY DEF Posting
<1> HIDE DEF Rewritten
<1>4. {Rewritten(p) : p \in sides} = {Rewritten(out), Rewritten(in)}
  BY <1>1 DEF Pair
<1>5. Pair({Rewritten(p) : p \in sides}, Rewritten(out), Rewritten(in))
  BY <1>1, <1>2, <1>3, <1>4 DEF Pair
<1>6. Whole({Rewritten(p) : p \in sides})
  BY <1>5 DEF Whole
<1>7. QED
  BY <1>6 DEF Rewritten

LEMMA WholeStep ==
  ASSUME TypeInv, AmountInv, MoneyInv, TransfersPaired, [SettlementNext]_allVars,
         NEW transfer, transfer # 0
  PROVE  Whole(SidesOf(transfer)')
<1>1. Whole(SidesOf(transfer)) /\ SidesOf(transfer) \subseteq postings
  BY PairsStand DEF SidesOf
<1>2. SidesOf(transfer)' = {p \in postings' : p.transfer = transfer}
  BY DEF SidesOf
<1>3. lastPosting \in Nat /\ \A p \in postings : p \in Posting /\ p.transfer \in 0 .. lastPosting
  BY DEF MoneyInv, SettlementTypeOK, PostingsCounted
<1>4. lastPosting + 1 \in Nat /\ (lastPosting + 1) + 1 \in Nat
  BY <1>3
<1>5. CASE UNCHANGED moneyVars \/ PaymentStep
  <2>1. postings' = postings
    BY <1>5, StepOfPayments DEF moneyVars
  <2>2. QED
    BY <1>1, <1>2, <2>1 DEF SidesOf
<1>6. ASSUME NEW a \in Account, NEW amount \in Int, NEW origin \in {"manual", "payout"},
             Posts(a, amount, origin)
      PROVE  Whole(SidesOf(transfer)')
  <2>1. PICK row : row = PostingRow(lastPosting + 1, a, amount, 0, origin)
    OBVIOUS
  <2>2. row.transfer = 0 /\ postings' = postings \cup {row}
    BY <1>4, <1>6, <2>1, PostingRowType DEF Posts, Inserts
  <2>3. SidesOf(transfer)' = SidesOf(transfer)
    BY <1>2, <2>2 DEF SidesOf
  <2>4. QED
    BY <1>1, <2>3
<1>7. ASSUME NEW n \in Neighbor, NEW y \in Year, NEW z \in Year, Carries(n, y, z)
      PROVE  Whole(SidesOf(transfer)')
  <2>1. PICK amount : amount = Remaining(<<y, n>>)
    OBVIOUS
  <2>2. <<y, n>> \in Account /\ <<z, n>> \in Account /\ z = y + 1
    BY <1>7 DEF Account, Carries
  <2>3. amount \in Int /\ -amount \in Int
    <3>1. Remaining(<<y, n>>) \in Int
      BY <2>2, BalanceType DEF TypeInv
    <3>2. QED
      BY <2>1, <3>1
  <2>4. PICK out, in : /\ out = PostingRow(lastPosting + 1, <<y, n>>, -amount, lastPosting + 1, "carry")
                       /\ in = PostingRow((lastPosting + 1) + 1, <<z, n>>, amount, lastPosting + 1, "carry")
    OBVIOUS
  <2>5. /\ out.transfer = lastPosting + 1 /\ out.acct = <<y, n>> /\ out.amount = -amount /\ ~out.voided
        /\ in.transfer = lastPosting + 1 /\ in.acct = <<z, n>> /\ in.amount = amount /\ ~in.voided
        /\ out.voided \in BOOLEAN /\ in.voided \in BOOLEAN
    <3>1. ASSUME NEW id \in Nat, NEW t \in Nat, NEW a \in Account, NEW sum \in Int
          PROVE  LET row == PostingRow(id, a, sum, t, "carry")
                 IN  /\ row.acct = a /\ row.amount = sum /\ row.transfer = t
                     /\ ~row.voided /\ row.voided \in BOOLEAN
      BY PostingRowType DEF PostingRow
    <3>2. PICK b, c : b = <<y, n>> /\ c = <<z, n>>
      OBVIOUS
    <3>3. PICK first, second \in Nat : first = lastPosting + 1 /\ second = (lastPosting + 1) + 1
      BY <1>4
    <3>4. /\ out = PostingRow(first, b, -amount, first, "carry")
          /\ in = PostingRow(second, c, amount, first, "carry")
      BY <2>4, <3>2, <3>3
    <3>5. b \in Account /\ c \in Account
      BY <2>2, <3>2
    <3>6. /\ out.transfer = first /\ out.acct = b /\ out.amount = -amount
          /\ ~out.voided /\ out.voided \in BOOLEAN
      BY <2>3, <3>1, <3>4, <3>5
    <3>7. /\ in.transfer = first /\ in.acct = c /\ in.amount = amount
          /\ ~in.voided /\ in.voided \in BOOLEAN
      BY <2>3, <3>1, <3>4, <3>5
    <3>8. QED
      BY <3>2, <3>3, <3>6, <3>7
  <2>6. CarrySides(n, y, z) = {out, in}
    BY <2>1, <2>4 DEF CarrySides
  <2>7. postings' = postings \cup {out, in}
    BY <1>7, <2>6 DEF Carries, Inserts
  <2>8. CASE transfer = lastPosting + 1
    <3>1. SidesOf(transfer) = {}
      <4>1. ASSUME NEW p \in postings PROVE p.transfer # lastPosting + 1
        BY <1>3
      <4>2. QED
        BY <2>8, <4>1 DEF SidesOf
    <3>2. SidesOf(transfer)' = {out, in}
      BY <1>2, <2>5, <2>7, <2>8, <3>1 DEF SidesOf
    <3>3. Pair({out, in}, out, in)
      BY <2>2, <2>5 DEF Pair
    <3>4. QED
      BY <3>2, <3>3 DEF Whole
  <2>9. CASE transfer # lastPosting + 1
    <3>1. SidesOf(transfer)' = SidesOf(transfer)
      BY <1>2, <2>5, <2>7, <2>9 DEF SidesOf
    <3>2. QED
      BY <1>1, <3>1
  <2>10. QED
    BY <2>8, <2>9
<1>8. ASSUME NEW p \in postings, NEW rows, Rewrites(p, rows)
      PROVE  Whole(SidesOf(transfer)')
  <2>1. p.transfer = 0 /\ \A q \in rows : q.transfer = 0
    BY <1>8 DEF Rewrites
  <2>2. postings' = (postings \ {p}) \cup rows
    BY <1>8 DEF Rewrites, ReplacePostings
  <2>3. SidesOf(transfer)' = SidesOf(transfer)
    BY <1>2, <2>1, <2>2 DEF SidesOf
  <2>4. QED
    BY <1>1, <2>3
<1>9. ASSUME NEW undone, NEW rows, RewritesTransfer(undone, rows)
      PROVE  Whole(SidesOf(transfer)')
  <2>1. postings' = (postings \ SidesOf(undone)) \cup rows /\ SidesOf(undone) # {}
    BY <1>9 DEF RewritesTransfer, ReversibleTransfer, ReplacePostings
  <2>2. \A q \in rows : q.transfer = undone
    <3>1. \A voided : \A p \in Posting : [p EXCEPT !.voided = voided].transfer = p.transfer
      BY DEF Posting
    <3>2. ASSUME NEW q \in rows PROVE q.transfer = undone
      <4>1. PICK voided \in BOOLEAN : rows = {[p EXCEPT !.voided = voided] : p \in SidesOf(undone)}
        BY <1>9, <3>2 DEF RewritesTransfer
      <4>2. PICK p \in SidesOf(undone) : q = [p EXCEPT !.voided = voided]
        BY <3>2, <4>1
      <4>3. p \in Posting /\ p.transfer = undone
        BY <1>3, <4>2 DEF SidesOf
      <4>4. QED
        BY <3>1, <4>2, <4>3
    <3>3. QED
      BY <3>2
  <2>3. CASE transfer # undone
    <3>1. SidesOf(transfer)' = SidesOf(transfer)
      BY <1>2, <2>1, <2>2, <2>3 DEF SidesOf
    <3>2. QED
      BY <1>1, <3>1
  <2>4. CASE transfer = undone
    <3>1. SidesOf(transfer)' = rows
      BY <1>2, <2>1, <2>2, <2>4 DEF SidesOf
    <3>2. CASE rows = {}
      BY <3>1, <3>2 DEF Whole
    <3>3. CASE rows # {}
      <4>1. PICK voided \in BOOLEAN : rows = {[p EXCEPT !.voided = voided] : p \in SidesOf(undone)}
        BY <1>9, <3>3 DEF RewritesTransfer
      <4>2. PICK sides : sides = SidesOf(undone)
        OBVIOUS
      <4>3. Whole({[p EXCEPT !.voided = voided] : p \in sides})
        BY <1>1, <1>3, <2>1, <2>4, <4>2, RewrittenPair
      <4>4. QED
        BY <3>1, <4>1, <4>2, <4>3
    <3>4. QED
      BY <3>2, <3>3
  <2>5. QED
    BY <2>3, <2>4
<1>10. CASE LedgerStep
  <2>1. \A a \in Account : -Remaining(a) \in Int
    <3>1. \A a \in Account : Remaining(a) \in Int
      BY BalanceType DEF TypeInv
    <3>2. QED
      BY <3>1
  <2>2. \A amount \in PostingAmount : amount \in Int
    BY SettlementAssumption
  <2>3. CASE UNCHANGED postings
    BY <1>1, <1>2, <2>3 DEF SidesOf
  <2>4. QED
    BY <1>6, <1>7, <1>8, <1>9, <1>10, <2>1, <2>2, <2>3, StepOfLedger
<1>11. QED
  BY <1>5, <1>10 DEF SettlementNext, DocumentStep, allVars

LEMMA PairedStep ==
  ASSUME TypeInv, AmountInv, MoneyInv, TransfersPaired, [SettlementNext]_allVars
  PROVE  TransfersPaired'
<1>1. SUFFICES ASSUME NEW transfer \in {p.transfer : p \in postings'} \ {0}
               PROVE  \E out, in \in postings' : Pair({p \in postings' : p.transfer = transfer}, out, in)
  BY DEF TransfersPaired, Pair, SidesOf
<1>2. PICK sides : sides = {p \in postings' : p.transfer = transfer}
  OBVIOUS
<1>3. Whole(sides)
  <2>1. Whole(SidesOf(transfer)')
    BY WholeStep
  <2>2. QED
    BY <1>2, <2>1 DEF SidesOf
<1>4. sides # {} /\ sides \subseteq postings'
  BY <1>1, <1>2
<1>5. PICK out, in : Pair(sides, out, in)
  BY <1>3, <1>4 DEF Whole
<1>6. out \in postings' /\ in \in postings'
  BY <1>4, <1>5 DEF Pair
<1>7. QED
  BY <1>2, <1>5, <1>6

\* No edit, voiding or removal ever leaves half a carry-forward behind: both sides
\* are opposite amounts of one neighbor in consecutive years, together or not at all.
THEOREM CarryForwardsStayWhole == SettlementSpec => []TransfersPaired
<1>1. SettlementInit => TransfersPaired
  BY DEF SettlementInit, TransfersPaired
<1>2. DocumentsInv /\ MoneyInv /\ TransfersPaired /\ [SettlementNext]_allVars => TransfersPaired'
  BY PairedStep DEF DocumentsInv
<1>3. QED
  BY <1>1, <1>2, DocumentsInvAlways, MoneyInvAlways, PTL DEF SettlementSpec

-----------------------------------------------------------------------------
(* What moves a balance *)

SumOfPostings(rows) == SumFunction([p \in rows |-> p.amount])
Standing(a) == {p \in postings : p.acct = a /\ ~p.voided}

SumOfPayments(rows, ids) == SumFunction([i \in ids |-> rows[i].amount])
Kept(a) == {i \in DOMAIN payments : payments[i].acct = a /\ ~payments[i].deleted}

LEMMA PostedIsSum ==
  ASSUME NEW a
  PROVE  PostedTo(a) = SumOfPostings(Standing(a))
<1>1. {q \in PostingsOf(a) : ~q.voided} = Standing(a)
  BY DEF PostingsOf, Standing
<1>2. QED
  BY <1>1 DEF PostedTo, SumOfPostings

LEMMA PaidIsSum ==
  ASSUME NEW a
  PROVE  Paid(a) = SumOfPayments(payments, Kept(a))
<1>1. {j \in PaymentsOf(a) : ~payments[j].deleted} = Kept(a)
  BY DEF PaymentsOf, Kept
<1>2. QED
  BY <1>1 DEF Paid, SumOfPayments

LEMMA PostingAdds ==
  ASSUME NEW rows, IsFiniteSet(rows), \A p \in rows : p.amount \in Int,
         NEW row, row \notin rows, row.amount \in Int
  PROVE  SumOfPostings(rows \cup {row}) = SumOfPostings(rows) + row.amount
<1> DEFINE f == [p \in rows |-> p.amount]
           g == [p \in rows \cup {row} |-> p.amount]
<1>1. SumOfPostings(rows) = SumFunctionOnSet(f, rows)
      /\ SumOfPostings(rows \cup {row}) = SumFunctionOnSet(g, rows \cup {row})
  BY DEF SumOfPostings, SumFunction
<1>2. /\ \A p \in rows : f[p] = g[p]
      /\ \A p \in rows \cup {row} : g[p] \in Int
      /\ g[row] = row.amount
  OBVIOUS
<1> HIDE DEF f, g
<1>3. SumFunctionOnSet(g, rows \cup {row}) = SumFunctionOnSet(g, rows) + g[row]
  BY <1>2, SumWith
<1>4. SumFunctionOnSet(f, rows) = SumFunctionOnSet(g, rows)
  BY <1>2, SumSame
<1>5. QED
  BY <1>1, <1>2, <1>3, <1>4

LEMMA PaymentAdds ==
  ASSUME NEW rows, NEW more, NEW ids, IsFiniteSet(ids), \A i \in ids : rows[i].amount \in Int,
         \A i \in ids : more[i] = rows[i], NEW new, new \notin ids, more[new].amount \in Int
  PROVE  SumOfPayments(more, ids \cup {new}) = SumOfPayments(rows, ids) + more[new].amount
<1> DEFINE f == [i \in ids |-> rows[i].amount]
           g == [i \in ids \cup {new} |-> more[i].amount]
<1>1. SumOfPayments(rows, ids) = SumFunctionOnSet(f, ids)
      /\ SumOfPayments(more, ids \cup {new}) = SumFunctionOnSet(g, ids \cup {new})
  BY DEF SumOfPayments, SumFunction
<1>2. /\ \A i \in ids : f[i] = g[i]
      /\ \A i \in ids \cup {new} : g[i] \in Int
      /\ g[new] = more[new].amount
  OBVIOUS
<1> HIDE DEF f, g
<1>3. SumFunctionOnSet(g, ids \cup {new}) = SumFunctionOnSet(g, ids) + g[new]
  BY <1>2, SumWith
<1>4. SumFunctionOnSet(f, ids) = SumFunctionOnSet(g, ids)
  BY <1>2, SumSame
<1>5. QED
  BY <1>1, <1>2, <1>3, <1>4

\* Only the documents and bookings decide what is billed.
LEMMA BilledKept ==
  ASSUME UNCHANGED vars, NEW a
  PROVE  Billed(a)' = Billed(a)
BY DEF vars, Billed, SumGross, GrossByDoc, Credited, IssuedInvoices, IssuedCredits, Issued,
       OfAccount, Ids, ContentOf, Pending, Live, Claimed

LEMMA PaidKept ==
  ASSUME UNCHANGED payments, NEW a
  PROVE  Paid(a)' = Paid(a)
BY DEF Paid, PaymentsOf

LEMMA PostedKept ==
  ASSUME MoneyInv, NEW a, Standing(a)' = Standing(a)
  PROVE  PostedTo(a)' = PostedTo(a)
<1>1. {q \in PostingsOf(a) : ~q.voided} = Standing(a)
  BY DEF PostingsOf, Standing
<1>2. {q \in PostingsOf(a) : ~q.voided}' = Standing(a)'
  BY DEF PostingsOf, Standing
<1>3. QED
  BY <1>1, <1>2 DEF PostedTo

\* One posting comes to stand on account a.
LEMMA PostedGrows ==
  ASSUME MoneyInv, NEW a, NEW row, row.amount \in Int,
         Standing(a)' = Standing(a) \cup {row}, row \notin Standing(a)
  PROVE  PostedTo(a)' = PostedTo(a) + row.amount
<1>1. PICK rows : rows = Standing(a)
  OBVIOUS
<1>2. rows \subseteq postings
  BY <1>1 DEF Standing
<1>3. IsFiniteSet(rows) /\ \A p \in rows : p.amount \in Int
  BY <1>2, FS_Subset DEF MoneyInv, PostingsCounted, SettlementTypeOK, Posting
<1>4. SumOfPostings(rows \cup {row}) = SumOfPostings(rows) + row.amount
  BY <1>1, <1>3, PostingAdds
<1>5. PostedTo(a) = SumOfPostings(rows)
  BY <1>1, PostedIsSum
<1>6. {q \in PostingsOf(a) : ~q.voided}' = rows \cup {row}
  BY <1>1 DEF PostingsOf, Standing
<1>7. PostedTo(a)' = SumOfPostings(rows \cup {row})
  BY <1>6 DEF PostedTo, SumOfPostings
<1>8. QED
  BY <1>4, <1>5, <1>7

LEMMA PaidGrows ==
  ASSUME MoneyInv, NEW row \in Payment, ~row.deleted, payments' = Append(payments, row)
  PROVE  Paid(row.acct)' = Paid(row.acct) + row.amount
<1> DEFINE new == Len(payments) + 1
<1>1. payments \in Seq(Payment) /\ DOMAIN payments = 1 .. Len(payments) /\ Len(payments) \in Nat
  BY DEF MoneyInv, SettlementTypeOK
<1>2. /\ DOMAIN payments' = DOMAIN payments \cup {new} /\ new \notin DOMAIN payments
      /\ payments'[new] = row /\ \A i \in DOMAIN payments : payments'[i] = payments[i]
  BY <1>1
<1> HIDE DEF new
<1>3. PICK rows, more, ids, added, a : /\ rows = payments /\ more = payments' /\ ids = Kept(row.acct)
                                       /\ added = new /\ a = row.acct
  OBVIOUS
<1>4. ids \in SUBSET (DOMAIN payments)
  BY <1>3 DEF Kept
<1>5. IsFiniteSet(ids) /\ \A i \in ids : rows[i].amount \in Int
  <2>1. IsFiniteSet(ids) /\ \A i \in ids : payments[i].amount \in Nat
    BY <1>4, PaymentsFinite DEF MoneyInv
  <2>2. QED
    BY <1>3, <2>1
<1>6. added \notin ids /\ more[added] = row /\ (\A i \in ids : more[i] = rows[i]) /\ row.amount \in Int
  BY <1>2, <1>3, <1>4 DEF Payment
<1>7. SumOfPayments(more, ids \cup {added}) = SumOfPayments(rows, ids) + row.amount
  BY <1>5, <1>6, PaymentAdds
<1>8. {j \in PaymentsOf(a) : ~payments[j].deleted}' = ids \cup {added}
  BY <1>2, <1>3 DEF PaymentsOf, Kept
<1>9. Paid(a)' = SumOfPayments(more, ids \cup {added})
  BY <1>3, <1>8 DEF Paid, SumOfPayments
<1>10. Paid(a) = SumOfPayments(rows, ids)
  BY <1>3, PaidIsSum
<1>11. QED
  BY <1>3, <1>7, <1>9, <1>10

LEMMA SettledByPayment ==
  ASSUME TypeInv, AmountInv, MoneyInv, NEW row \in Payment, ~row.deleted,
         payments' = Append(payments, row), UNCHANGED <<vars, postings>>,
         row.amount = Remaining(row.acct)
  PROVE  Remaining(row.acct)' = 0
<1> DEFINE b == Billed(row.acct)
           q == PostedTo(row.acct)
           d == Paid(row.acct)
<1>1. row.acct \in Account
  BY DEF Payment
<1>2. b \in Int /\ q \in Int /\ d \in Nat
  BY <1>1, BalanceType DEF TypeInv
<1>3. Billed(row.acct)' = b
  <2>1. \A a : Billed(a)' = Billed(a)
    BY BilledKept
  <2>2. QED
    BY <2>1
<1>4. PostedTo(row.acct)' = q
  BY DEF PostedTo, PostingsOf
<1>5. Paid(row.acct)' = d + row.amount
  BY PaidGrows
<1>6. row.amount = b + q - d
  BY DEF Remaining
<1>7. Remaining(row.acct)' = Billed(row.acct)' + PostedTo(row.acct)' - Paid(row.acct)'
  BY DEF Remaining
<1> HIDE DEF b, q, d
<1>8. b + q - (d + row.amount) = 0
  BY <1>2, <1>6
<1>9. QED
  BY <1>3, <1>4, <1>5, <1>7, <1>8

\* A step of the ledger that brings one posting to account a adds its amount to
\* the balance; one that brings none leaves the balance alone.
LEMMA BalanceGrows ==
  ASSUME TypeInv, AmountInv, MoneyInv, NEW a \in Account, NEW row, row.amount \in Int,
         Standing(a)' = Standing(a) \cup {row}, row \notin Standing(a), UNCHANGED <<vars, payments>>
  PROVE  Remaining(a)' = Remaining(a) + row.amount
<1> DEFINE b == Billed(a)
           q == PostedTo(a)
           d == Paid(a)
<1>1. b \in Int /\ q \in Int /\ d \in Nat
  BY BalanceType DEF TypeInv
<1>2. Billed(a)' = b /\ Paid(a)' = d /\ PostedTo(a)' = q + row.amount
  BY BilledKept, PaidKept, PostedGrows
<1>3. /\ Remaining(a)' = Billed(a)' + PostedTo(a)' - Paid(a)'
      /\ Remaining(a) = b + q - d
  BY DEF Remaining
<1> HIDE DEF b, q, d
<1>4. b + (q + row.amount) - d = (b + q - d) + row.amount
  BY <1>1
<1>5. QED
  BY <1>2, <1>3, <1>4

LEMMA BalanceStays ==
  ASSUME MoneyInv, NEW a, Standing(a)' = Standing(a), UNCHANGED <<vars, payments>>
  PROVE  Remaining(a)' = Remaining(a)
<1>1. Billed(a)' = Billed(a) /\ Paid(a)' = Paid(a) /\ PostedTo(a)' = PostedTo(a)
  BY BilledKept, PaidKept, PostedKept
<1>2. QED
  BY <1>1 DEF Remaining

\* What SettlesExactly says of one carry-forward.
CarriesWhole(p) ==
  LET next == <<p.acct[1] + 1, p.acct[2]>>
  IN /\ Remaining(p.acct)' = 0
     /\ Remaining(next)' = Remaining(next) + Remaining(p.acct)
     /\ \A a \in Account \ {p.acct, next} : Remaining(a)' = Remaining(a)

CarriesShown(p) ==
  LET next == <<p.acct[1] + 1, p.acct[2]>>
      shown == carryPreview[p.acct[2]]
  IN /\ shown.from = p.acct[1] /\ Remaining(p.acct) = shown.source
     /\ Remaining(next)' = shown.target + shown.source

LEMMA CarryBalances ==
  ASSUME TypeInv, AmountInv, MoneyInv, NEW n \in Neighbor, NEW y \in Year, NEW z \in Year,
         Carries(n, y, z), NEW p \in postings' \ postings
  PROVE  p.origin # "payout" /\ (p.id = p.transfer => CarriesWhole(p) /\ CarriesShown(p))
<1>1. PICK amount, from, to : amount = Remaining(<<y, n>>) /\ from = <<y, n>> /\ to = <<z, n>>
  OBVIOUS
<1>2. /\ from \in Account /\ to \in Account /\ z = y + 1 /\ from # to
      /\ to = <<from[1] + 1, from[2]>>
  <2>1. z = y + 1 /\ <<y, n>> \in Account /\ <<z, n>> \in Account
    BY <1>1 DEF Account, Carries
  <2>2. y # z
    BY <2>1, SettlementAssumption
  <2>3. QED
    BY <1>1, <2>1, <2>2
<1>3. amount \in Int /\ -amount \in Int
  <2>1. Remaining(<<y, n>>) \in Int
    BY <1>1, <1>2, BalanceType DEF TypeInv
  <2>2. QED
    BY <1>1, <2>1
<1>4. PICK first \in Nat, second \in Nat :
        first = lastPosting + 1 /\ second = first + 1 /\ first # second
        /\ \A r \in postings : r.id # first /\ r.id # second
  <2>1. lastPosting \in Nat /\ \A r \in postings : r.id \in 1 .. lastPosting
    BY DEF MoneyInv, SettlementTypeOK, PostingsCounted
  <2>2. QED
    BY <2>1
<1>5. PICK out, in : /\ out = PostingRow(first, from, -amount, first, "carry")
                     /\ in = PostingRow(second, to, amount, first, "carry")
  OBVIOUS
<1>6. /\ out.id = first /\ out.transfer = first /\ out.acct = from /\ out.amount = -amount
      /\ ~out.voided /\ out.origin = "carry"
      /\ in.id = second /\ in.transfer = first /\ in.acct = to /\ in.amount = amount
      /\ ~in.voided /\ in.origin = "carry"
  <2>1. ASSUME NEW id \in Nat, NEW t \in Nat, NEW a \in Account, NEW sum \in Int
        PROVE  LET row == PostingRow(id, a, sum, t, "carry")
               IN  /\ row.id = id /\ row.acct = a /\ row.amount = sum /\ row.transfer = t
                   /\ ~row.voided /\ row.origin = "carry"
    BY PostingRowType
  <2>2. /\ out.id = first /\ out.transfer = first /\ out.acct = from /\ out.amount = -amount
        /\ ~out.voided /\ out.origin = "carry"
    <3>1. first \in Nat /\ from \in Account /\ -amount \in Int
      BY <1>2, <1>3
    <3>2. out = PostingRow(first, from, -amount, first, "carry")
      BY <1>5
    <3>3. QED
      BY <2>1, <3>1, <3>2
  <2>3. /\ in.id = second /\ in.transfer = first /\ in.acct = to /\ in.amount = amount
        /\ ~in.voided /\ in.origin = "carry"
    <3>1. second \in Nat /\ first \in Nat /\ to \in Account /\ amount \in Int
      BY <1>2, <1>3
    <3>2. in = PostingRow(second, to, amount, first, "carry")
      BY <1>5
    <3>3. QED
      BY <2>1, <3>1, <3>2
  <2>4. QED
    BY <2>2, <2>3
<1>7. /\ postings' = postings \cup {out, in} /\ UNCHANGED <<vars, payments>>
      /\ out \notin postings /\ in \notin postings
  <2>1. CarrySides(n, y, z) = {out, in}
    BY <1>1, <1>4, <1>5 DEF CarrySides
  <2>2. QED
    BY <1>4, <1>6, <2>1 DEF Carries, Inserts
<1>8. Remaining(from)' = Remaining(from) + -amount
  <2>1. Standing(from)' = Standing(from) \cup {out} /\ out \notin Standing(from)
    BY <1>2, <1>6, <1>7 DEF Standing
  <2>2. QED
    BY <1>2, <1>3, <1>6, <1>7, <2>1, BalanceGrows
<1>9. Remaining(to)' = Remaining(to) + amount
  <2>1. Standing(to)' = Standing(to) \cup {in} /\ in \notin Standing(to)
    BY <1>2, <1>6, <1>7 DEF Standing
  <2>2. QED
    BY <1>2, <1>3, <1>6, <1>7, <2>1, BalanceGrows
<1>10. ASSUME NEW a \in Account \ {from, to} PROVE Remaining(a)' = Remaining(a)
  <2>1. Standing(a)' = Standing(a)
    BY <1>6, <1>7, <1>10 DEF Standing
  <2>2. QED
    BY <1>7, <2>1, BalanceStays
<1>11. Remaining(from)' = 0 /\ Remaining(from) = amount
  <2>1. Remaining(from) = amount
    BY <1>1
  <2>2. amount + -amount = 0
    BY <1>3
  <2>3. QED
    BY <1>8, <2>1, <2>2
<1>12. CASE p = out
  <2>1. PICK shown : shown = carryPreview[n]
    OBVIOUS
  <2>2. shown = [from |-> y, to |-> z, source |-> amount, target |-> Remaining(to)]
    BY <1>1, <2>1 DEF Carries, CarryConfirmed
  <2>3. shown.from = from[1] /\ Remaining(from) = shown.source /\ shown.target = Remaining(to)
    BY <1>1, <1>11, <2>2
  <2>4. Remaining(to)' = shown.target + shown.source
    BY <1>9, <1>11, <2>3
  <2>5. p.acct = from /\ carryPreview[p.acct[2]] = shown /\ <<p.acct[1] + 1, p.acct[2]>> = to
    BY <1>1, <1>2, <1>6, <1>12, <2>1
  <2>6. CarriesWhole(p)
    BY <1>2, <1>6, <1>9, <1>10, <1>11, <1>12 DEF CarriesWhole
  <2>7. CarriesShown(p)
    BY <2>3, <2>4, <2>5 DEF CarriesShown
  <2>8. p.origin # "payout"
    BY <1>6, <1>12
  <2>9. QED
    BY <2>6, <2>7, <2>8
<1>13. CASE p = in
  BY <1>4, <1>6, <1>13
<1>14. QED
  BY <1>7, <1>12, <1>13

PaymentsMade == {payments'[i] : i \in DOMAIN payments' \ DOMAIN payments}
PostingsMade == {p \in postings' \ postings : p.id > lastPosting}

LEMMA PaymentsSettle ==
  ASSUME TypeInv, AmountInv, MoneyInv, [SettlementNext]_allVars,
         NEW row \in PaymentsMade, row.key = NoKey
  PROVE  Remaining(row.acct)' = 0
<1>1. payments' # payments
  BY DEF PaymentsMade
<1>2. PaymentStep
  <2>1. ASSUME LedgerStep PROVE FALSE
    BY <1>1, <2>1, StepOfLedger DEF Posts, Carries, Inserts, Rewrites, RewritesTransfer, ReplacePostings
  <2>2. QED
    BY <1>1, <2>1 DEF SettlementNext, DocumentStep, moneyVars, allVars
<1>3. payments \in Seq(Payment)
  BY DEF MoneyInv, SettlementTypeOK
<1>4. ASSUME NEW i \in DOMAIN payments, NEW other \in Payment, payments' = [payments EXCEPT ![i] = other]
      PROVE  FALSE
  <2>1. DOMAIN payments' = DOMAIN payments
    BY <1>3, <1>4
  <2>2. QED
    BY <2>1 DEF PaymentsMade
<1>5. PICK made \in Payment : /\ payments' = Append(payments, made) /\ ~made.deleted
                              /\ made.key = NoKey => made.amount = Remaining(made.acct) /\ UNCHANGED vars
  BY <1>2, <1>4, StepOfPayments
<1>6. row = made
  <2>1. DOMAIN payments = 1 .. Len(payments) /\ DOMAIN payments' = 1 .. (Len(payments) + 1)
        /\ payments'[Len(payments) + 1] = made /\ Len(payments) \in Nat
    BY <1>3, <1>5
  <2>2. \A i \in DOMAIN payments' \ DOMAIN payments : i = Len(payments) + 1
    BY <2>1
  <2>3. QED
    BY <2>1, <2>2 DEF PaymentsMade
<1>7. UNCHANGED postings
  BY <1>2, StepOfPayments
<1>8. QED
  BY <1>5, <1>6, <1>7, SettledByPayment

LEMMA PostingsSettle ==
  ASSUME TypeInv, AmountInv, MoneyInv, [SettlementNext]_allVars, NEW p \in PostingsMade
  PROVE  /\ p.origin = "payout" => Remaining(p.acct)' = 0
         /\ p.id = p.transfer => CarriesWhole(p) /\ CarriesShown(p)
<1>1. p \in postings' \ postings /\ p.id > lastPosting
  BY DEF PostingsMade
<1>2. LedgerStep
  <2>1. postings' # postings
    BY <1>1
  <2>2. QED
    BY <2>1, StepOfPayments DEF SettlementNext, DocumentStep, moneyVars, allVars
<1>3. lastPosting \in Nat /\ \A q \in postings : q \in Posting /\ q.id \in 1 .. lastPosting
  BY DEF MoneyInv, SettlementTypeOK, PostingsCounted
<1>4. ASSUME NEW a \in Account, NEW amount \in Int, NEW origin \in {"manual", "payout"},
             Posts(a, amount, origin)
      PROVE  /\ p.origin = origin /\ p.id # p.transfer /\ p.acct = a
             /\ Remaining(a)' = Remaining(a) + amount
  <2>1. PICK row : row = PostingRow(lastPosting + 1, a, amount, 0, origin)
    OBVIOUS
  <2>2. lastPosting + 1 \in Nat /\ lastPosting + 1 # 0
    BY <1>3
  <2>3. /\ row.id = lastPosting + 1 /\ row.acct = a /\ row.amount = amount /\ row.transfer = 0
        /\ row.origin = origin /\ ~row.voided
    BY <2>1, <2>2, PostingRowType
  <2>4. postings' = postings \cup {row} /\ UNCHANGED <<vars, payments>>
    BY <1>4, <2>1 DEF Posts, Inserts
  <2>5. p = row /\ row \notin postings
    BY <1>1, <2>4
  <2>6. Standing(a)' = Standing(a) \cup {row} /\ row \notin Standing(a)
    BY <2>3, <2>4, <2>5 DEF Standing
  <2>7. QED
    BY <2>2, <2>3, <2>4, <2>5, <2>6, BalanceGrows
<1>5. ASSUME NEW a \in Account, NEW amount \in PostingAmount, Posts(a, amount, "manual")
      PROVE  p.origin # "payout" /\ p.id # p.transfer
  BY <1>4, <1>5, SettlementAssumption
<1>6. ASSUME NEW a \in Account, Posts(a, -Remaining(a), "payout")
      PROVE  Remaining(p.acct)' = 0 /\ p.id # p.transfer
  <2>1. PICK amount : amount = Remaining(a)
    OBVIOUS
  <2>2. amount \in Int /\ -amount \in Int
    <3>1. Remaining(a) \in Int
      BY BalanceType DEF TypeInv
    <3>2. QED
      BY <2>1, <3>1
  <2>3. p.acct = a /\ p.id # p.transfer /\ Remaining(a)' = Remaining(a) + -amount
    BY <1>4, <1>6, <2>1, <2>2
  <2>4. amount + -amount = 0
    BY <2>2
  <2>5. QED
    BY <2>1, <2>3, <2>4
<1>7. ASSUME NEW old \in postings, NEW rows, Rewrites(old, rows)
      PROVE  FALSE
  <2>1. p \in rows
    BY <1>1, <1>7 DEF Rewrites, ReplacePostings
  <2>2. p.id = old.id
    BY <1>7, <2>1 DEF Rewrites
  <2>3. old.id \in 1 .. lastPosting
    BY <1>3
  <2>4. QED
    BY <1>1, <1>3, <2>2, <2>3
<1>8. ASSUME NEW transfer, NEW rows, RewritesTransfer(transfer, rows)
      PROVE  FALSE
  <2>1. p \in rows
    BY <1>1, <1>8 DEF RewritesTransfer, ReplacePostings
  <2>2. PICK voided \in BOOLEAN : rows = {[q EXCEPT !.voided = voided] : q \in SidesOf(transfer)}
    BY <1>8, <2>1 DEF RewritesTransfer
  <2>3. PICK q \in SidesOf(transfer) : p = [q EXCEPT !.voided = voided]
    BY <2>1, <2>2
  <2>4. q \in Posting /\ q.id \in 1 .. lastPosting
    BY <1>3, <2>3 DEF SidesOf
  <2>5. p.id = q.id
    BY <2>3, <2>4 DEF Posting
  <2>6. QED
    BY <1>1, <1>3, <2>4, <2>5
<1>9. ~UNCHANGED postings
  BY <1>1
<1>10. QED
  BY <1>2, <1>5, <1>6, <1>7, <1>8, <1>9, CarryBalances, <1>1, StepOfLedger

\* A payment that settles the rest, a payout and a carry-forward leave exactly zero
\* on the account they act on, and a carry-forward moves exactly that balance to
\* the neighbor's next year, touches no other account, and leaves the next year at the
\* sum of the two balances the operator confirmed.
THEOREM SettlementIsExact == SettlementSpec => SettlesExactly
<1>1. DocumentsInv /\ MoneyInv /\ [SettlementNext]_allVars
        => [LET settled == {payments'[i] : i \in DOMAIN payments' \ DOMAIN payments}
                posted == {p \in postings' \ postings : p.id > lastPosting}
            IN /\ \A row \in settled : row.key = NoKey => Remaining(row.acct)' = 0
               /\ \A p \in posted :
                    /\ p.origin = "payout" \/ p.id = p.transfer => Remaining(p.acct)' = 0
                    /\ p.id = p.transfer =>
                         LET next == <<p.acct[1] + 1, p.acct[2]>>
                             shown == carryPreview[p.acct[2]]
                         IN /\ shown.from = p.acct[1] /\ Remaining(p.acct) = shown.source
                            /\ Remaining(next)' = shown.target + shown.source
                            /\ Remaining(next)' = Remaining(next) + Remaining(p.acct)
                            /\ \A a \in Account \ {p.acct, next} : Remaining(a)' = Remaining(a)]_allVars
  <2>1. ASSUME DocumentsInv, MoneyInv, [SettlementNext]_allVars
        PROVE  /\ \A row \in PaymentsMade : row.key = NoKey => Remaining(row.acct)' = 0
               /\ \A p \in PostingsMade : /\ p.origin = "payout" => Remaining(p.acct)' = 0
                                          /\ p.id = p.transfer => CarriesWhole(p) /\ CarriesShown(p)
    BY <2>1, PaymentsSettle, PostingsSettle DEF DocumentsInv
  <2>2. QED
    BY <2>1 DEF PaymentsMade, PostingsMade, CarriesWhole, CarriesShown
<1>2. QED
  BY <1>1, DocumentsInvAlways, MoneyInvAlways, PTL DEF SettlementSpec, SettlesExactly

-----------------------------------------------------------------------------
(* What an invoice adds to the balance *)

LEMMA InvoicesMove ==
  ASSUME TypeInv, [SettlementNext]_allVars, Issued("invoice")' # Issued("invoice")
  PROVE  /\ UNCHANGED moneyVars
         /\ \/ \E a \in Account, on \in Day : IssueInvoice(a, on)
            \/ \E i \in Ids : StornoInvoice(i)
<1>1. docs' # docs
  BY DEF Issued, Ids
<1>2. ~UNCHANGED vars
  BY <1>1 DEF vars
<1>3. ASSUME Credits PROVE FALSE
  <2>1. PICK kind \in {"gutschrift", "anzahlung"}, a \in Account :
          \E ref, number, amount : Notes(kind, a, ref, number, amount)
    BY <1>3, CreditsNote DEF TypeInv
  <2>2. PICK ref, number, amount : Notes(kind, a, ref, number, amount)
    BY <2>1
  <2>3. PICK on : IssueDocument(kind, a, ref, number, on, amount, NoContent)
    BY <2>2 DEF Notes
  <2>4. /\ Ids' = Ids \cup {Len(docs) + 1} /\ \A i \in Ids : docs'[i] = docs[i]
        /\ docs'[Len(docs) + 1].kind # "invoice"
    BY <2>3, AppendKeeps DEF TypeInv
  <2>5. QED
    BY <2>4 DEF Issued
<1>4. ASSUME PaymentStep PROVE FALSE
  <2>1. CASE \E i \in Ids, amount \in PaymentAmount, key \in FormKey, pct \in SkontoPct :
               RecordPaymentWithSkonto(i, amount, key, pct)
    BY <1>3, <2>1, SkontoIsCredit DEF Credits
  <2>2. CASE ~\E i \in Ids, amount \in PaymentAmount, key \in FormKey, pct \in SkontoPct :
                RecordPaymentWithSkonto(i, amount, key, pct)
    BY <1>2, <1>4, <2>2 DEF PaymentStep, RecordPayment, UpdatePayment, DeletePayment, RestorePayment,
                            ChangePayment, SettleRemaining
  <2>3. QED
    BY <2>1, <2>2
<1>5. ASSUME NEW i \in Ids, StornoDocument(i) PROVE FALSE
  <2>1. Reverse({i}) /\ docs[i].kind # "invoice"
    BY <1>5 DEF StornoDocument, Reversible
  <2>2. Reverses({i})
    BY <2>1, ReverseType DEF Reverse, Reverses
  <2>3. /\ Ids' = Ids
        /\ \A j \in Ids : /\ docs'[j].kind = docs[j].kind
                          /\ docs'[j].status = IF j \in {i} THEN "canceled" ELSE docs[j].status
    <3>1. PICK ids \in SUBSET Ids : ids = {i}
      OBVIOUS
    <3>2. Reverses(ids)
      BY <2>2, <3>1
    <3>3. QED
      BY <3>1, <3>2, ReversedRows DEF Reverses
  <2>4. QED
    BY <2>1, <2>3 DEF Issued
<1>6. DocumentStep
  BY <1>2, <1>4, MoneyLeavesDocuments DEF SettlementNext, allVars
<1>7. UNCHANGED moneyVars
  BY <1>6 DEF DocumentStep
<1>8. ~Quiet
  BY <1>1 DEF Quiet
<1>9. QED
  BY <1>3, <1>5, <1>7, <1>8, StepOfSettlement, StepOfDocuments

\* The net of a content is the cost of the bookings it lists.
LEMMA NetOfWork ==
  ASSUME NEW es, IsFiniteSet(es), NEW cost, \A e \in es : cost[e] \in Int,
         NEW content, content.lines = {<<e, cost[e]>> : e \in es}
  PROVE  NetOf(content) = SumFunctionOnSet(cost, es)
<1> DEFINE price == [line \in content.lines |-> line[2]]
           line == [e \in es |-> <<e, cost[e]>>]
<1>1. NetOf(content) = SumFunctionOnSet(price, content.lines)
  BY DEF NetOf, SumFunction
<1>2. content.lines = {line[e] : e \in es}
  OBVIOUS
<1>3. /\ \A e \in es : cost[e] \in Int /\ cost[e] = price[line[e]]
      /\ \A e, f \in es : line[e] = line[f] => e = f
  BY <1>2
<1> HIDE DEF price, line
<1>4. SumFunctionOnSet(cost, es) = SumFunctionOnSet(price, {line[e] : e \in es})
  BY <1>3, SumRenamed
<1>5. QED
  BY <1>1, <1>2, <1>4

LEMMA IssueAddsTax ==
  ASSUME TypeInv, AmountInv, NEW a \in Account, NEW on \in Day, IssueInvoice(a, on),
         NEW content, content = ContentOf(Pending(a))
  PROVE  /\ Issued("invoice")' = Issued("invoice") \cup {Len(docs) + 1}
         /\ docs'[Len(docs) + 1].acct = a /\ docs'[Len(docs) + 1].content = content
         /\ Billed(a)' = Billed(a) + (GrossOf(content) - NetOf(content))
<1>1. PICK new : new = Len(docs) + 1
  OBVIOUS
<1>2. /\ Ids' = Ids \cup {new} /\ new \notin Ids /\ \A i \in Ids : docs'[i] = docs[i]
      /\ docs'[new].kind = "invoice" /\ docs'[new].status = "issued" /\ docs'[new].acct = a
      /\ docs'[new].content = content
  <2>1. PICK number :
          IssueDocument("invoice", a, 0, number, on, 0, content)
    BY DEF IssueInvoice
  <2>2. QED
    BY <1>1, <2>1, AppendKeeps DEF TypeInv
<1>3. PICK inv, cred, gross : inv = IssuedInvoices(a) /\ cred = IssuedCredits(a) /\ gross = GrossByDoc'
  OBVIOUS
<1>4. /\ inv \in SUBSET Ids /\ cred \in SUBSET Ids
      /\ IssuedInvoices(a)' = inv \cup {new} /\ IssuedCredits(a)' = cred
      /\ Issued("invoice")' = Issued("invoice") \cup {new}
  BY <1>2, <1>3 DEF IssuedInvoices, IssuedCredits, Issued, OfAccount
<1>5. /\ IsFiniteSet(inv) /\ IsFiniteSet(cred) /\ SumGross(inv) \in Int /\ SumGross(cred) \in Int
      /\ \A i \in inv \cup cred : GrossByDoc[i] \in Int
  BY <1>4, GrossSums DEF TypeInv
<1>6. \A i \in inv \cup cred : gross[i] = GrossByDoc[i]
  BY <1>2, <1>3, <1>4 DEF GrossByDoc
<1>7. NetOf(content) \in Nat /\ GrossOf(content) \in Nat
  <2>1. Pending(a) \subseteq {e \in Entry : entries[e].state = "live"}
    BY DEF Pending, Live
  <2>2. content \in Content /\ IsFiniteSet(content.lines)
    BY <2>1, ContentType, WorkLines DEF AmountInv, TypeInv
  <2>3. QED
    BY <2>2, ContentAmounts
<1>8. gross[new] = GrossOf(content)
  BY <1>2, <1>3 DEF GrossByDoc, Gross
<1>9. SumFunctionOnSet(gross, inv) = SumGross(inv) /\ SumFunctionOnSet(gross, cred) = SumGross(cred)
  <2>1. PICK before : before = GrossByDoc
    OBVIOUS
  <2>2. (\A i \in inv : gross[i] = before[i]) /\ (\A i \in cred : gross[i] = before[i])
    BY <1>6, <2>1
  <2>3. SumFunctionOnSet(gross, inv) = SumFunctionOnSet(before, inv)
        /\ SumFunctionOnSet(gross, cred) = SumFunctionOnSet(before, cred)
    BY <1>5, <2>2, SumSame
  <2>4. QED
    BY <2>1, <2>3 DEF SumGross
<1>10. SumFunctionOnSet(gross, inv \cup {new}) = SumGross(inv) + GrossOf(content)
  <2>1. /\ new \notin inv /\ \A i \in inv \cup {new} : gross[i] \in Int
    BY <1>2, <1>4, <1>5, <1>6, <1>7, <1>8
  <2>2. SumFunctionOnSet(gross, inv \cup {new}) = SumFunctionOnSet(gross, inv) + gross[new]
    BY <1>5, <2>1, SumWith
  <2>3. QED
    BY <1>8, <1>9, <2>2
<1>11. NetOf(ContentOf(Pending(a)))' = 0
  <2>1. entries' = entries /\ claims' = claims \cup {<<Len(docs) + 1, e>> : e \in Pending(a)}
    BY DEF IssueInvoice
  <2>2. Pending(a)' = {}
    <3>1. ASSUME NEW e \in Pending(a)' PROVE FALSE
      <4>1. e \in Live(a) /\ ~\E c \in claims' : c[2] = e
        BY <2>1, <3>1 DEF Pending, Live, Claimed
      <4>2. CASE e \in Pending(a)
        <5>1. <<Len(docs) + 1, e>> \in claims'
          BY <2>1, <4>2
        <5>2. QED
          BY <4>1, <5>1
      <4>3. CASE e \notin Pending(a)
        BY <2>1, <4>1, <4>3 DEF Pending, Claimed
      <4>4. QED
        BY <4>2, <4>3
    <3>2. QED
      BY <3>1
  <2>3. PICK billed : billed = ContentOf(Pending(a))'
    OBVIOUS
  <2>4. billed.lines = {}
    BY <2>2, <2>3 DEF ContentOf
  <2>5. PICK cost, none : cost = [e \in {} |-> 0] /\ none = {}
    OBVIOUS
  <2>6. NetOf(billed) = SumFunctionOnSet(cost, none) /\ SumFunctionOnSet(cost, none) = 0
    <3>1. IsFiniteSet(none) /\ (\A e \in none : cost[e] \in Int)
          /\ billed.lines = {<<e, cost[e]>> : e \in none}
      BY <2>4, <2>5, FS_EmptySet
    <3>2. QED
      BY <2>5, <3>1, NetOfWork, SumUnfolds
  <2>7. QED
    BY <2>3, <2>6
<1> DEFINE i == SumGross(inv)
           c == SumGross(cred)
           n == NetOf(content)
           g == GrossOf(content)
<1>12. i \in Int /\ c \in Int /\ n \in Nat /\ g \in Nat
  BY <1>5, <1>7
<1>13. Billed(a) = i + n - (-c)
  BY <1>3 DEF Billed, Credited
<1>14. Billed(a)' = (i + g) + 0 - (-c)
  <2>1. SumGross(IssuedInvoices(a))' = i + g
    BY <1>3, <1>4, <1>10 DEF SumGross
  <2>2. SumGross(IssuedCredits(a))' = c
    BY <1>3, <1>4, <1>9 DEF SumGross
  <2> HIDE DEF i, c, g
  <2>3. QED
    BY <1>11, <2>1, <2>2 DEF Billed, Credited
<1> HIDE DEF i, c, n, g
<1>15. (i + g) + 0 - (-c) = (i + n - (-c)) + (g - n)
  BY <1>12
<1>16. Billed(a)' = Billed(a) + (g - n)
  BY <1>13, <1>14, <1>15
<1>17. QED
  BY <1>1, <1>2, <1>4, <1>16 DEF g, n

\* The bookings an issued invoice holds: live work of its account, held by no other.
Held(i) == {c[2] : c \in {d \in claims : d[1] = i}}

LEMMA HeldWork ==
  ASSUME TypeInv, FrozenSourcesIntact, NEW i \in Issued("invoice")
  PROVE  /\ Held(i) \subseteq Live(docs[i].acct)
         /\ Held(i) \cap Pending(docs[i].acct) = {}
         /\ docs[i].content.lines = {<<e, entries[e].cost>> : e \in Held(i)}
         /\ \A e \in Held(i), c \in claims : c[2] = e => c[1] = i
<1>1. \A c \in claims : c[2] \in Entry
  BY DEF TypeInv, TypeOK
<1>2. ASSUME NEW e \in Held(i)
      PROVE  /\ e \in Live(docs[i].acct) /\ e \notin Pending(docs[i].acct)
             /\ \A c \in claims : c[2] = e => c[1] = i
  <2>1. PICK d \in claims : d[1] = i /\ d[2] = e
    BY DEF Held
  <2>2. AccountOf[e] = docs[i].acct /\ entries[e].state = "live" /\ ~entries[e].voided
    BY <2>1 DEF FrozenSourcesIntact, ClaimsBelongToInvoices, LinesAsBooked
  <2>3. QED
    BY <1>1, <2>1, <2>2 DEF FrozenSourcesIntact, ClaimsExclusive, Live, Pending, Claimed
<1>3. docs[i].content.lines = {<<e, entries[e].cost>> : e \in Held(i)}
  <2>1. docs[i].content.lines = {<<c[2], entries[c[2]].cost>> : c \in {d \in claims : d[1] = i}}
    BY DEF FrozenSourcesIntact, LinesAsBooked
  <2>2. QED
    BY <2>1 DEF Held
<1>4. QED
  BY <1>2, <1>3

\* The work an invoice held is billed again, and nothing else.
LEMMA WorkReturns ==
  ASSUME TypeInv, AmountInv, FrozenSourcesIntact, NEW i \in Ids, StornoInvoice(i), NEW a,
         a = docs[i].acct
  PROVE  NetOf(ContentOf(Pending(a)))' = NetOf(ContentOf(Pending(a))) + NetOf(docs[i].content)
<1>1. i \in Issued("invoice")
  BY DEF StornoInvoice, Reversible, Issued
<1>2. entries' = entries /\ claims' = {c \in claims : c[1] # i}
  BY DEF StornoInvoice
<1>3. PICK held, open : held = Held(i) /\ open = Pending(a)
  OBVIOUS
<1>4. /\ held \subseteq Live(a) /\ held \cap open = {} /\ open \subseteq Live(a)
      /\ docs[i].content.lines = {<<e, entries[e].cost>> : e \in held}
  BY <1>1, <1>3, HeldWork DEF Pending
<1>5. Pending(a)' = open \cup held
  <2>1. ASSUME NEW e \in Live(a), e \notin open, ~\E c \in claims' : c[2] = e
        PROVE  e \in held
    <3>1. PICK c \in claims : c[2] = e
      BY <1>3, <2>1 DEF Pending, Claimed
    <3>2. c[1] = i
      BY <1>2, <2>1, <3>1
    <3>3. QED
      BY <1>3, <3>1, <3>2 DEF Held
  <2>2. ASSUME NEW e \in open PROVE ~\E c \in claims' : c[2] = e
    BY <1>2, <1>3, <2>2 DEF Pending, Claimed
  <2>3. ASSUME NEW e \in held PROVE ~\E c \in claims' : c[2] = e
    BY <1>1, <1>2, <1>3, <2>3, HeldWork
  <2>4. Live(a)' = Live(a)
    BY <1>2 DEF Live
  <2>5. Pending(a)' = {e \in Live(a) : ~\E c \in claims' : c[2] = e}
    BY <2>4 DEF Pending, Claimed
  <2>6. QED
    BY <1>4, <2>1, <2>2, <2>3, <2>5
<1>6. PICK cost : cost = [e \in Entry |-> entries[e].cost]
  OBVIOUS
<1>7. \A e \in Entry : cost[e] \in Int
  <2>1. \A e \in Entry : entries[e] \in EntryRow
    BY DEF TypeInv, TypeOK
  <2>2. \A row \in EntryRow : row.cost \in Int
    <3>1. \A c \in Cost : c \in Int
      BY AmountAssumption
    <3>2. QED
      BY <3>1 DEF EntryRow, Absent, Deleted
  <2>3. QED
    BY <1>6, <2>1, <2>2
<1>8. Live(a) \subseteq {e \in Entry : entries[e].state = "live"}
  BY DEF Live
<1>9. IsFiniteSet(held) /\ IsFiniteSet(open) /\ IsFiniteSet(open \cup held)
  <2>1. IsFiniteSet({e \in Entry : entries[e].state = "live"})
    BY DEF AmountInv, WorkFinite
  <2>2. IsFiniteSet(held) /\ IsFiniteSet(open)
    BY <1>4, <1>8, <2>1, FS_Subset
  <2>3. QED
    BY <2>2, FS_Union
<1>10. \A e \in open \cup held : e \in Entry /\ cost[e] \in Int /\ cost[e] = entries[e].cost
  BY <1>4, <1>6, <1>7, <1>8
<1>11. PICK before, after, frozen : /\ before = ContentOf(Pending(a)) /\ after = ContentOf(Pending(a))'
                                    /\ frozen = docs[i].content
  OBVIOUS
<1>12. /\ before.lines = {<<e, cost[e]>> : e \in open}
       /\ after.lines = {<<e, cost[e]>> : e \in open \cup held}
       /\ frozen.lines = {<<e, cost[e]>> : e \in held}
  BY <1>2, <1>3, <1>4, <1>5, <1>10, <1>11 DEF ContentOf
<1>13. PICK all : all = open \cup held
  OBVIOUS
<1>14. /\ NetOf(before) = SumFunctionOnSet(cost, open) /\ NetOf(frozen) = SumFunctionOnSet(cost, held)
       /\ NetOf(after) = SumFunctionOnSet(cost, all)
  BY <1>9, <1>10, <1>12, <1>13, NetOfWork
<1>15. SumFunctionOnSet(cost, open \cup held) = SumFunctionOnSet(cost, open) + SumFunctionOnSet(cost, held)
  BY <1>4, <1>9, <1>10, SumOfUnion
<1>16. QED
  BY <1>11, <1>13, <1>14, <1>15

LEMMA StornoTakesBack ==
  ASSUME TypeInv, AmountInv, NumberInv, FrozenSourcesIntact, NEW i \in Ids, StornoInvoice(i),
         NEW a, a = docs[i].acct, NEW content, content = docs[i].content
  PROVE  /\ a \in Account /\ Issued("invoice")' = Issued("invoice") \ {i}
         /\ Billed(a)' = Billed(a) - (GrossOf(content) - NetOf(content))
                           + Credited(AttachedCredits(i))
<1>1. PICK ids \in SUBSET Ids : ids = {i} \cup AttachedCredits(i)
  BY DEF AttachedCredits, Issued
<1>2. Reverses(ids)
  BY <1>1, ReverseType DEF StornoInvoice, Reverse, Reverses
<1>3. /\ Ids' = Ids
      /\ \A j \in Ids : /\ docs'[j].kind = docs[j].kind /\ docs'[j].acct = docs[j].acct
                        /\ docs'[j].status = IF j \in ids THEN "canceled" ELSE docs[j].status
  BY <1>2, ReversedRows DEF Reverses
<1>4. docs[i] \in Document /\ docs[i].kind = "invoice" /\ docs[i].status = "issued"
  BY IdsFinite DEF TypeInv, StornoInvoice, Reversible
<1>5. a \in Account /\ content \in Content
  BY <1>4 DEF Document
<1>6. PICK inv, cred, att, gross :
        /\ inv = IssuedInvoices(a) /\ cred = IssuedCredits(a) /\ att = AttachedCredits(i)
        /\ gross = GrossByDoc
  OBVIOUS
<1>7. /\ inv \in SUBSET Ids /\ cred \in SUBSET Ids /\ i \in inv /\ i \notin cred
      /\ \A j \in att : j \in Ids /\ docs[j].kind = "gutschrift" /\ docs[j].status = "issued"
  BY <1>4, <1>6 DEF IssuedInvoices, IssuedCredits, Issued, OfAccount, AttachedCredits
<1>8. att \subseteq cred
  <2>1. \A j \in att : docs[j].acct = a
    BY <1>6, CreditsShareAccount
  <2>2. QED
    BY <1>6, <1>7, <2>1 DEF IssuedCredits, Issued, OfAccount
<1>9. Issued("invoice")' = Issued("invoice") \ {i}
  BY <1>1, <1>3, <1>6, <1>7 DEF Issued
<1>10. IssuedInvoices(a)' = inv \ {i} /\ IssuedCredits(a)' = cred \ att
  <2>1. OfAccount(a)' = OfAccount(a)
    BY <1>3 DEF OfAccount
  <2>2. IssuedInvoices(a)' = inv \ {i}
    BY <1>6, <1>9, <2>1 DEF IssuedInvoices
  <2>3. Issued("gutschrift")' = Issued("gutschrift") \ att
    BY <1>1, <1>3, <1>4, <1>6 DEF Issued
  <2>4. QED
    BY <1>6, <2>1, <2>2, <2>3 DEF IssuedCredits
<1>11. GrossByDoc' = gross
  <2>1. \A j \in Ids : Gross(docs'[j]) = Gross(docs[j])
    BY <1>2, ReversedGrossKept
  <2>2. QED
    BY <1>3, <1>6, <2>1 DEF GrossByDoc
<1>12. /\ IsFiniteSet(inv) /\ IsFiniteSet(cred) /\ SumGross(inv) \in Int /\ SumGross(cred) \in Int
       /\ \A j \in inv : gross[j] \in Int
       /\ \A j \in cred : gross[j] \in Int
       /\ gross[i] = GrossOf(content)
  <2>1. gross[i] = Gross(docs[i])
    BY <1>6, <1>7 DEF GrossByDoc
  <2>2. gross[i] = GrossOf(content)
    BY <1>4, <2>1 DEF Gross
  <2>3. QED
    BY <1>6, <1>7, <2>2, GrossSums DEF TypeInv
<1>13. /\ IsFiniteSet(att) /\ IsFiniteSet(cred \ att)
       /\ SumFunctionOnSet(gross, att) \in Int /\ SumFunctionOnSet(gross, cred \ att) \in Int
       /\ SumFunctionOnSet(gross, inv \ {i}) \in Int
  <2>1. IsFiniteSet(att) /\ IsFiniteSet(cred \ att) /\ IsFiniteSet(inv \ {i})
    BY <1>8, <1>12, FS_Subset
  <2>2. QED
    BY <1>8, <1>12, <2>1, SumIsInteger
<1>14. SumFunctionOnSet(gross, inv) = GrossOf(content) + SumFunctionOnSet(gross, inv \ {i})
  BY <1>7, <1>12, SumWithout
<1>15. SumFunctionOnSet(gross, cred) = SumFunctionOnSet(gross, cred \ att) + SumFunctionOnSet(gross, att)
  <2>1. PICK rest : rest = cred \ att
    OBVIOUS
  <2>2. rest \cap att = {} /\ rest \cup att = cred
    BY <1>8, <2>1
  <2>3. SumFunctionOnSet(gross, rest \cup att) = SumFunctionOnSet(gross, rest) + SumFunctionOnSet(gross, att)
    BY <1>12, <1>13, <2>1, <2>2, SumOfUnion
  <2>4. QED
    BY <2>1, <2>2, <2>3
<1>16. NetOf(content) \in Nat /\ GrossOf(content) \in Nat
  <2>1. IsFiniteSet(content.lines)
    BY DEF AmountInv, LinesFinite
  <2>2. QED
    BY <1>5, <2>1, ContentAmounts
<1>17. NetOf(ContentOf(Pending(a))) \in Int
  BY <1>5, BilledType DEF TypeInv
<1>18. NetOf(ContentOf(Pending(a)))' = NetOf(ContentOf(Pending(a))) + NetOf(content)
  BY WorkReturns
<1> DEFINE v == SumFunctionOnSet(gross, inv \ {i})
           c == SumFunctionOnSet(gross, cred \ att)
           t == SumFunctionOnSet(gross, att)
           n == NetOf(content)
           g == GrossOf(content)
           w == NetOf(ContentOf(Pending(a)))
<1>19. v \in Int /\ c \in Int /\ t \in Int /\ n \in Nat /\ g \in Nat /\ w \in Int
  BY <1>13, <1>16, <1>17
<1>20. Billed(a) = (g + v) + w - (-(c + t))
  BY <1>6, <1>14, <1>15 DEF Billed, Credited, SumGross
<1>21. Billed(a)' = v + (w + n) - (-c)
  <2>1. SumGross(IssuedInvoices(a))' = v /\ SumGross(IssuedCredits(a))' = c
    BY <1>10, <1>11 DEF SumGross
  <2>2. NetOf(ContentOf(Pending(a)))' = w + n
    BY <1>18
  <2> HIDE DEF v, c, w, n
  <2>3. QED
    BY <2>1, <2>2 DEF Billed, Credited
<1>22. Credited(AttachedCredits(i)) = -t
  BY <1>6 DEF Credited, SumGross
<1> HIDE DEF v, c, t, n, g, w
<1>23. v + (w + n) - (-c) = ((g + v) + w - (-(c + t))) - (g - n) + (-t)
  BY <1>19
<1>24. Billed(a)' = Billed(a) - (g - n) + Credited(AttachedCredits(i))
  BY <1>20, <1>21, <1>22, <1>23
<1>25. QED
  BY <1>5, <1>9, <1>24 DEF g, n

InvoicesIssued == {docs'[i] : i \in Issued("invoice")' \ Issued("invoice")}
InvoicesReversed ==
  {<<docs[i], Credited(AttachedCredits(i))>> : i \in Issued("invoice") \ Issued("invoice")'}

LEMMA BalanceFollowsBilled ==
  ASSUME TypeInv, AmountInv, MoneyInv, UNCHANGED moneyVars, NEW a \in Account, NEW delta \in Int,
         Billed(a)' = Billed(a) + delta
  PROVE  Remaining(a)' = Remaining(a) + delta
<1> DEFINE b == Billed(a)
           q == PostedTo(a)
           d == Paid(a)
<1>1. b \in Int /\ q \in Int /\ d \in Nat
  BY BalanceType DEF TypeInv
<1>2. PostedTo(a)' = q /\ Paid(a)' = d
  <2>1. PostedTo(a)' = PostedTo(a)
    BY DEF moneyVars, PostedTo, PostingsOf
  <2>2. Paid(a)' = Paid(a)
    BY PaidKept DEF moneyVars
  <2>3. QED
    BY <2>1, <2>2
<1>3. Remaining(a)' = Billed(a)' + PostedTo(a)' - Paid(a)' /\ Remaining(a) = b + q - d
  BY DEF Remaining
<1>4. Billed(a)' = b + delta
  OBVIOUS
<1> HIDE DEF b, q, d
<1>5. (b + delta) + q - d = (b + q - d) + delta
  BY <1>1
<1>6. QED
  BY <1>2, <1>3, <1>4, <1>5

LEMMA InvoiceTaxes ==
  ASSUME TypeInv, AmountInv, NumberInv, MoneyInv, FrozenSourcesIntact, [SettlementNext]_allVars
  PROVE  /\ \A d \in InvoicesIssued :
              Remaining(d.acct)' = Remaining(d.acct) + (GrossOf(d.content) - NetOf(d.content))
         /\ \A r \in InvoicesReversed :
              Remaining(r[1].acct)'
                = Remaining(r[1].acct) - (GrossOf(r[1].content) - NetOf(r[1].content)) + r[2]
<1>1. CASE Issued("invoice")' = Issued("invoice")
  <2>1. InvoicesIssued = {} /\ InvoicesReversed = {}
    BY <1>1 DEF InvoicesIssued, InvoicesReversed
  <2>2. QED
    BY <2>1
<1>2. ASSUME UNCHANGED moneyVars, NEW a \in Account, NEW on \in Day, IssueInvoice(a, on)
      PROVE  /\ InvoicesReversed = {}
             /\ \A d \in InvoicesIssued :
                  Remaining(d.acct)' = Remaining(d.acct) + (GrossOf(d.content) - NetOf(d.content))
  <2>1. PICK content, new : content = ContentOf(Pending(a)) /\ new = Len(docs) + 1
    OBVIOUS
  <2>2. /\ Issued("invoice")' = Issued("invoice") \cup {new}
        /\ docs'[new].acct = a /\ docs'[new].content = content
        /\ Billed(a)' = Billed(a) + (GrossOf(content) - NetOf(content))
    BY <1>2, <2>1, IssueAddsTax
  <2>3. GrossOf(content) - NetOf(content) \in Int
    <3>1. Pending(a) \subseteq {e \in Entry : entries[e].state = "live"}
      BY DEF Pending, Live
    <3>2. content \in Content /\ IsFiniteSet(content.lines)
      BY <2>1, <3>1, ContentType, WorkLines DEF AmountInv, TypeInv
    <3>3. NetOf(content) \in Nat /\ GrossOf(content) \in Nat
      BY <3>2, ContentAmounts
    <3>4. \A g, n \in Nat : g - n \in Int
      OBVIOUS
    <3>5. QED
      BY <3>3, <3>4
  <2>4. PICK delta \in Int : delta = GrossOf(content) - NetOf(content)
    BY <2>3
  <2>5. Remaining(a)' = Remaining(a) + delta
    BY <1>2, <2>2, <2>4, BalanceFollowsBilled
  <2>6. InvoicesReversed = {}
    BY <2>2 DEF InvoicesReversed
  <2>7. \A d \in InvoicesIssued : d.acct = a /\ d.content = content
    BY <2>2 DEF InvoicesIssued
  <2>8. QED
    BY <2>4, <2>5, <2>6, <2>7
<1>3. ASSUME UNCHANGED moneyVars, NEW i \in Ids, StornoInvoice(i)
      PROVE  /\ InvoicesIssued = {}
             /\ \A r \in InvoicesReversed :
                  Remaining(r[1].acct)'
                    = Remaining(r[1].acct) - (GrossOf(r[1].content) - NetOf(r[1].content)) + r[2]
  <2>1. PICK a, content, credited : /\ a = docs[i].acct /\ content = docs[i].content
                                    /\ credited = Credited(AttachedCredits(i))
    OBVIOUS
  <2>2. /\ a \in Account /\ Issued("invoice")' = Issued("invoice") \ {i}
        /\ Billed(a)' = Billed(a) - (GrossOf(content) - NetOf(content)) + credited
    BY <1>3, <2>1, StornoTakesBack
  <2>3. PICK g, n \in Nat : g = GrossOf(content) /\ n = NetOf(content)
    <3>1. docs[i] \in Document /\ IsFiniteSet(docs[i].content.lines)
      BY IdsFinite DEF TypeInv, AmountInv, LinesFinite
    <3>2. content \in Content
      BY <2>1, <3>1 DEF Document
    <3>3. QED
      BY <2>1, <3>1, <3>2, ContentAmounts
  <2>4. credited \in Int
    <3>1. AttachedCredits(i) \in SUBSET Ids
      BY DEF AttachedCredits, Issued
    <3>2. SumGross(AttachedCredits(i)) \in Int
      BY <3>1, GrossSums DEF TypeInv
    <3>3. \A s \in Int : -s \in Int
      OBVIOUS
    <3>4. QED
      BY <2>1, <3>2, <3>3 DEF Credited
  <2>5. PICK billed \in Int : billed = Billed(a)
    BY <2>2, BalanceType DEF TypeInv
  <2>6. PICK rest \in Int : rest = Remaining(a)
    BY <2>2, BalanceType DEF TypeInv
  <2>7. PICK delta \in Int : delta = credited - (g - n)
    BY <2>4
  <2>8. Billed(a)' = Billed(a) + delta
    <3>1. billed - (g - n) + credited = billed + delta
      BY <2>4, <2>7
    <3>2. QED
      BY <2>2, <2>3, <2>5, <3>1
  <2>9. Remaining(a)' = Remaining(a) + delta
    BY <1>3, <2>2, <2>8, BalanceFollowsBilled
  <2>10. rest + delta = rest - (g - n) + credited
    BY <2>4, <2>7
  <2>11. Remaining(a)' = Remaining(a) - (GrossOf(content) - NetOf(content)) + credited
    BY <2>3, <2>6, <2>9, <2>10
  <2>12. InvoicesIssued = {}
    BY <2>2 DEF InvoicesIssued
  <2>13. \A r \in InvoicesReversed : r[1].acct = a /\ r[1].content = content /\ r[2] = credited
    <3>1. \A j \in Issued("invoice") \ Issued("invoice")' : j = i
      BY <2>2
    <3>2. \A r \in InvoicesReversed : r = <<docs[i], Credited(AttachedCredits(i))>>
      BY <3>1 DEF InvoicesReversed
    <3>3. QED
      BY <2>1, <3>2
  <2>14. QED
    BY <2>11, <2>12, <2>13
<1>4. CASE Issued("invoice")' # Issued("invoice")
  <2>1. CASE \E a \in Account, on \in Day : IssueInvoice(a, on)
    BY <1>2, <1>4, <2>1, InvoicesMove
  <2>2. CASE \E i \in Ids : StornoInvoice(i)
    BY <1>3, <1>4, <2>2, InvoicesMove
  <2>3. QED
    BY <1>4, <2>1, <2>2, InvoicesMove
<1>5. QED
  BY <1>1, <1>4

\* An invoice raises its account's balance by the VAT it states and by nothing
\* else, since it replaces the work it claims; its storno takes back exactly that
\* and the credits it reverses.
THEOREM InvoicesAddTheirTax == SettlementSpec => InvoiceAddsOnlyItsTax
<1>1. SettlementSpec => [](NumberInv /\ FrozenSourcesIntact)
  BY ImplementsDocuments, NumberInvAlways, SourcesStayFrozen, PTL
<1>2. DocumentsInv /\ MoneyInv /\ NumberInv /\ FrozenSourcesIntact /\ [SettlementNext]_allVars
        => [LET tax(content) == GrossOf(content) - NetOf(content)
                issued == {docs'[i] : i \in Issued("invoice")' \ Issued("invoice")}
                reversed == {<<docs[i], Credited(AttachedCredits(i))>> :
                               i \in Issued("invoice") \ Issued("invoice")'}
            IN /\ \A d \in issued :
                    Remaining(d.acct)' = Remaining(d.acct) + tax(d.content)
               /\ \A r \in reversed :
                    Remaining(r[1].acct)' = Remaining(r[1].acct) - tax(r[1].content) + r[2]]_allVars
  BY InvoiceTaxes DEF InvoicesIssued, InvoicesReversed, DocumentsInv
<1>3. QED
  BY <1>1, <1>2, DocumentsInvAlways, MoneyInvAlways, PTL DEF SettlementSpec, InvoiceAddsOnlyItsTax

-----------------------------------------------------------------------------
(* The ledger of a completed year *)

LEMMA ClosedLedger ==
  ASSUME TypeInv, AmountInv, MoneyInv, [SettlementNext]_allVars, NEW a \in Account,
         status[a[1]] = "completed", PostingsOf(a)' # PostingsOf(a)
  PROVE  PostingsOf(a) \subseteq PostingsOf(a)' /\ Remaining(a)' = 0
<1>1. postings' # postings
  BY DEF PostingsOf
<1>2. LedgerStep
  BY <1>1, StepOfPayments DEF SettlementNext, DocumentStep, moneyVars, allVars
<1>3. ~OpenAccount(a)
  BY DEF OpenAccount
<1>4. PostingsOf(a)' = {p \in postings' : p.acct = a} /\ PostingsOf(a) = {p \in postings : p.acct = a}
  BY DEF PostingsOf
<1>5. lastPosting \in Nat /\ lastPosting + 1 \in Nat /\ (lastPosting + 1) + 1 \in Nat
      /\ lastPosting + 1 > lastPosting
      /\ \A p \in postings : p \in Posting /\ p.id # lastPosting + 1
  BY DEF MoneyInv, SettlementTypeOK, PostingsCounted
<1>6. ASSUME NEW b \in Account, NEW amount \in Int, NEW origin \in {"manual", "payout"},
             Posts(b, amount, origin)
      PROVE  /\ b = a /\ PostingsOf(a) \subseteq PostingsOf(a)'
             /\ \E p \in PostingsMade : p.acct = a /\ p.origin = origin
  <2>1. PICK row : row = PostingRow(lastPosting + 1, b, amount, 0, origin)
    OBVIOUS
  <2>2. row.id = lastPosting + 1 /\ row.acct = b /\ row.origin = origin
    BY <1>5, <2>1, PostingRowType
  <2>3. postings' = postings \cup {row}
    BY <1>6, <2>1 DEF Posts, Inserts
  <2>4. b = a
    BY <1>4, <2>2, <2>3
  <2>5. row \in PostingsMade
    BY <1>5, <2>2, <2>3 DEF PostingsMade
  <2>6. QED
    BY <1>4, <2>2, <2>3, <2>4, <2>5
<1>7. ASSUME NEW b \in Account, NEW amount \in PostingAmount, Posts(b, amount, "manual"), OpenAccount(b)
      PROVE  FALSE
  BY <1>3, <1>6, <1>7, SettlementAssumption
<1>8. ASSUME NEW b \in Account, Posts(b, -Remaining(b), "payout")
      PROVE  PostingsOf(a) \subseteq PostingsOf(a)' /\ Remaining(a)' = 0
  <2>1. Remaining(b) \in Int
    BY BalanceType DEF TypeInv
  <2>2. PICK amount \in Int : amount = -Remaining(b)
    BY <2>1
  <2>3. Posts(b, amount, "payout")
    BY <1>8, <2>2
  <2>4. PostingsOf(a) \subseteq PostingsOf(a)' /\ \E p \in PostingsMade : p.acct = a /\ p.origin = "payout"
    BY <1>6, <2>3
  <2>5. QED
    BY <2>4, PostingsSettle
<1>9. ASSUME NEW n \in Neighbor, NEW y \in Year, NEW z \in Year, Carries(n, y, z)
      PROVE  PostingsOf(a) \subseteq PostingsOf(a)' /\ Remaining(a)' = 0
  <2>1. PICK amount, from, to : amount = Remaining(<<y, n>>) /\ from = <<y, n>> /\ to = <<z, n>>
    OBVIOUS
  <2>2. from \in Account /\ to \in Account /\ status[to[1]] = "in_progress"
    BY <1>9, <2>1 DEF Carries, CarryAccounts, Account
  <2>3. amount \in Int /\ -amount \in Int
    <3>1. Remaining(<<y, n>>) \in Int
      BY <2>1, <2>2, BalanceType DEF TypeInv
    <3>2. QED
      BY <2>1, <3>1
  <2>4. PICK first, second \in Nat : first = lastPosting + 1 /\ second = (lastPosting + 1) + 1
    BY <1>5
  <2>5. PICK out, in : /\ out = PostingRow(first, from, -amount, first, "carry")
                       /\ in = PostingRow(second, to, amount, first, "carry")
    OBVIOUS
  <2>6. out.id = first /\ out.transfer = first /\ out.acct = from
    BY <2>2, <2>3, <2>5, PostingRowType
  <2>7. in.acct = to
    BY <2>2, <2>3, <2>5, PostingRowType
  <2>8. postings' = postings \cup {out, in}
    <3>1. CarrySides(n, y, z) = {out, in}
      BY <2>1, <2>4, <2>5 DEF CarrySides
    <3>2. QED
      BY <1>9, <3>1 DEF Carries, Inserts
  <2>9. a # to
    BY <2>2
  <2>10. a = from /\ PostingsOf(a) \subseteq PostingsOf(a)'
    BY <1>4, <2>6, <2>7, <2>8, <2>9
  <2>11. out \in PostingsMade
    BY <1>5, <2>4, <2>6, <2>8 DEF PostingsMade
  <2>12. QED
    BY <2>6, <2>10, <2>11, PostingsSettle DEF CarriesWhole
<1>10. ASSUME NEW p \in postings, NEW rows, Rewrites(p, rows)
       PROVE  FALSE
  <2>1. OpenAccount(p.acct) /\ postings' = (postings \ {p}) \cup rows /\ \A q \in rows : q.acct = p.acct
    BY <1>10 DEF Rewrites, ReplacePostings
  <2>2. p.acct # a
    BY <1>3, <2>1
  <2>3. QED
    BY <1>4, <2>1, <2>2
<1>11. ASSUME NEW transfer, NEW rows, RewritesTransfer(transfer, rows)
       PROVE  FALSE
  <2>1. /\ postings' = (postings \ SidesOf(transfer)) \cup rows
        /\ \A p \in SidesOf(transfer) : p \in postings /\ p.acct # a
    BY <1>3, <1>11 DEF RewritesTransfer, ReplacePostings, ReversibleTransfer, SidesOf
  <2>2. ASSUME NEW q \in rows PROVE q.acct # a
    <3>1. PICK voided \in BOOLEAN : rows = {[p EXCEPT !.voided = voided] : p \in SidesOf(transfer)}
      BY <1>11, <2>2 DEF RewritesTransfer
    <3>2. PICK p \in SidesOf(transfer) : q = [p EXCEPT !.voided = voided]
      BY <2>2, <3>1
    <3>3. p \in Posting /\ p.acct # a
      BY <1>5, <2>1, <3>2
    <3>4. q.acct = p.acct
      BY <3>2, <3>3 DEF Posting
    <3>5. QED
      BY <3>3, <3>4
  <2>3. QED
    BY <1>4, <2>1, <2>2
<1>12. ~UNCHANGED postings
  BY <1>1
<1>13. QED
  BY <1>2, <1>7, <1>8, <1>9, <1>10, <1>11, <1>12, StepOfLedger

\* The ledger of a completed year only ever gains a payout or the outgoing side of
\* a carry-forward, and either leaves its account at zero.
THEOREM ClosedYearsOnlySettle == SettlementSpec => ClosedLedgerOnlySettles
<1>1. DocumentsInv /\ MoneyInv /\ [SettlementNext]_allVars
        => [\A a \in Account : status[a[1]] = "completed" /\ PostingsOf(a)' # PostingsOf(a)
              => PostingsOf(a) \subseteq PostingsOf(a)' /\ Remaining(a)' = 0]_allVars
  BY ClosedLedger DEF DocumentsInv
<1>2. QED
  BY <1>1, DocumentsInvAlways, MoneyInvAlways, PTL DEF SettlementSpec, ClosedLedgerOnlySettles
=============================================================================
