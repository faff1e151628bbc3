---------------------- MODULE AccountDocumentsProofs ----------------------
(* Theorems about AccountDocuments, for every value of its constants. *)
EXTENDS AccountDocuments, SumProofs, FiniteSetTheorems, WellFoundedInduction, TLAPS

-----------------------------------------------------------------------------
(* Sequence numbers *)

\* A nonempty bounded set of naturals has a maximum, and Max returns it.
LEMMA MaxOfNaturals ==
  ASSUME NEW S \in SUBSET Nat, S # {}, NEW b \in Nat, \A x \in S : x <= b
  PROVE  Max(S) \in S /\ \A x \in S : x <= Max(S)
<1> DEFINE R == OpToRel(<, Nat)
           T == {n \in Nat : \A x \in S : x <= n}
<1>1. PICK m \in T : \A n \in T : <<n, m>> \notin R
  <2>1. T \subseteq Nat /\ T # {}
    OBVIOUS
  <2> HIDE DEF T
  <2>2. QED
    BY <2>1, NatLessThanWellFounded, WFMin
<1>2. \A n \in T : ~(n < m)
  BY <1>1 DEF OpToRel
<1>3. m \in S
  <2>1. SUFFICES ASSUME m \notin S PROVE FALSE
    OBVIOUS
  <2>2. \A x \in S : x <= m /\ x # m
    BY <2>1
  <2>3. \A x \in S : x <= m - 1
    BY <2>2
  <2>4. PICK x \in S : TRUE
    OBVIOUS
  <2>5. m - 1 \in T
    BY <2>3, <2>4
  <2>6. QED
    BY <1>2, <2>5
<1>4. \E x \in S : \A y \in S : x >= y
  BY <1>3
<1>5. QED
  BY <1>4 DEF Max

\* Every number in use is bounded: what makes the next one well defined.
NumbersBounded == \E b \in Nat : \A i \in Ids : docs[i].number.seq <= b
                                              /\ docs[i].number.suffix <= b

LEMMA NextInvoiceNumber ==
  ASSUME TypeOK, NumbersBounded, NEW y \in Year
  PROVE  /\ InvoiceSeq(y) \in Nat
         /\ \A i \in OfYear(y) : docs[i].kind = "invoice"
                               => docs[i].number.seq < InvoiceSeq(y)
<1> DEFINE U == {docs[i].number.seq + 1 : i \in {j \in OfYear(y) : docs[j].kind = "invoice"}}
           S == {InvoiceStart} \cup U
<1>1. \A i \in Ids : docs[i] \in Document
  BY DEF TypeOK, Ids
<1>2. S \subseteq Nat /\ S # {}
  BY <1>1, BoundAssumption DEF OfYear, Document, DocNumber
<1>3. PICK b \in Nat : \A i \in Ids : docs[i].number.seq <= b
  BY DEF NumbersBounded
<1>4. \A x \in S : x <= b + 1 + InvoiceStart
  BY <1>1, <1>3, BoundAssumption DEF OfYear, Document, DocNumber
<1>6. b + 1 + InvoiceStart \in Nat
  BY BoundAssumption
<1> HIDE DEF S
<1>7. Max(S) \in S /\ \A x \in S : x <= Max(S)
  BY <1>2, <1>4, <1>6, MaxOfNaturals
<1>8. InvoiceSeq(y) = Max(S)
  BY DEF InvoiceSeq, S
<1> DEFINE m == Max(S)
<1> HIDE DEF m
<1>9. m \in Nat /\ InvoiceSeq(y) = m /\ \A x \in S : x \in Nat /\ x <= m
  BY <1>2, <1>7, <1>8 DEF m
<1>10. ASSUME NEW i \in OfYear(y), docs[i].kind = "invoice"
       PROVE  docs[i].number.seq < m
  <2> DEFINE n == docs[i].number.seq
  <2>1. n \in Nat /\ n + 1 \in S
    BY <1>1, <1>10 DEF S, OfYear, Document, DocNumber
  <2> HIDE DEF n
  <2>2. n < m
    BY <1>9, <2>1
  <2>3. QED
    BY <2>2 DEF n
<1>11. QED
  BY <1>9, <1>10

LEMMA NextClassNumber ==
  ASSUME TypeOK, NumbersBounded, NEW y \in Year, NEW letter \in {"A", "G"}
  PROVE  /\ ClassSeq(y, letter) \in Nat
         /\ \A i \in SequencedDocs(y) :
              docs[i].number.suffix = 0 /\ docs[i].number.class = letter
                => docs[i].number.seq < ClassSeq(y, letter)
<1> DEFINE U == UNION {TrailingSeq(docs[i].number, letter) : i \in SequencedDocs(y)}
           S == {0} \cup U
<1>1. \A i \in Ids : docs[i] \in Document
  BY DEF TypeOK, Ids
<1>2. PICK b \in Nat : \A i \in Ids : docs[i].number.seq <= b
                                     /\ docs[i].number.suffix <= b
  BY DEF NumbersBounded
<1>3. \A i \in SequencedDocs(y) : \A x \in TrailingSeq(docs[i].number, letter) :
          x \in Nat /\ x <= b
  BY <1>1, <1>2 DEF SequencedDocs, OfYear, TrailingSeq, Document, DocNumber
<1>4. S \subseteq Nat /\ S # {} /\ \A x \in S : x <= b
  BY <1>3
<1> HIDE DEF S
<1>5. Max(S) \in S /\ \A x \in S : x <= Max(S)
  BY <1>4, MaxOfNaturals
<1>6. ClassSeq(y, letter) = 1 + Max(S)
  BY DEF ClassSeq, S
<1>7. ASSUME NEW i \in SequencedDocs(y),
             docs[i].number.suffix = 0, docs[i].number.class = letter
      PROVE  docs[i].number.seq \in S
  BY <1>7 DEF S, TrailingSeq
<1> DEFINE m == Max(S)
<1> HIDE DEF m
<1>8. m \in Nat /\ ClassSeq(y, letter) = 1 + m /\ \A x \in S : x \in Nat /\ x <= m
  BY <1>4, <1>5, <1>6 DEF m
<1>9. QED
  BY <1>7, <1>8

LEMMA AttachedSuffixType ==
  ASSUME TypeOK, NEW i \in Nat
  PROVE  AttachedSuffix(i) \in Nat
<1> DEFINE A == {j \in Ids : docs[j].ref = i}
<1>1. Ids = 1 .. Len(docs) /\ Len(docs) \in Nat
  BY DEF TypeOK, Ids
<1>2. A \subseteq 1 .. Len(docs)
  BY <1>1
<1> HIDE DEF A
<1>3. IsFiniteSet(1 .. Len(docs))
  BY <1>1, FS_Interval
<1>4. IsFiniteSet(A)
  BY <1>2, <1>3, FS_Subset
<1>5. Cardinality(A) \in Nat
  BY <1>4, FS_CardinalityType
<1>6. QED
  BY <1>5 DEF AttachedSuffix, A

-----------------------------------------------------------------------------
(* Type correctness *)

StornosOfDocs == \A s \in stornos : s.of \in Ids

TypeInv == TypeOK /\ NumbersBounded /\ StornosOfDocs

LEMMA ContentType ==
  ASSUME TypeOK, NEW a \in Account
  PROVE  ContentOf(Pending(a)) \in Content
<1>1. \A e \in Pending(a) : e \in Entry /\ entries[e].cost \in Cost
  BY DEF Pending, Live, TypeOK, EntryRow, Absent, Deleted
<1>2. QED
  BY <1>1 DEF ContentOf, Content, TypeOK

LEMMA NoContentType == NoContent \in Content
BY DEF NoContent, Content

\* Appending one well-typed document keeps every document well typed.
LEMMA IssueType ==
  ASSUME TypeInv,
         NEW kind \in {"invoice", "gutschrift", "anzahlung"},
         NEW a \in Account, NEW ref \in Nat, NEW number \in DocNumber,
         NEW on \in Day, NEW amount \in Int, NEW content \in Content,
         IssueDocument(kind, a, ref, number, on, amount, content),
         UNCHANGED stornos
  PROVE  docs' \in Seq(Document) /\ NumbersBounded' /\ StornosOfDocs'
<1> DEFINE d == [kind |-> kind, status |-> "issued", acct |-> a, ref |-> ref,
                 number |-> number, issuedOn |-> on, amount |-> amount,
                 content |-> content]
<1>1. docs \in Seq(Document) /\ docs' = Append(docs, d)
  BY DEF TypeInv, TypeOK, IssueDocument
<1>2. d \in Document /\ d.number = number
  BY DEF Document
<1> HIDE DEF d
<1>3. docs' \in Seq(Document)
  BY <1>1, <1>2
<1>4. /\ DOMAIN docs' = DOMAIN docs \cup {Len(docs) + 1}
      /\ \A i \in DOMAIN docs : docs'[i] = docs[i]
      /\ docs'[Len(docs) + 1] = d
  BY <1>1, <1>2
<1>5. PICK b \in Nat : \A i \in Ids : docs[i].number.seq <= b
                                     /\ docs[i].number.suffix <= b
  BY DEF TypeInv, NumbersBounded
<1>6. number.seq \in Nat /\ number.suffix \in Nat
  BY DEF DocNumber
<1>7. \A i \in DOMAIN docs :
        docs[i].number.seq \in Nat /\ docs[i].number.suffix \in Nat
  <2>1. \A i \in DOMAIN docs : docs[i] \in Document
    BY <1>1
  <2>2. QED
    BY <2>1 DEF Document, DocNumber
<1>8. \A i \in DOMAIN docs' :
        /\ docs'[i].number.seq <= b + number.seq + number.suffix
        /\ docs'[i].number.suffix <= b + number.seq + number.suffix
  BY SMTT(30), <1>2, <1>4, <1>5, <1>6, <1>7 DEF Ids
<1>9. NumbersBounded'
  BY <1>5, <1>6, <1>8 DEF NumbersBounded, Ids
<1>10. QED
  BY <1>3, <1>4, <1>9 DEF StornosOfDocs, TypeInv, Ids

\* Marking documents canceled changes their status only.
LEMMA ReverseType ==
  ASSUME TypeInv, NEW ids \in SUBSET Ids, Reverse(ids)
  PROVE  /\ docs' \in Seq(Document) /\ Ids' = Ids
         /\ \A i \in Ids \ ids : docs'[i] = docs[i]
         /\ \A i \in ids : docs'[i] = [docs[i] EXCEPT !.status = "canceled"]
         /\ stornos' \subseteq [of : Nat, on : Day]
         /\ NumbersBounded' /\ StornosOfDocs'
<1>1. docs \in Seq(Document) /\ Ids = 1 .. Len(docs) /\ Len(docs) \in Nat
  BY DEF TypeInv, TypeOK, Ids
<1>2. docs' = [i \in 1 .. Len(docs) |-> IF i \in ids
                                        THEN [docs[i] EXCEPT !.status = "canceled"]
                                        ELSE docs[i]]
  BY <1>1 DEF Reverse
<1>3. \A i \in Ids : docs[i] \in Document
  BY <1>1
<1>4. \A i \in Ids : /\ docs'[i] \in Document
                     /\ docs'[i].number = docs[i].number
  BY SMTT(30), <1>1, <1>2, <1>3 DEF Document
<1>5. docs' \in Seq(Document) /\ Ids' = Ids
  BY <1>1, <1>2, <1>4 DEF Ids
<1>6. NumbersBounded'
  BY <1>4, <1>5 DEF NumbersBounded, TypeInv
<1>7. /\ stornos' \subseteq [of : Nat, on : Day]
      /\ \A s \in stornos' : s.of \in Ids
  BY <1>1 DEF Reverse, TypeInv, TypeOK, StornosOfDocs
<1>8. QED
  BY <1>1, <1>2, <1>5, <1>6, <1>7 DEF StornosOfDocs

\* Every step keeps the rows well typed.
LEMMA TypeInvStep == TypeInv /\ [Next]_vars => TypeInv'
<1> SUFFICES ASSUME TypeInv, [Next]_vars PROVE TypeInv'
  OBVIOUS
<1>1. \A i \in Ids : docs[i] \in Document
  BY DEF TypeInv, TypeOK, Ids
<1>2. CASE UNCHANGED vars
  BY <1>2 DEF vars, TypeInv, TypeOK, NumbersBounded, StornosOfDocs, Ids
<1>3. CASE MasterData \/ \E a \in Account : RemoveNeighborFromYear(a)
  <2>1. UNCHANGED <<entries, docs, stornos, claims, preview>>
    BY <1>3 DEF MasterData, AddNeighborToYear, RemoveNeighborFromYear,
                SetYearStatus, AnonymizeNeighbor, UpdateCompany, Tick
  <2>2. /\ status' \in [Year -> {"in_progress", "completed"}]
        /\ member' \subseteq Account
        /\ anonymized' \in [Neighbor -> BOOLEAN]
        /\ vatRate' \in VatRate
        /\ today' \in Day
    <3>1. TypeOK
      BY DEF TypeInv
    <3>2. CASE \E a \in Account : AddNeighborToYear(a) \/ RemoveNeighborFromYear(a)
      BY <3>1, <3>2 DEF AddNeighborToYear, RemoveNeighborFromYear, TypeOK
    <3>3. CASE \E y \in Year, to \in {"in_progress", "completed"} : SetYearStatus(y, to)
      BY <3>1, <3>3 DEF SetYearStatus, TypeOK
    <3>4. CASE \E n \in Neighbor : AnonymizeNeighbor(n)
      BY <3>1, <3>4 DEF AnonymizeNeighbor, TypeOK
    <3>5. CASE \E rate \in VatRate : UpdateCompany(rate)
      BY <3>1, <3>5 DEF UpdateCompany, TypeOK
    <3>6. CASE Tick
      BY <3>1, <3>6, BoundAssumption DEF Tick, TypeOK, Day
    <3>7. QED
      BY <1>3, <3>2, <3>3, <3>4, <3>5, <3>6 DEF MasterData
  <2>3. QED
    BY <2>1, <2>2 DEF TypeInv, TypeOK, NumbersBounded, StornosOfDocs, Ids
<1>4. CASE Booking
  <2>1. PICK e \in Entry, row \in EntryRow : WriteEntry(e, row)
    <3>1. PICK e \in Entry :
            \/ \E cost \in Cost : CreateEntry(e, cost) \/ UpdateEntry(e, cost)
            \/ \E voided \in BOOLEAN : SetEntryVoided(e, voided)
            \/ DeleteEntry(e)
      BY <1>4 DEF Booking
    <3>2. entries[e].state = "live" =>
            entries[e] \in [state : {"live"}, cost : Cost, voided : BOOLEAN]
      BY DEF TypeInv, TypeOK, EntryRow, Absent, Deleted
    <3>3. CASE \E cost \in Cost : CreateEntry(e, cost)
      BY <3>3 DEF CreateEntry, EntryRow
    <3>4. CASE \E cost \in Cost : UpdateEntry(e, cost)
      BY <3>2, <3>4 DEF UpdateEntry, EditableEntry, EntryRow
    <3>5. CASE \E voided \in BOOLEAN : SetEntryVoided(e, voided)
      BY <3>2, <3>5 DEF SetEntryVoided, EditableEntry, EntryRow
    <3>6. CASE DeleteEntry(e)
      BY <3>6 DEF DeleteEntry, EntryRow
    <3>7. QED
      BY <3>1, <3>3, <3>4, <3>5, <3>6
  <2>2. entries' \in [Entry -> EntryRow]
    BY <2>1 DEF WriteEntry, TypeInv, TypeOK
  <2>3. QED
    BY <2>1, <2>2 DEF WriteEntry, TypeInv, TypeOK, NumbersBounded, StornosOfDocs, Ids
<1>5. CASE \E a \in Account : BuildPendingInvoiceContent(a)
  <2>1. PICK a \in Account : BuildPendingInvoiceContent(a)
    BY <1>5
  <2>2. preview' \in [Account -> Content]
    BY <2>1, ContentType DEF BuildPendingInvoiceContent, TypeInv, TypeOK
  <2>3. QED
    BY <2>1, <2>2
       DEF BuildPendingInvoiceContent, TypeInv, TypeOK, NumbersBounded, StornosOfDocs, Ids
<1>6. CASE \E a \in Account, on \in Day : IssueInvoice(a, on)
  <2>1. PICK a \in Account, on \in Day : IssueInvoice(a, on)
    BY <1>6
  <2> DEFINE number == [class |-> "R", seq |-> InvoiceSeq(a[1]), suffix |-> 0]
  <2>2. a[1] \in Year
    BY DEF Account
  <2>3. number \in DocNumber
    BY <2>2, NextInvoiceNumber DEF TypeInv, DocNumber
  <2>4. ContentOf(Pending(a)) \in Content
    BY ContentType DEF TypeInv
  <2>5. IssueDocument("invoice", a, 0, number, on, 0, ContentOf(Pending(a)))
        /\ UNCHANGED stornos
    BY <2>1 DEF IssueInvoice
  <2> HIDE DEF number
  <2>6. docs' \in Seq(Document) /\ NumbersBounded' /\ StornosOfDocs'
    BY <2>3, <2>4, <2>5, IssueType
  <2>7. claims' \subseteq Nat \X Entry
    <3>1. Len(docs) + 1 \in Nat
      BY DEF TypeInv, TypeOK
    <3>2. Pending(a) \subseteq Entry
      BY DEF Pending, Live
    <3>3. QED
      BY <2>1, <3>1, <3>2 DEF IssueInvoice, TypeInv, TypeOK
  <2>8. QED
    BY <2>1, <2>6, <2>7 DEF IssueInvoice, TypeInv, TypeOK
<1>7. CASE \E i \in Ids : StornoInvoice(i)
  <2>1. PICK i \in Ids : StornoInvoice(i)
    BY <1>7
  <2>2. Reverse({i} \cup AttachedCredits(i))
    BY <2>1 DEF StornoInvoice
  <2>3. {i} \cup AttachedCredits(i) \subseteq Ids
    BY DEF AttachedCredits, Issued
  <2>4. /\ docs' \in Seq(Document) /\ stornos' \subseteq [of : Nat, on : Day]
        /\ NumbersBounded' /\ StornosOfDocs'
    BY <2>2, <2>3, ReverseType
  <2>5. QED
    BY <2>1, <2>4 DEF StornoInvoice, TypeInv, TypeOK
<1>8. CASE \E i \in Ids : StornoDocument(i)
  <2>1. PICK i \in Ids : StornoDocument(i)
    BY <1>8
  <2>2. Reverse({i})
    BY <2>1 DEF StornoDocument
  <2>3. /\ docs' \in Seq(Document) /\ stornos' \subseteq [of : Nat, on : Day]
        /\ NumbersBounded' /\ StornosOfDocs'
    BY <2>2, ReverseType
  <2>4. QED
    BY <2>1, <2>3 DEF StornoDocument, TypeInv, TypeOK
<1>9. CASE \E i \in Ids, amount \in CreditAmount : GutschriftInvoice(i, amount)
  <2>1. PICK i \in Ids, amount \in CreditAmount : GutschriftInvoice(i, amount)
    BY <1>9
  <2> DEFINE number == [docs[i].number EXCEPT !.suffix = AttachedSuffix(i)]
  <2>2. i \in Nat /\ docs[i].acct \in Account /\ docs[i].number \in DocNumber
    BY <1>1 DEF Document, Ids, TypeInv, TypeOK
  <2>3. number \in DocNumber
    BY <2>2, AttachedSuffixType DEF TypeInv, DocNumber
  <2>4. -amount \in Int /\ today \in Day
    BY AmountAssumption DEF TypeInv, TypeOK
  <2>5. IssueDocument("gutschrift", docs[i].acct, i, number, today, -amount, NoContent)
        /\ UNCHANGED stornos
    BY <2>1 DEF GutschriftInvoice
  <2> HIDE DEF number
  <2>6. docs' \in Seq(Document) /\ NumbersBounded' /\ StornosOfDocs'
    BY <2>2, <2>3, <2>4, <2>5, NoContentType, IssueType
  <2>7. QED
    BY <2>1, <2>6 DEF GutschriftInvoice, TypeInv, TypeOK
<1>10. CASE \E a \in Account, amount \in CreditAmount : CreateAnzahlung(a, amount)
  <2>1. PICK a \in Account, amount \in CreditAmount : CreateAnzahlung(a, amount)
    BY <1>10
  <2> DEFINE number == [class |-> "A", seq |-> ClassSeq(a[1], "A"), suffix |-> 0]
  <2>2. a[1] \in Year
    BY DEF Account
  <2>3. number \in DocNumber
    BY <2>2, NextClassNumber DEF TypeInv, DocNumber
  <2>4. amount \in Int
    BY AmountAssumption
  <2>5. PICK on \in Day : IssueDocument("anzahlung", a, 0, number, on, amount, NoContent)
                          /\ UNCHANGED stornos
    BY <2>1 DEF CreateAnzahlung, DayBegun
  <2> HIDE DEF number
  <2>6. docs' \in Seq(Document) /\ NumbersBounded' /\ StornosOfDocs'
    BY <2>3, <2>4, <2>5, NoContentType, IssueType
  <2>7. QED
    BY <2>1, <2>6 DEF CreateAnzahlung, TypeInv, TypeOK
<1>11. CASE \E a \in Account, amount \in CreditAmount, posted \in PostedSum :
              FreeGutschrift(a, amount, posted)
  <2>1. PICK a \in Account, amount \in CreditAmount, posted \in PostedSum :
          FreeGutschrift(a, amount, posted)
    BY <1>11
  <2> DEFINE number == [class |-> "G", seq |-> ClassSeq(a[1], "G"), suffix |-> 0]
  <2>2. a[1] \in Year
    BY DEF Account
  <2>3. number \in DocNumber
    BY <2>2, NextClassNumber DEF TypeInv, DocNumber
  <2>4. -amount \in Int
    BY AmountAssumption
  <2>5. PICK on \in Day : IssueDocument("gutschrift", a, 0, number, on, -amount, NoContent)
                          /\ UNCHANGED stornos
    BY <2>1 DEF FreeGutschrift, DayBegun
  <2> HIDE DEF number
  <2>6. docs' \in Seq(Document) /\ NumbersBounded' /\ StornosOfDocs'
    BY <2>3, <2>4, <2>5, NoContentType, IssueType
  <2>7. QED
    BY <2>1, <2>6 DEF FreeGutschrift, TypeInv, TypeOK
<1>12. QED
  BY <1>2, <1>3, <1>4, <1>5, <1>6, <1>7, <1>8, <1>9, <1>10, <1>11 DEF Next, Invoicing

LEMMA TypeInvInit == Init => TypeInv
<1> SUFFICES ASSUME Init PROVE TypeInv
  OBVIOUS
<1>1. docs = <<>> /\ Ids = {}
  BY DEF Init, Ids
<1>2. TypeOK
  BY <1>1, NoContentType, BoundAssumption
     DEF Init, TypeOK, EntryRow, Absent, Deleted, Day
<1>3. NumbersBounded /\ StornosOfDocs
  BY <1>1 DEF Init, NumbersBounded, StornosOfDocs
<1>4. QED
  BY <1>2, <1>3 DEF TypeInv

LEMMA TypeInvAlways == Spec => []TypeInv
BY TypeInvInit, TypeInvStep, PTL DEF Spec

\* Every reachable state holds well-typed rows, for any number of years,
\* neighbors, bookings and documents.
THEOREM TypeCorrect == Spec => []TypeOK
<1>1. TypeInv => TypeOK
  BY DEF TypeInv
<1>2. QED
  BY <1>1, TypeInvAlways, PTL
-----------------------------------------------------------------------------
(* Frozen sources *)

\* A step that leaves the bookings, the claims and the standing invoices alone.
LEMMA FrozenKept ==
  ASSUME FrozenSourcesIntact, UNCHANGED <<entries, claims>>,
         Issued("invoice")' = Issued("invoice"),
         \A i \in Issued("invoice") : docs'[i].acct = docs[i].acct
                                     /\ docs'[i].content = docs[i].content
  PROVE  FrozenSourcesIntact'
<1>1. ClaimsBelongToInvoices'
  BY DEF FrozenSourcesIntact, ClaimsBelongToInvoices
<1>2. ClaimsExclusive'
  BY DEF FrozenSourcesIntact, ClaimsExclusive
<1>3. LinesAsBooked'
  BY DEF FrozenSourcesIntact, LinesAsBooked
<1>4. QED
  BY <1>1, <1>2, <1>3 DEF FrozenSourcesIntact

\* What appending a document does to the documents already there.
LEMMA AppendKeeps ==
  ASSUME TypeOK, NEW kind, NEW a, NEW ref, NEW number, NEW on, NEW amount, NEW content,
         IssueDocument(kind, a, ref, number, on, amount, content)
  PROVE  /\ Ids' = Ids \cup {Len(docs) + 1} /\ Len(docs) + 1 \notin Ids
         /\ \A i \in Ids : docs'[i] = docs[i]
         /\ docs'[Len(docs) + 1].kind = kind
         /\ docs'[Len(docs) + 1].status = "issued"
         /\ docs'[Len(docs) + 1].acct = a
         /\ docs'[Len(docs) + 1].ref = ref
         /\ docs'[Len(docs) + 1].number = number
         /\ docs'[Len(docs) + 1].issuedOn = on
         /\ docs'[Len(docs) + 1].amount = amount
         /\ docs'[Len(docs) + 1].content = content
<1> DEFINE d == [kind |-> kind, status |-> "issued", acct |-> a, ref |-> ref,
                 number |-> number, issuedOn |-> on, amount |-> amount,
                 content |-> content]
<1>1. docs \in Seq(Document) /\ docs' = Append(docs, d)
  BY DEF TypeOK, IssueDocument
<1> HIDE DEF d
<1>2. /\ DOMAIN docs' = DOMAIN docs \cup {Len(docs) + 1}
      /\ Len(docs) + 1 \notin DOMAIN docs
      /\ \A i \in DOMAIN docs : docs'[i] = docs[i]
      /\ docs'[Len(docs) + 1] = d
  BY <1>1
<1>3. /\ d.kind = kind /\ d.status = "issued"
      /\ d.acct = a /\ d.ref = ref /\ d.number = number
      /\ d.issuedOn = on /\ d.amount = amount /\ d.content = content
  BY DEF d
<1>4. QED
  BY <1>2, <1>3 DEF Ids

\* A booking step writes only rows that no invoice claims.
LEMMA BookingSparesClaimed ==
  ASSUME TypeInv, FrozenSourcesIntact, Booking
  PROVE  /\ UNCHANGED <<docs, claims>>
         /\ \A c \in claims : entries'[c[2]] = entries[c[2]]
<1>1. PICK e \in Entry :
        \/ \E cost \in Cost : CreateEntry(e, cost) \/ UpdateEntry(e, cost)
        \/ \E voided \in BOOLEAN : SetEntryVoided(e, voided)
        \/ DeleteEntry(e)
  BY DEF Booking
<1>2. \E row : WriteEntry(e, row)
  BY <1>1 DEF CreateEntry, UpdateEntry, SetEntryVoided, DeleteEntry
<1>3. \A c \in claims : entries[c[2]].state = "live"
  BY DEF FrozenSourcesIntact, ClaimsBelongToInvoices, LinesAsBooked
<1>4. entries[e].state = "absent" \/ ~Claimed(e)
  BY <1>1 DEF CreateEntry, UpdateEntry, SetEntryVoided, DeleteEntry, EditableEntry
<1>5. \A c \in claims : c[2] # e
  BY <1>3, <1>4 DEF Claimed
<1>6. QED
  BY <1>2, <1>5 DEF WriteEntry, TypeInv, TypeOK

LEMMA FrozenByIssue ==
  ASSUME TypeInv, FrozenSourcesIntact, NEW a \in Account, NEW on \in Day,
         IssueInvoice(a, on)
  PROVE  FrozenSourcesIntact'
<1> DEFINE new == Len(docs) + 1
           added == {<<new, e>> : e \in Pending(a)}
<1>1. /\ Ids' = Ids \cup {new} /\ new \notin Ids
      /\ \A i \in Ids : docs'[i] = docs[i]
      /\ docs'[new].kind = "invoice" /\ docs'[new].status = "issued"
      /\ docs'[new].acct = a
      /\ docs'[new].content.lines = {<<e, entries[e].cost>> : e \in Pending(a)}
  <2>1. TypeOK
    BY DEF TypeInv
  <2>2. IssueDocument("invoice", a, 0,
                      [class |-> "R", seq |-> InvoiceSeq(a[1]), suffix |-> 0],
                      on, 0, ContentOf(Pending(a)))
    BY DEF IssueInvoice
  <2>3. /\ Ids' = Ids \cup {new} /\ new \notin Ids
        /\ \A i \in Ids : docs'[i] = docs[i]
        /\ docs'[new].kind = "invoice" /\ docs'[new].status = "issued"
        /\ docs'[new].acct = a /\ docs'[new].content = ContentOf(Pending(a))
    BY <2>1, <2>2, AppendKeeps
  <2>4. ContentOf(Pending(a)).lines = {<<e, entries[e].cost>> : e \in Pending(a)}
    BY DEF ContentOf
  <2>5. QED
    BY <2>3, <2>4
<1>2. claims' = claims \cup added /\ UNCHANGED entries
  BY DEF IssueInvoice
<1>3. Issued("invoice")' = Issued("invoice") \cup {new}
  BY <1>1 DEF Issued
<1>4. \A c \in claims : c[1] \in Issued("invoice") /\ c[1] \in Ids
                      /\ docs[c[1]].acct = AccountOf[c[2]]
  BY DEF FrozenSourcesIntact, ClaimsBelongToInvoices, Issued
<1>5. \A e \in Pending(a) : /\ AccountOf[e] = a /\ entries[e].state = "live"
                           /\ ~entries[e].voided
                           /\ \A c \in claims : c[2] # e
  BY DEF Pending, Live, Claimed
<1> HIDE DEF new
<1>6. \A c \in added : c[1] = new /\ c[2] \in Pending(a)
  OBVIOUS
<1>7. ClaimsBelongToInvoices'
  <2>1. \A c \in claims : c[1] \in Issued("invoice")' /\ docs'[c[1]].acct = AccountOf[c[2]]
    BY <1>1, <1>3, <1>4
  <2>2. \A c \in added : c[1] \in Issued("invoice")' /\ docs'[c[1]].acct = AccountOf[c[2]]
    BY <1>1, <1>3, <1>5, <1>6
  <2>3. QED
    BY <1>2, <2>1, <2>2 DEF ClaimsBelongToInvoices
<1>8. ClaimsExclusive'
  BY <1>2, <1>5, <1>6 DEF FrozenSourcesIntact, ClaimsExclusive
<1>9. LinesAsBooked'
  <2>1. ASSUME NEW i \in Issued("invoice")
        PROVE  /\ docs'[i].content.lines =
                    {<<c[2], entries[c[2]].cost>> : c \in {d \in claims' : d[1] = i}}
               /\ \A c \in claims' : c[1] = i => entries[c[2]].state = "live"
                                                /\ ~entries[c[2]].voided
    <3>1. i \in Ids /\ i # new
      BY <1>1, <2>1 DEF Issued
    <3>2. {d \in claims' : d[1] = i} = {d \in claims : d[1] = i}
      BY <1>2, <1>6, <3>1
    <3>3. QED
      BY <1>1, <3>1, <3>2 DEF FrozenSourcesIntact, LinesAsBooked
  <2>2. {d \in claims' : d[1] = new} = added
    BY <1>1, <1>2, <1>4, <1>6
  <2>3. {<<c[2], entries[c[2]].cost>> : c \in added} =
           {<<e, entries[e].cost>> : e \in Pending(a)}
    <3>1. \A e \in Pending(a) : <<new, e>> \in added /\ <<new, e>>[2] = e
      OBVIOUS
    <3> HIDE DEF added
    <3>2. QED
      BY <1>6, <3>1
  <2>4. /\ docs'[new].content.lines =
              {<<c[2], entries[c[2]].cost>> : c \in {d \in claims' : d[1] = new}}
        /\ \A c \in claims' : c[1] = new => entries[c[2]].state = "live"
                                           /\ ~entries[c[2]].voided
    BY <1>1, <1>5, <1>6, <2>2, <2>3
  <2>5. QED
    BY <1>2, <1>3, <2>1, <2>4 DEF LinesAsBooked
<1>10. QED
  BY <1>7, <1>8, <1>9 DEF FrozenSourcesIntact

LEMMA FrozenByStorno ==
  ASSUME TypeInv, FrozenSourcesIntact, NEW i \in Ids, StornoInvoice(i)
  PROVE  FrozenSourcesIntact'
<1> DEFINE gone == {i} \cup AttachedCredits(i)
<1>1. gone \subseteq Ids /\ Reverse(gone)
  BY DEF StornoInvoice, AttachedCredits, Issued
<1>2. /\ Ids' = Ids
      /\ \A j \in Ids \ gone : docs'[j] = docs[j]
      /\ \A j \in gone : docs'[j] = [docs[j] EXCEPT !.status = "canceled"]
  BY <1>1, ReverseType
<1>3. docs \in Seq(Document) /\ \A j \in Ids : docs[j] \in Document
  BY DEF TypeInv, TypeOK, Ids
<1>4. \A j \in gone : docs'[j].status = "canceled"
  BY <1>1, <1>2, <1>3 DEF Document
<1>5. \A j \in Issued("invoice") : j # i => j \notin gone
  BY DEF AttachedCredits, Issued
<1> HIDE DEF gone
<1>6. Issued("invoice")' = Issued("invoice") \ {i}
  <2>1. i \in gone
    BY DEF gone
  <2>2. QED
    BY <1>2, <1>4, <1>5, <2>1 DEF Issued
<1>7. \A j \in Issued("invoice")' : docs'[j] = docs[j] /\ j # i
  BY <1>2, <1>5, <1>6 DEF Issued
<1>8. claims' = {c \in claims : c[1] # i} /\ UNCHANGED entries
  BY DEF StornoInvoice
<1>9. ClaimsBelongToInvoices'
  BY <1>6, <1>7, <1>8 DEF FrozenSourcesIntact, ClaimsBelongToInvoices
<1>10. ClaimsExclusive'
  BY <1>8 DEF FrozenSourcesIntact, ClaimsExclusive
<1>11. LinesAsBooked'
  <2>1. ASSUME NEW j \in Issued("invoice")'
        PROVE  {d \in claims' : d[1] = j} = {d \in claims : d[1] = j}
    BY <1>7, <1>8
  <2>2. QED
    BY <1>6, <1>7, <1>8, <2>1 DEF FrozenSourcesIntact, LinesAsBooked
<1>12. QED
  BY <1>9, <1>10, <1>11 DEF FrozenSourcesIntact

LEMMA FrozenStep == TypeInv /\ FrozenSourcesIntact /\ [Next]_vars => FrozenSourcesIntact'
<1> SUFFICES ASSUME TypeInv, FrozenSourcesIntact, [Next]_vars
             PROVE  FrozenSourcesIntact'
  OBVIOUS
<1>1. TypeOK /\ \A i \in Ids : docs[i] \in Document
  BY DEF TypeInv, TypeOK, Ids
<1>2. CASE UNCHANGED <<entries, docs, claims>>
  BY <1>2, FrozenKept DEF Issued, Ids
<1>3. CASE Booking
  <2>1. /\ UNCHANGED <<docs, claims>>
        /\ \A c \in claims : entries'[c[2]] = entries[c[2]]
    BY <1>3, BookingSparesClaimed
  <2>2. Issued("invoice")' = Issued("invoice")
    BY <2>1 DEF Issued, Ids
  <2>3. LinesAsBooked'
    BY <2>1, <2>2 DEF FrozenSourcesIntact, LinesAsBooked
  <2>4. QED
    BY <2>1, <2>2, <2>3
       DEF FrozenSourcesIntact, ClaimsBelongToInvoices, ClaimsExclusive
<1>4. ASSUME NEW kind \in {"gutschrift", "anzahlung"},
             NEW a, NEW ref, NEW number, NEW on, NEW amount, NEW content,
             IssueDocument(kind, a, ref, number, on, amount, content),
             UNCHANGED <<entries, claims>>
      PROVE  FrozenSourcesIntact'
  <2>1. /\ Ids' = Ids \cup {Len(docs) + 1} /\ Len(docs) + 1 \notin Ids
        /\ \A i \in Ids : docs'[i] = docs[i]
        /\ docs'[Len(docs) + 1].kind = kind
    BY <1>1, <1>4, AppendKeeps
  <2>2. Issued("invoice")' = Issued("invoice")
    BY <2>1 DEF Issued
  <2>3. QED
    BY <1>4, <2>1, <2>2, FrozenKept DEF Issued
<1>5. ASSUME NEW i \in Ids, StornoDocument(i)
      PROVE  FrozenSourcesIntact'
  <2>1. Reverse({i}) /\ docs[i].kind # "invoice" /\ UNCHANGED <<entries, claims>>
    BY <1>5 DEF StornoDocument, Reversible
  <2>2. /\ Ids' = Ids /\ \A j \in Ids \ {i} : docs'[j] = docs[j]
        /\ docs'[i] = [docs[i] EXCEPT !.status = "canceled"]
    BY <2>1, ReverseType
  <2>3. docs'[i].kind = docs[i].kind
    BY <1>1, <2>2 DEF Document
  <2>4. Issued("invoice")' = Issued("invoice")
    BY <2>1, <2>2, <2>3 DEF Issued
  <2>5. QED
    BY <2>1, <2>2, <2>4, FrozenKept DEF Issued
<1>6. CASE \E a \in Account, on \in Day : IssueInvoice(a, on)
  BY <1>6, FrozenByIssue
<1>7. CASE \E i \in Ids : StornoInvoice(i)
  BY <1>7, FrozenByStorno
<1>8. CASE \E i \in Ids, amount \in CreditAmount : GutschriftInvoice(i, amount)
  BY <1>4, <1>8 DEF GutschriftInvoice
<1>9. CASE \E a \in Account, amount \in CreditAmount : CreateAnzahlung(a, amount)
  BY <1>4, <1>9 DEF CreateAnzahlung
<1>10. CASE \E a \in Account, amount \in CreditAmount, posted \in PostedSum :
              FreeGutschrift(a, amount, posted)
  BY <1>4, <1>10 DEF FreeGutschrift
<1>11. CASE MasterData \/ \E a \in Account :
                RemoveNeighborFromYear(a) \/ BuildPendingInvoiceContent(a)
  <2>1. UNCHANGED <<entries, docs, claims>>
    BY <1>11 DEF MasterData, AddNeighborToYear, RemoveNeighborFromYear,
                 SetYearStatus, AnonymizeNeighbor, UpdateCompany, Tick,
                 BuildPendingInvoiceContent
  <2>2. QED
    BY <1>2, <2>1
<1>12. QED
  BY <1>2, <1>3, <1>5, <1>6, <1>7, <1>8, <1>9, <1>10, <1>11 DEF Next, Invoicing, vars

\* What an issued invoice froze stays exactly as booked and is billed by no other
\* invoice, for any number of accounts, bookings and documents.
THEOREM SourcesStayFrozen == Spec => []FrozenSourcesIntact
<1>1. Init => FrozenSourcesIntact
  BY DEF Init, FrozenSourcesIntact, ClaimsBelongToInvoices, ClaimsExclusive,
         LinesAsBooked, Issued, Ids
<1>2. QED
  BY <1>1, FrozenStep, TypeInvAlways, PTL DEF Spec

-----------------------------------------------------------------------------
(* What a step may do to the documents *)

Quiet == UNCHANGED <<docs, stornos, claims>>

\* A document other than an invoice is issued today, or on the day its request began.
Notes(kind, a, ref, number, amount) ==
  /\ \E on \in DayBegun :
       IssueDocument(kind, a, ref, number, on, amount, NoContent) /\ (ref # 0 => on = today)
  /\ UNCHANGED <<status, member, anonymized, entries, stornos, claims, preview, vatRate, today>>

Credits ==
  \/ \E i \in Ids, amount \in CreditAmount : GutschriftInvoice(i, amount)
  \/ \E a \in Account, amount \in CreditAmount : CreateAnzahlung(a, amount)
  \/ \E a \in Account, amount \in CreditAmount, posted \in PostedSum :
       FreeGutschrift(a, amount, posted)

LEMMA CreditsNote ==
  ASSUME TypeOK, Credits
  PROVE  \E kind \in {"gutschrift", "anzahlung"}, a \in Account : \E ref, number, amount :
           /\ Notes(kind, a, ref, number, amount)
           /\ status[a[1]] = "in_progress" /\ a \in member
<1>1. \A i \in Ids : docs[i].acct \in Account
  <2>1. \A i \in Ids : docs[i] \in Document
    BY DEF TypeOK, Ids
  <2>2. QED
    BY <2>1 DEF Document
<1>2. ASSUME NEW i \in Ids, NEW amount \in CreditAmount, GutschriftInvoice(i, amount)
      PROVE  /\ Notes("gutschrift", docs[i].acct, i,
                      [docs[i].number EXCEPT !.suffix = AttachedSuffix(i)], -amount)
             /\ status[docs[i].acct[1]] = "in_progress" /\ docs[i].acct \in member
  BY <1>2 DEF GutschriftInvoice, Reversible, Notes, DayBegun, TypeOK
<1>3. ASSUME NEW a \in Account, NEW amount \in CreditAmount, CreateAnzahlung(a, amount)
      PROVE  /\ Notes("anzahlung", a, 0, [class |-> "A", seq |-> ClassSeq(a[1], "A"), suffix |-> 0],
                      amount)
             /\ status[a[1]] = "in_progress" /\ a \in member
  BY <1>3 DEF CreateAnzahlung, OpenAccount, Notes
<1>4. ASSUME NEW a \in Account, NEW amount \in CreditAmount, NEW posted \in PostedSum,
             FreeGutschrift(a, amount, posted)
      PROVE  /\ Notes("gutschrift", a, 0, [class |-> "G", seq |-> ClassSeq(a[1], "G"), suffix |-> 0],
                      -amount)
             /\ status[a[1]] = "in_progress" /\ a \in member
  BY <1>4 DEF FreeGutschrift, OpenAccount, Notes
<1>5. CASE \E i \in Ids, amount \in CreditAmount : GutschriftInvoice(i, amount)
  <2>1. PICK i \in Ids, amount \in CreditAmount : GutschriftInvoice(i, amount)
    BY <1>5
  <2>2. QED
    BY <1>1, <1>2, <2>1
<1>6. CASE \E a \in Account, amount \in CreditAmount : CreateAnzahlung(a, amount)
  <2>1. PICK a \in Account, amount \in CreditAmount : CreateAnzahlung(a, amount)
    BY <1>6
  <2>2. QED
    BY <1>3, <2>1
<1>7. CASE \E a \in Account, amount \in CreditAmount, posted \in PostedSum :
             FreeGutschrift(a, amount, posted)
  <2>1. PICK a \in Account, amount \in CreditAmount, posted \in PostedSum :
          FreeGutschrift(a, amount, posted)
    BY <1>7
  <2>2. QED
    BY <1>4, <2>1
<1>8. QED
  BY <1>5, <1>6, <1>7 DEF Credits

LEMMA StepOfDocuments ==
  ASSUME [Next]_vars
  PROVE  \/ Quiet \/ Credits
         \/ \E a \in Account, on \in Day : IssueInvoice(a, on)
         \/ \E i \in Ids : StornoInvoice(i) \/ StornoDocument(i)
<1>1. CASE UNCHANGED vars
  BY <1>1 DEF vars, Quiet
<1>2. CASE MasterData \/ \E a \in Account : RemoveNeighborFromYear(a) \/ BuildPendingInvoiceContent(a)
  BY <1>2 DEF MasterData, AddNeighborToYear, RemoveNeighborFromYear, SetYearStatus,
              AnonymizeNeighbor, UpdateCompany, Tick, BuildPendingInvoiceContent, Quiet
<1>3. CASE Booking
  BY <1>3 DEF Booking, CreateEntry, UpdateEntry, SetEntryVoided, DeleteEntry, WriteEntry, Quiet
<1>4. QED
  BY <1>1, <1>2, <1>3 DEF Next, Invoicing, Credits

\* What the storno of an invoice or of another document does to the rows.
Reverses(ids) ==
  /\ Ids' = Ids /\ ids # {} /\ ids \subseteq Ids
  /\ \A i \in Ids \ ids : docs'[i] = docs[i]
  /\ \A i \in ids : docs'[i] = [docs[i] EXCEPT !.status = "canceled"]
  /\ stornos' = stornos \cup {[of |-> i, on |-> today] : i \in ids}

LEMMA StornosReverse ==
  ASSUME TypeInv, NEW i \in Ids, StornoInvoice(i) \/ StornoDocument(i)
  PROVE  \E ids \in SUBSET Ids :
           /\ Reverses(ids) /\ today' = today
           /\ \A j \in ids : docs[j].status = "issued"
           /\ ids = {i} \/ ids = {i} \cup AttachedCredits(i)
           /\ docs[i].acct \in member /\ status[docs[i].acct[1]] = "in_progress"
<1>1. AttachedCredits(i) \subseteq Ids /\ \A j \in AttachedCredits(i) : docs[j].status = "issued"
  BY DEF AttachedCredits, Issued
<1>2. PICK ids \in SUBSET Ids : Reverse(ids) /\ (ids = {i} \/ ids = {i} \cup AttachedCredits(i))
  BY <1>1 DEF StornoInvoice, StornoDocument
<1>3. /\ docs[i].status = "issued" /\ today' = today
      /\ docs[i].acct \in member /\ status[docs[i].acct[1]] = "in_progress"
  BY DEF StornoInvoice, StornoDocument, Reversible
<1>4. Reverses(ids)
  BY <1>2, ReverseType DEF Reverses, Reverse
<1>5. QED
  BY <1>1, <1>2, <1>3, <1>4

-----------------------------------------------------------------------------
(* What the operator confirmed *)

\* A new invoice freezes exactly the content its operator confirmed, which is all
\* of the account's unbilled work, whatever was booked, priced or issued between
\* the preview and the confirmation (IssueInvoiceConfirmed, invoiceContentHash).
THEOREM IssuedAsConfirmed == Spec => ConfirmedIssue
<1>1. ASSUME TypeInv, [Next]_vars, NEW i \in DOMAIN docs' \ Ids, docs'[i].kind = "invoice"
      PROVE  /\ docs'[i].content = preview[docs'[i].acct]
             /\ preview[docs'[i].acct] = ContentOf(Pending(docs'[i].acct))
  <2>1. TypeOK
    BY <1>1 DEF TypeInv
  <2>2. CASE Quiet
    BY <1>1, <2>2 DEF Quiet, Ids
  <2>3. CASE Credits
    <3>0. PICK kind \in {"gutschrift", "anzahlung"}, a \in Account :
            \E ref, number, amount : Notes(kind, a, ref, number, amount)
      BY <2>1, <2>3, CreditsNote
    <3>1. PICK ref, number, amount : Notes(kind, a, ref, number, amount)
      BY <3>0
    <3>2. PICK on \in Day : IssueDocument(kind, a, ref, number, on, amount, NoContent)
      BY <3>1 DEF Notes, DayBegun
    <3>3. i = Len(docs) + 1 /\ docs'[i].kind = kind
      BY <1>1, <2>1, <3>2, AppendKeeps DEF Ids
    <3> QED
      BY <1>1, <3>3
  <2>4. ASSUME NEW a \in Account, NEW on \in Day, IssueInvoice(a, on)
        PROVE  /\ docs'[i].content = preview[docs'[i].acct]
               /\ preview[docs'[i].acct] = ContentOf(Pending(docs'[i].acct))
    <3>1. /\ IssueDocument("invoice", a, 0, [class |-> "R", seq |-> InvoiceSeq(a[1]), suffix |-> 0],
                           on, 0, ContentOf(Pending(a)))
          /\ Confirmed(a)
      BY <2>4 DEF IssueInvoice
    <3>2. /\ i = Len(docs) + 1 /\ docs'[i].acct = a
          /\ docs'[i].content = ContentOf(Pending(a))
      BY <1>1, <2>1, <3>1, AppendKeeps DEF Ids
    <3> QED
      BY <3>1, <3>2 DEF Confirmed
  <2>5. ASSUME NEW j \in Ids, StornoInvoice(j) \/ StornoDocument(j)
        PROVE  FALSE
    <3>1. Ids' = Ids
      BY <1>1, <2>5, StornosReverse DEF Reverses
    <3> QED
      BY <1>1, <3>1 DEF Ids
  <2> QED
    BY <1>1, <2>2, <2>3, <2>4, <2>5, StepOfDocuments
<1>2. TypeInv /\ [Next]_vars =>
        [\A i \in DOMAIN docs' \ Ids : docs'[i].kind = "invoice" =>
           LET a == docs'[i].acct
           IN docs'[i].content = preview[a] /\ preview[a] = ContentOf(Pending(a))]_vars
  BY <1>1
<1> QED
  BY <1>2, TypeInvAlways, PTL DEF Spec, ConfirmedIssue

-----------------------------------------------------------------------------
(* Numbers *)

AttachedTo(i) == {j \in Ids : docs[j].ref = i}
Own(y, letter) == {i \in SequencedDocs(y) : docs[i].number.class = letter}

\* The number of an invoice, of a standalone document, of an attached credit.
Plain(i, letter) ==
  docs[i].ref = 0 /\ docs[i].number.class = letter /\ docs[i].number.suffix = 0

Attached(j, i) ==
  /\ docs[j].ref = i /\ docs[i].kind = "invoice" /\ docs[j].acct = docs[i].acct
  /\ docs[j].number.class = "R" /\ docs[j].number.seq = docs[i].number.seq
  /\ docs[j].number.suffix \in 1 .. Cardinality(AttachedTo(i))

Shaped(i) ==
  \/ docs[i].kind = "invoice" /\ Plain(i, "R")
  \/ docs[i].kind = "anzahlung" /\ Plain(i, "A")
  \/ docs[i].kind = "gutschrift" /\ Plain(i, "G")
  \/ docs[i].kind = "gutschrift" /\ \E k \in Ids : Attached(i, k)

NumbersShaped == \A i \in Ids : Shaped(i)

NumberInv == NumbersShaped /\ NumbersUnique /\ SequencesGapless

LEMMA IdsFinite ==
  ASSUME TypeOK, NEW S \in SUBSET Ids
  PROVE  /\ IsFiniteSet(S) /\ Cardinality(S) \in Nat
         /\ Ids \subseteq Nat \ {0} /\ \A i \in Ids : docs[i] \in Document
<1>1. Ids = 1 .. Len(docs) /\ Len(docs) \in Nat /\ \A i \in Ids : docs[i] \in Document
  BY DEF TypeOK, Ids
<1>2. IsFiniteSet(Ids)
  BY <1>1, FS_Interval
<1>3. IsFiniteSet(S)
  BY <1>2, FS_Subset
<1>4. Cardinality(S) \in Nat
  BY <1>3, FS_CardinalityType
<1>5. QED
  BY <1>1, <1>3, <1>4

GaplessAt(y, letter) ==
  {docs[i].number.seq : i \in Own(y, letter)} = 1 .. Cardinality(Own(y, letter))

LEMMA GaplessSplit ==
  ASSUME SequencesGapless, NEW y \in Year, NEW letter \in {"A", "G"}
  PROVE  GaplessAt(y, letter)
BY DEF SequencesGapless, GaplessAt, Own

LEMMA GaplessJoin ==
  ASSUME \A y \in Year, letter \in {"A", "G"} : GaplessAt(y, letter)'
  PROVE  SequencesGapless'
BY DEF SequencesGapless, GaplessAt, Own

\* A storno leaves every number where it is.
LEMMA NumbersKept ==
  ASSUME NumberInv, Ids' = Ids,
         \A i \in Ids : /\ docs'[i].kind = docs[i].kind /\ docs'[i].acct = docs[i].acct
                        /\ docs'[i].ref = docs[i].ref /\ docs'[i].number = docs[i].number
  PROVE  NumberInv'
<1>1. \A i \in Ids : AttachedTo(i)' = AttachedTo(i)
  BY DEF AttachedTo
<1>2. NumbersShaped'
  <2>1. ASSUME NEW i \in Ids PROVE Shaped(i)'
    <3>1. Shaped(i)
      BY DEF NumberInv, NumbersShaped
    <3>2. QED
      BY <1>1, <3>1 DEF Shaped, Plain, Attached
  <2>2. QED
    BY <2>1 DEF NumbersShaped
<1>3. NumbersUnique'
  BY DEF NumberInv, NumbersUnique
<1>4. SequencesGapless'
  <2>1. \A y \in Year : SequencedDocs(y)' = SequencedDocs(y)
    BY DEF SequencedDocs, OfYear
  <2>2. \A y \in Year, letter \in {"A", "G"} : Own(y, letter)' = Own(y, letter)
    BY <2>1 DEF Own, SequencedDocs, OfYear
  <2>3. \A y \in Year, letter \in {"A", "G"} :
          {docs'[i].number.seq : i \in Own(y, letter)} = {docs[i].number.seq : i \in Own(y, letter)}
    BY DEF Own, SequencedDocs, OfYear
  <2>4. QED
    BY <2>2, <2>3, GaplessSplit, GaplessJoin DEF NumberInv, GaplessAt
<1>5. QED
  BY <1>2, <1>3, <1>4 DEF NumberInv

\* The new document, and the old ones as they were.
Appends(new, kind, a, ref, number) ==
  /\ Ids' = Ids \cup {new} /\ new \notin Ids
  /\ \A i \in Ids : docs'[i] = docs[i]
  /\ docs'[new].kind = kind /\ docs'[new].acct = a
  /\ docs'[new].ref = ref /\ docs'[new].number = number

\* The other documents' numbers keep their shape when one is appended.
LEMMA ShapesKept ==
  ASSUME TypeOK, NumberInv, NEW new, NEW kind, NEW a, NEW ref, NEW number,
         Appends(new, kind, a, ref, number),
         NEW i \in Ids
  PROVE  Shaped(i)'
<1>1. Ids' = Ids \cup {new} /\ new \notin Ids /\ \A j \in Ids : docs'[j] = docs[j]
  BY DEF Appends
<1>2. Shaped(i)
  BY DEF NumberInv, NumbersShaped
<1>3. CASE docs[i].kind = "gutschrift" /\ \E k \in Ids : Attached(i, k)
  <2>1. PICK k \in Ids : Attached(i, k)
    BY <1>3
  <2>2. AttachedTo(k) \subseteq AttachedTo(k)' /\ AttachedTo(k)' \subseteq AttachedTo(k) \cup {new}
    BY <1>1 DEF AttachedTo
  <2>3. IsFiniteSet(AttachedTo(k)) /\ Cardinality(AttachedTo(k)) \in Nat
    BY IdsFinite DEF AttachedTo
  <2>4. IsFiniteSet(AttachedTo(k) \cup {new})
    BY <2>3, FS_AddElement
  <2>5. IsFiniteSet(AttachedTo(k)') /\ Cardinality(AttachedTo(k)') \in Nat
    BY <2>2, <2>4, FS_Subset, FS_CardinalityType
  <2>6. Cardinality(AttachedTo(k)) <= Cardinality(AttachedTo(k)')
    BY <2>2, <2>5, FS_Subset
  <2>7. docs[i].number.suffix \in 1 .. Cardinality(AttachedTo(k)')
    BY <2>1, <2>3, <2>5, <2>6 DEF Attached
  <2>8. Attached(i, k)'
    BY <1>1, <2>1, <2>7 DEF Attached
  <2>9. QED
    BY <1>1, <1>3, <2>8 DEF Shaped
<1>4. CASE ~(docs[i].kind = "gutschrift" /\ \E k \in Ids : Attached(i, k))
  BY <1>1, <1>2, <1>4 DEF Shaped, Plain
<1>5. QED
  BY <1>3, <1>4

\* A document that is not numbered in a sequence of its own leaves them be.
LEMMA GaplessKept ==
  ASSUME TypeOK, NumberInv, NEW new, NEW kind, NEW a, NEW ref, NEW number,
         Appends(new, kind, a, ref, number),
         NEW y \in Year, NEW letter \in {"A", "G"},
         ref # 0 \/ number.class # letter \/ a[1] # y
  PROVE  Own(y, letter)' = Own(y, letter)
<1>1. /\ Ids' = Ids \cup {new} /\ new \notin Ids /\ \A j \in Ids : docs'[j] = docs[j]
      /\ docs'[new].acct = a /\ docs'[new].ref = ref /\ docs'[new].number = number
  BY DEF Appends
<1>2. \A i : i \in Own(y, letter)' <=> /\ i \in Ids' /\ docs'[i].acct[1] = y /\ docs'[i].ref = 0
                                      /\ docs'[i].number.class = letter
  BY DEF Own, SequencedDocs, OfYear
<1>3. \A i : i \in Own(y, letter) <=> /\ i \in Ids /\ docs[i].acct[1] = y /\ docs[i].ref = 0
                                     /\ docs[i].number.class = letter
  BY DEF Own, SequencedDocs, OfYear
<1>4. \A i : i \in Own(y, letter)' => i \in Ids
  BY <1>1, <1>2
<1>5. \A i \in Ids : i \in Own(y, letter)' <=> i \in Own(y, letter)
  BY <1>1, <1>2, <1>3
<1>6. QED
  BY <1>3, <1>4, <1>5

\* The next number of a standalone document is the first one free.
LEMMA NextIsFirstFree ==
  ASSUME TypeOK, NumberInv, NEW y \in Year, NEW letter \in {"A", "G"}
  PROVE  ClassSeq(y, letter) = Cardinality(Own(y, letter)) + 1
<1> DEFINE n == Cardinality(Own(y, letter))
           U == UNION {TrailingSeq(docs[i].number, letter) : i \in SequencedDocs(y)}
           S == {0} \cup U
<1>1. Own(y, letter) \subseteq Ids
  BY DEF Own, SequencedDocs, OfYear
<1>2. n \in Nat /\ \A i \in Ids : docs[i] \in Document
  BY <1>1, IdsFinite
<1>3. {docs[i].number.seq : i \in Own(y, letter)} = 1 .. n
  BY GaplessSplit DEF NumberInv, GaplessAt
<1>4. \A i \in SequencedDocs(y) :
        TrailingSeq(docs[i].number, letter)
          = IF docs[i].number.class = letter THEN {docs[i].number.seq} ELSE {}
  <2> TAKE i \in SequencedDocs(y)
  <2>1. i \in Ids /\ docs[i].ref = 0 /\ docs[i] \in Document
    BY <1>2 DEF SequencedDocs, OfYear
  <2>2. docs[i].number.suffix = 0
    <3>1. Shaped(i)
      BY <2>1 DEF NumberInv, NumbersShaped
    <3>2. \A k \in Ids : k # 0
      BY IdsFinite
    <3>3. QED
      BY <2>1, <3>1, <3>2 DEF Shaped, Plain, Attached
  <2>3. QED
    BY <2>2 DEF TrailingSeq
<1>5. U = {docs[i].number.seq : i \in Own(y, letter)}
  <2>1. ASSUME NEW x \in U PROVE x \in {docs[i].number.seq : i \in Own(y, letter)}
    <3>1. PICK i \in SequencedDocs(y) : x \in TrailingSeq(docs[i].number, letter)
      OBVIOUS
    <3>2. QED
      BY <1>4, <3>1 DEF Own
  <2>2. ASSUME NEW i \in Own(y, letter) PROVE docs[i].number.seq \in U
    <3>1. i \in SequencedDocs(y) /\ docs[i].number.class = letter
      BY DEF Own
    <3>2. QED
      BY <1>4, <3>1
  <2>3. QED
    BY <2>1, <2>2
<1>6. S = 0 .. n
  BY <1>2, <1>3, <1>5
<1>7. S \in SUBSET Nat /\ S # {} /\ \A x \in S : x <= n
  BY <1>2, <1>6
<1>8. ClassSeq(y, letter) = 1 + Max(S)
  BY DEF ClassSeq
<1> HIDE DEF S, n
<1>9. Max(S) \in S /\ \A x \in S : x <= Max(S)
  BY <1>2, <1>7, MaxOfNaturals
<1>10. Max(S) = n
  BY <1>2, <1>6, <1>9
<1>11. QED
  BY <1>2, <1>8, <1>10 DEF n

\* The numbers of a year stay without a gap when the next one is given.
LEMMA GaplessGrows ==
  ASSUME TypeOK, NumberInv, NEW new, NEW kind, NEW a, NEW number,
         Appends(new, kind, a, 0, number),
         NEW letter \in {"A", "G"}, a[1] \in Year,
         number.class = letter, number.seq = ClassSeq(a[1], letter)
  PROVE  GaplessAt(a[1], letter)'
<1> DEFINE y == a[1]
           n == Cardinality(Own(y, letter))
<1>1. /\ Ids' = Ids \cup {new} /\ new \notin Ids /\ \A j \in Ids : docs'[j] = docs[j]
      /\ docs'[new].acct = a /\ docs'[new].ref = 0 /\ docs'[new].number = number
  BY DEF Appends
<1>2. \A i : i \in Own(y, letter)' <=> /\ i \in Ids' /\ docs'[i].acct[1] = y /\ docs'[i].ref = 0
                                      /\ docs'[i].number.class = letter
  BY DEF Own, SequencedDocs, OfYear
<1>3. \A i : i \in Own(y, letter) <=> /\ i \in Ids /\ docs[i].acct[1] = y /\ docs[i].ref = 0
                                     /\ docs[i].number.class = letter
  BY DEF Own, SequencedDocs, OfYear
<1>4. Own(y, letter)' = Own(y, letter) \cup {new} /\ new \notin Own(y, letter)
  BY <1>1, <1>2, <1>3
<1>5. IsFiniteSet(Own(y, letter)) /\ n \in Nat
  <2>1. Own(y, letter) \subseteq Ids
    BY <1>3
  <2>2. QED
    BY <2>1, IdsFinite
<1>6. Cardinality(Own(y, letter)') = n + 1
  BY <1>4, <1>5, FS_AddElement
<1>7. {docs[i].number.seq : i \in Own(y, letter)} = 1 .. n
  BY GaplessSplit DEF NumberInv, GaplessAt
<1>8. number.seq = n + 1
  BY NextIsFirstFree
<1>9. {docs'[i].number.seq : i \in Own(y, letter)'}
        = {docs[i].number.seq : i \in Own(y, letter)} \cup {number.seq}
  BY <1>1, <1>3, <1>4
<1> HIDE DEF n
<1>10. (1 .. n) \cup {n + 1} = 1 .. (n + 1)
  BY <1>5
<1>11. QED
  BY <1>6, <1>7, <1>8, <1>9, <1>10 DEF GaplessAt

LEMMA IssueAppends ==
  ASSUME TypeOK, NEW kind, NEW a, NEW ref, NEW number, NEW on, NEW amount, NEW content,
         IssueDocument(kind, a, ref, number, on, amount, content)
  PROVE  \E new : Appends(new, kind, a, ref, number)
<1>1. Appends(Len(docs) + 1, kind, a, ref, number)
  BY AppendKeeps DEF Appends
<1>2. QED
  BY <1>1

\* A document whose number is new in its year, of the right shape, and in order.
LEMMA NumbersGrow ==
  ASSUME TypeOK, NumberInv, NEW new, NEW kind, NEW a, NEW ref, NEW number,
         Appends(new, kind, a, ref, number),
         Shaped(new)',
         \A j \in Ids : docs[j].acct[1] = a[1] => docs[j].number # number,
         \A y \in Year, letter \in {"A", "G"} : GaplessAt(y, letter)'
  PROVE  NumberInv'
<1>1. /\ Ids' = Ids \cup {new} /\ new \notin Ids /\ \A j \in Ids : docs'[j] = docs[j]
      /\ docs'[new].acct = a /\ docs'[new].number = number
  BY DEF Appends
<1>2. NumbersShaped'
  BY <1>1, ShapesKept DEF NumbersShaped
<1>3. NumbersUnique'
  BY <1>1 DEF NumberInv, NumbersUnique
<1>4. SequencesGapless'
  BY GaplessJoin
<1>5. QED
  BY <1>2, <1>3, <1>4 DEF NumberInv

\* A sequence a new document does not belong to stays without a gap.
LEMMA GaplessStays ==
  ASSUME TypeOK, NumberInv, NEW new, NEW kind, NEW a, NEW ref, NEW number,
         Appends(new, kind, a, ref, number),
         NEW y \in Year, NEW letter \in {"A", "G"},
         ref # 0 \/ number.class # letter \/ a[1] # y
  PROVE  GaplessAt(y, letter)'
<1>1. Own(y, letter)' = Own(y, letter)
  BY GaplessKept
<1>2. \A i \in Own(y, letter) : docs'[i] = docs[i]
  BY DEF Own, SequencedDocs, OfYear, Appends
<1>3. GaplessAt(y, letter)
  BY GaplessSplit DEF NumberInv
<1>4. {docs'[i].number.seq : i \in Own(y, letter)} = {docs[i].number.seq : i \in Own(y, letter)}
  BY <1>2
<1>5. QED
  BY <1>1, <1>3, <1>4 DEF GaplessAt

\* What the class and the suffix of a number say of its document.
LEMMA NumberTells ==
  ASSUME TypeOK, NumberInv, NEW j \in Ids
  PROVE  /\ docs[j].number.class = "R" /\ docs[j].number.suffix = 0 => docs[j].kind = "invoice"
         /\ docs[j].number.class \in {"A", "G"} => docs[j].ref = 0 /\ docs[j].number.suffix = 0
         /\ docs[j].number.class = "R" /\ docs[j].number.suffix # 0 =>
              \E k \in Ids : Attached(j, k)
         /\ docs[j].number.suffix \in Nat /\ docs[j].number.seq \in Nat
<1>1. docs[j] \in Document
  BY IdsFinite
<1>2. Shaped(j)
  BY DEF NumberInv, NumbersShaped
<1>3. docs[j].number.suffix \in Nat /\ docs[j].number.seq \in Nat
  BY <1>1 DEF Document, DocNumber
<1>4. ASSUME NEW k \in Ids, Attached(j, k)
      PROVE  docs[j].number.class = "R" /\ docs[j].number.suffix # 0
  <2>1. Cardinality(AttachedTo(k)) \in Nat
    BY IdsFinite DEF AttachedTo
  <2>2. QED
    BY <1>4, <2>1 DEF Attached
<1>5. QED
  BY <1>2, <1>3, <1>4 DEF Shaped, Plain

LEMMA InvoiceNumbered ==
  ASSUME TypeInv, NumberInv, NEW a \in Account, NEW on \in Day, IssueInvoice(a, on)
  PROVE  NumberInv'
<1> DEFINE number == [class |-> "R", seq |-> InvoiceSeq(a[1]), suffix |-> 0]
<1>1. TypeOK /\ NumbersBounded /\ a[1] \in Year
  BY DEF TypeInv, Account
<1>2. IssueDocument("invoice", a, 0, number, on, 0, ContentOf(Pending(a)))
  BY DEF IssueInvoice
<1>3. number.class = "R" /\ number.suffix = 0 /\ number.seq = InvoiceSeq(a[1])
  OBVIOUS
<1> HIDE DEF number
<1>4. PICK new : Appends(new, "invoice", a, 0, number)
  BY <1>1, <1>2, IssueAppends
<1>5. Shaped(new)'
  BY <1>3, <1>4 DEF Appends, Shaped, Plain
<1>6. ASSUME NEW j \in Ids, docs[j].acct[1] = a[1], docs[j].number = number
      PROVE  FALSE
  <2>1. docs[j].kind = "invoice" /\ docs[j].number.seq = InvoiceSeq(a[1])
    BY <1>1, <1>3, <1>6, NumberTells
  <2>2. docs[j].number.seq < InvoiceSeq(a[1]) /\ InvoiceSeq(a[1]) \in Nat
    BY <1>1, <1>6, <2>1, NextInvoiceNumber DEF OfYear
  <2>3. QED
    BY <2>1, <2>2
<1>7. \A y \in Year, letter \in {"A", "G"} : GaplessAt(y, letter)'
  BY <1>1, <1>3, <1>4, GaplessStays
<1>8. QED
  BY <1>1, <1>4, <1>5, <1>6, <1>7, NumbersGrow

LEMMA NoteNumbered ==
  ASSUME TypeInv, NumberInv, NEW a \in Account, NEW letter \in {"A", "G"}, NEW kind, NEW amount,
         kind = (IF letter = "A" THEN "anzahlung" ELSE "gutschrift"),
         Notes(kind, a, 0, [class |-> letter, seq |-> ClassSeq(a[1], letter), suffix |-> 0], amount)
  PROVE  NumberInv'
<1> DEFINE number == [class |-> letter, seq |-> ClassSeq(a[1], letter), suffix |-> 0]
<1>1. TypeOK /\ NumbersBounded /\ a[1] \in Year
  BY DEF TypeInv, Account
<1>2. PICK on \in Day : IssueDocument(kind, a, 0, number, on, amount, NoContent)
  BY DEF Notes, DayBegun
<1>3. number.class = letter /\ number.suffix = 0 /\ number.seq = ClassSeq(a[1], letter)
  OBVIOUS
<1> HIDE DEF number
<1>4. PICK new : Appends(new, kind, a, 0, number)
  BY <1>1, <1>2, IssueAppends
<1>5. Shaped(new)'
  BY <1>3, <1>4 DEF Appends, Shaped, Plain
<1>6. ASSUME NEW j \in Ids, docs[j].acct[1] = a[1], docs[j].number = number
      PROVE  FALSE
  <2>1. docs[j].ref = 0 /\ docs[j].number.suffix = 0 /\ docs[j].number.class = letter
        /\ docs[j].number.seq = ClassSeq(a[1], letter)
    BY <1>1, <1>3, <1>6, NumberTells
  <2>2. docs[j].number.seq < ClassSeq(a[1], letter) /\ ClassSeq(a[1], letter) \in Nat
    BY <1>1, <1>6, <2>1, NextClassNumber DEF OfYear, SequencedDocs
  <2>3. QED
    BY <2>1, <2>2
<1>7. ASSUME NEW y \in Year, NEW other \in {"A", "G"} PROVE GaplessAt(y, other)'
  <2>1. CASE y = a[1] /\ other = letter
    BY <1>1, <1>3, <1>4, <2>1, GaplessGrows
  <2>2. CASE y # a[1] \/ other # letter
    BY <1>1, <1>3, <1>4, <2>2, GaplessStays
  <2>3. QED
    BY <2>1, <2>2
<1>8. QED
  BY <1>1, <1>4, <1>5, <1>6, <1>7, NumbersGrow

LEMMA CreditNumbered ==
  ASSUME TypeInv, NumberInv, NEW i \in Ids, NEW amount \in CreditAmount, GutschriftInvoice(i, amount)
  PROVE  NumberInv'
<1> DEFINE a == docs[i].acct
           s == AttachedSuffix(i)
           number == [docs[i].number EXCEPT !.suffix = s]
           n == Cardinality(AttachedTo(i))
<1>1. TypeOK /\ docs[i] \in Document /\ i \in Nat /\ i # 0
  BY IdsFinite DEF TypeInv
<1>2. docs[i].kind = "invoice"
  BY DEF GutschriftInvoice, Reversible
<1>3. docs[i].number.class = "R" /\ docs[i].number.suffix = 0
  <2>1. Shaped(i)
    BY DEF NumberInv, NumbersShaped
  <2>2. QED
    BY <1>2, <2>1 DEF Shaped, Plain
<1>4. n \in Nat /\ IsFiniteSet(AttachedTo(i)) /\ s = n + 1
  <2>1. AttachedTo(i) \subseteq Ids
    BY DEF AttachedTo
  <2>2. s = 1 + n
    BY DEF AttachedSuffix, AttachedTo
  <2>3. QED
    BY <1>1, <2>1, <2>2, IdsFinite
<1>5. IssueDocument("gutschrift", a, i, number, today, -amount, NoContent)
  BY DEF GutschriftInvoice
<1> HIDE DEF s
<1>6. number.class = "R" /\ number.seq = docs[i].number.seq /\ number.suffix = s
  BY <1>1, <1>3 DEF Document, DocNumber
<1> HIDE DEF number, a
<1>7. PICK new : Appends(new, "gutschrift", a, i, number)
  BY <1>1, <1>5, IssueAppends
<1>8. /\ Ids' = Ids \cup {new} /\ new \notin Ids /\ \A j \in Ids : docs'[j] = docs[j]
      /\ docs'[new].kind = "gutschrift" /\ docs'[new].acct = a
      /\ docs'[new].ref = i /\ docs'[new].number = number
  BY <1>7 DEF Appends
<1>9. Shaped(new)'
  <2>1. AttachedTo(i)' = AttachedTo(i) \cup {new} /\ new \notin AttachedTo(i)
    BY <1>8 DEF AttachedTo
  <2>2. Cardinality(AttachedTo(i)') = n + 1
    BY <1>4, <2>1, FS_AddElement
  <2>3. number.suffix \in 1 .. Cardinality(AttachedTo(i)')
    BY <1>4, <1>6, <2>2
  <2>4. docs'[i] = docs[i] /\ docs'[i].acct = a
    BY <1>8 DEF a
  <2>5. Attached(new, i)'
    BY <1>2, <1>3, <1>6, <1>8, <2>3, <2>4 DEF Attached
  <2>6. QED
    BY <1>8, <2>5 DEF Shaped
<1>10. ASSUME NEW j \in Ids, docs[j].acct[1] = a[1], docs[j].number = number
       PROVE  FALSE
  <2>1. PICK k \in Ids : Attached(j, k)
    BY <1>1, <1>4, <1>6, <1>10, NumberTells
  <2>2. docs[k].kind = "invoice" /\ docs[k].acct[1] = a[1] /\ docs[k].number.seq = docs[i].number.seq
    BY <1>6, <1>10, <2>1 DEF Attached
  <2>3. docs[k].number = docs[i].number
    <3>1. Shaped(k) /\ docs[k] \in Document
      BY <1>1, IdsFinite DEF NumberInv, NumbersShaped
    <3>2. docs[k].number.class = "R" /\ docs[k].number.suffix = 0
      BY <2>2, <3>1 DEF Shaped, Plain
    <3>3. QED
      BY <1>1, <1>3, <2>2, <3>1, <3>2 DEF Document, DocNumber
  <2>4. k = i
    BY <2>2, <2>3 DEF NumberInv, NumbersUnique, a
  <2>5. number.suffix \in 1 .. n
    BY <1>10, <2>1, <2>4 DEF Attached
  <2>6. QED
    BY <1>4, <1>6, <2>5
<1>11. \A y \in Year, letter \in {"A", "G"} : GaplessAt(y, letter)'
  BY <1>1, <1>7, GaplessStays
<1>12. TypeOK /\ NumberInv /\ \A j \in Ids : docs[j].acct[1] = a[1] => docs[j].number # number
  BY <1>1, <1>10
<1>13. QED
  BY ONLY <1>7, <1>9, <1>11, <1>12, NumbersGrow

LEMMA NumberStep ==
  ASSUME TypeInv, NumberInv, [Next]_vars
  PROVE  NumberInv'
<1>1. CASE Quiet
  <2>1. Ids' = Ids /\ docs' = docs
    BY <1>1 DEF Quiet, Ids
  <2>2. QED
    BY <2>1, NumbersKept
<1>2. ASSUME NEW i \in Ids, StornoInvoice(i) \/ StornoDocument(i) PROVE NumberInv'
  <2>1. PICK ids \in SUBSET Ids : Reverses(ids)
    BY <1>2, StornosReverse
  <2>2. \A j \in Ids : docs[j] \in Document
    BY IdsFinite DEF TypeInv
  <2>3. \A j \in Ids : /\ docs'[j].kind = docs[j].kind /\ docs'[j].acct = docs[j].acct
                       /\ docs'[j].ref = docs[j].ref /\ docs'[j].number = docs[j].number
    <3>1. ASSUME NEW j \in Ids, j \in ids
          PROVE  /\ docs'[j].kind = docs[j].kind /\ docs'[j].acct = docs[j].acct
                 /\ docs'[j].ref = docs[j].ref /\ docs'[j].number = docs[j].number
      <4>1. docs'[j] = [docs[j] EXCEPT !.status = "canceled"]
        BY <2>1, <3>1 DEF Reverses
      <4>2. docs[j] \in Document
        BY <2>2
      <4>3. QED
        BY <4>1, <4>2 DEF Document
    <3>2. \A j \in Ids \ ids : docs'[j] = docs[j]
      BY <2>1 DEF Reverses
    <3>3. QED
      BY <3>1, <3>2
  <2>4. Ids' = Ids
    BY <2>1 DEF Reverses
  <2>5. QED
    BY <2>3, <2>4, NumbersKept
<1>3. ASSUME NEW a \in Account, NEW amount \in CreditAmount, CreateAnzahlung(a, amount)
      PROVE  NumberInv'
  <2>1. Notes("anzahlung", a, 0, [class |-> "A", seq |-> ClassSeq(a[1], "A"), suffix |-> 0], amount)
    BY <1>3 DEF CreateAnzahlung, Notes
  <2>2. QED
    BY <2>1, NoteNumbered
<1>4. ASSUME NEW a \in Account, NEW amount \in CreditAmount, NEW posted \in PostedSum,
             FreeGutschrift(a, amount, posted)
      PROVE  NumberInv'
  <2>1. Notes("gutschrift", a, 0, [class |-> "G", seq |-> ClassSeq(a[1], "G"), suffix |-> 0], -amount)
    BY <1>4 DEF FreeGutschrift, Notes
  <2>2. QED
    BY <2>1, NoteNumbered
<1>5. QED
  BY <1>1, <1>2, <1>3, <1>4, InvoiceNumbered, CreditNumbered, StepOfDocuments DEF Credits

LEMMA NumberInvAlways == Spec => []NumberInv
<1>1. ASSUME Init PROVE NumberInv
  <2>1. Ids = {}
    BY <1>1 DEF Init, Ids
  <2>2. NumbersShaped /\ NumbersUnique
    BY <2>1 DEF NumbersShaped, NumbersUnique
  <2>3. ASSUME NEW y \in Year, NEW letter \in {"A", "G"} PROVE Own(y, letter) = {}
    BY <2>1 DEF Own, SequencedDocs, OfYear
  <2>4. Cardinality({}) = 0 /\ 1 .. 0 = {}
    BY FS_EmptySet
  <2>5. SequencesGapless
    BY <2>3, <2>4 DEF SequencesGapless, Own
  <2>6. QED
    BY <2>2, <2>5 DEF NumberInv
<1>2. TypeInv /\ NumberInv /\ [Next]_vars => NumberInv'
  BY NumberStep
<1>3. QED
  BY <1>1, <1>2, TypeInvAlways, PTL DEF Spec

\* No two documents of a year ever carry one number, whatever was canceled or
\* credited in between: an issuance never fails on the unique index over year and
\* number (issueInvoice, docSeqNumber, issueGutschriftTx).
THEOREM NumbersNeverMeet == Spec => []NumbersUnique
<1>1. NumberInv => NumbersUnique
  BY DEF NumberInv
<1>2. QED
  BY <1>1, NumberInvAlways, PTL

\* Standalone credits and Anzahlungen of a year are numbered 1, 2, 3, ... for
\* however many documents (docSeqNumber).
THEOREM NumbersWithoutGap == Spec => []SequencesGapless
<1>1. NumberInv => SequencesGapless
  BY DEF NumberInv
<1>2. QED
  BY <1>1, NumberInvAlways, PTL

-----------------------------------------------------------------------------
(* Dates *)

\* The server's date never runs back, and nothing is dated after it.
DatesPast ==
  /\ \A i \in Ids : docs[i].issuedOn \in Day /\ docs[i].issuedOn <= today
  /\ \A s \in stornos : s.on \in Day /\ s.on <= today
  /\ today \in Day

\* Nothing of year y is dated after this day.
NoneAfter(y, on) ==
  /\ \A i \in OfYear(y) : docs[i].issuedOn <= on
  /\ \A s \in stornos : docs[s.of].acct[1] = y => s.on <= on

\* The midnights that may fall between the date of a document and the lock.
Waited(d) == IF d.kind # "invoice" /\ d.ref = 0 THEN 1 ELSE 0

LEMMA IssueDated ==
  ASSUME TypeInv, DatesPast, Credits \/ \E a \in Account, on \in Day : IssueInvoice(a, on)
  PROVE  \E a \in Account, on \in Day :
           /\ Ids' = Ids \cup {Len(docs) + 1} /\ \A i \in Ids : docs'[i] = docs[i]
           /\ docs'[Len(docs) + 1].acct = a /\ docs'[Len(docs) + 1].issuedOn = on
           /\ on <= today /\ NoneAfter(a[1], on + Waited(docs'[Len(docs) + 1]))
           /\ UNCHANGED <<stornos, today>>
<1>1. TypeOK
  BY DEF TypeInv
<1>2. ASSUME NEW a \in Account, NEW on \in Day, IssueInvoice(a, on)
      PROVE  /\ Ids' = Ids \cup {Len(docs) + 1} /\ \A i \in Ids : docs'[i] = docs[i]
             /\ docs'[Len(docs) + 1].acct = a /\ docs'[Len(docs) + 1].issuedOn = on
             /\ on <= today /\ NoneAfter(a[1], on + Waited(docs'[Len(docs) + 1]))
             /\ UNCHANGED <<stornos, today>>
  <2>1. IssueDocument("invoice", a, 0, [class |-> "R", seq |-> InvoiceSeq(a[1]), suffix |-> 0],
                      on, 0, ContentOf(Pending(a)))
    BY <1>2 DEF IssueInvoice
  <2>2. on <= today /\ NoneAfter(a[1], on) /\ UNCHANGED <<stornos, today>>
    BY <1>2 DEF IssueInvoice, IssueDateValid, NoneAfter
  <2>3. docs'[Len(docs) + 1].kind = "invoice" /\ on + 0 = on
    BY <1>1, <2>1, AppendKeeps, BoundAssumption DEF Day
  <2>4. Waited(docs'[Len(docs) + 1]) = 0
    BY <2>3 DEF Waited
  <2>5. QED
    BY <1>1, <2>1, <2>2, <2>3, <2>4, AppendKeeps
<1>3. CASE Credits
  <2>0. PICK kind \in {"gutschrift", "anzahlung"}, a \in Account :
          \E ref, number, amount : Notes(kind, a, ref, number, amount)
    BY <1>1, <1>3, CreditsNote
  <2>1. PICK ref, number, amount : Notes(kind, a, ref, number, amount)
    BY <2>0
  <2>2. PICK on \in DayBegun :
          IssueDocument(kind, a, ref, number, on, amount, NoContent) /\ (ref # 0 => on = today)
    BY <2>1 DEF Notes
  <2>3. UNCHANGED <<stornos, today>>
    BY <2>1 DEF Notes
  <2>4. on \in Day /\ on <= today /\ today <= on + 1 /\ (ref # 0 => today <= on + 0)
    BY <2>2, BoundAssumption DEF DatesPast, DayBegun, Day
  <2>5. /\ Ids' = Ids \cup {Len(docs) + 1} /\ \A i \in Ids : docs'[i] = docs[i]
        /\ docs'[Len(docs) + 1].acct = a /\ docs'[Len(docs) + 1].issuedOn = on
        /\ docs'[Len(docs) + 1].kind = kind /\ docs'[Len(docs) + 1].ref = ref
    BY <1>1, <2>2, AppendKeeps
  <2>6. PICK wait \in {0, 1} : wait = Waited(docs'[Len(docs) + 1])
    BY DEF Waited
  <2>7. today <= on + wait
    BY <2>4, <2>5, <2>6 DEF Waited
  <2>8. ASSUME NEW d \in Day, d <= today PROVE d <= on + wait
    BY <2>4, <2>7, <2>8, BoundAssumption DEF Day, DatesPast
  <2>9. NoneAfter(a[1], on + wait)
    BY <2>8 DEF DatesPast, NoneAfter, OfYear
  <2>10. QED
    BY <2>3, <2>4, <2>5, <2>6, <2>9
<1>4. QED
  BY <1>2, <1>3

LEMMA DatesStep ==
  ASSUME TypeInv, DatesPast, [Next]_vars
  PROVE  DatesPast'
<1>1. LastDay \in Nat /\ Day \subseteq Nat
  BY BoundAssumption DEF Day
<1>2. CASE Quiet
  <2>1. TypeInv'
    BY TypeInvStep
  <2>2. today' \in Day
    BY <2>1 DEF TypeInv, TypeOK
  <2>3. today' = today \/ today' = today + 1
    BY DEF Next, MasterData, Booking, Invoicing, AddNeighborToYear, RemoveNeighborFromYear, SetYearStatus,
           AnonymizeNeighbor, UpdateCompany, Tick, WriteEntry, CreateEntry, UpdateEntry, SetEntryVoided,
           DeleteEntry, BuildPendingInvoiceContent, IssueInvoice, StornoInvoice, StornoDocument,
           GutschriftInvoice, CreateAnzahlung, FreeGutschrift, vars
  <2>4. today <= today'
    BY <1>1, <2>2, <2>3 DEF DatesPast
  <2>5. QED
    <3>1. \A d \in Day : d <= today => d <= today'
      BY <1>1, <2>2, <2>4 DEF DatesPast
    <3>2. Ids' = Ids /\ docs' = docs /\ stornos' = stornos
      BY <1>2 DEF Quiet, Ids
    <3>3. QED
      BY <2>2, <3>1, <3>2 DEF DatesPast
<1>3. CASE Credits \/ \E a \in Account, on \in Day : IssueInvoice(a, on)
  BY <1>3, IssueDated DEF DatesPast
<1>4. ASSUME NEW i \in Ids, StornoInvoice(i) \/ StornoDocument(i)
      PROVE  DatesPast'
  <2>1. PICK ids \in SUBSET Ids : Reverses(ids) /\ today' = today
    BY <1>4, StornosReverse
  <2>2. \A j \in Ids : docs'[j].issuedOn = docs[j].issuedOn
    <3>1. ASSUME NEW j \in ids PROVE docs'[j].issuedOn = docs[j].issuedOn
      <4>1. docs'[j] = [docs[j] EXCEPT !.status = "canceled"]
        BY <2>1 DEF Reverses
      <4>2. docs[j] \in Document
        BY IdsFinite DEF TypeInv
      <4>3. QED
        BY <4>1, <4>2 DEF Document
    <3>2. QED
      BY <2>1, <3>1 DEF Reverses
  <2>3. \A s \in stornos' : s \in stornos \/ s.on = today
    BY <2>1 DEF Reverses
  <2>4. today <= today
    BY <1>1 DEF DatesPast
  <2>5. QED
    BY <2>1, <2>2, <2>3, <2>4 DEF Reverses, DatesPast
<1>5. QED
  BY <1>2, <1>3, <1>4, StepOfDocuments

LEMMA DatesAlways == Spec => []DatesPast
<1>1. Init => DatesPast
  BY BoundAssumption DEF Init, DatesPast, Ids, Day
<1>2. TypeInv /\ DatesPast /\ [Next]_vars => DatesPast'
  BY DatesStep
<1>3. QED
  BY <1>1, <1>2, TypeInvAlways, PTL DEF Spec

\* What is dated under the lock of the year is dated no earlier than all that year
\* already holds and never in the future, though invoices take a date the operator
\* chooses (issueInvoice, stornoDocumentTx); what takes its date before the lock is at
\* most a midnight behind (FreeGutschrift, CreateAnzahlung).
THEOREM DatesRunForward == Spec => DatedInOrder
<1>1. ASSUME TypeInv, DatesPast, [Next]_vars, NEW i \in DOMAIN docs' \ Ids
      PROVE  /\ docs'[i].issuedOn <= today
             /\ NoneAfter(docs'[i].acct[1], docs'[i].issuedOn + Waited(docs'[i]))
  <2>1. ~Quiet /\ ~\E j \in Ids : StornoInvoice(j) \/ StornoDocument(j)
    BY <1>1, StornosReverse DEF Quiet, Ids, Reverses
  <2>2. PICK a \in Account, on \in Day :
           /\ Ids' = Ids \cup {Len(docs) + 1}
           /\ docs'[Len(docs) + 1].acct = a /\ docs'[Len(docs) + 1].issuedOn = on
           /\ on <= today /\ NoneAfter(a[1], on + Waited(docs'[Len(docs) + 1]))
    BY <1>1, <2>1, StepOfDocuments, IssueDated
  <2>3. i = Len(docs) + 1
    BY <2>2 DEF Ids
  <2>4. QED
    BY <2>2, <2>3
<1>2. ASSUME TypeInv, DatesPast, [Next]_vars, NEW s \in stornos' \ stornos
      PROVE  s.on <= today /\ NoneAfter(docs'[s.of].acct[1], s.on + 0)
  <2>1. ~Quiet /\ ~(Credits \/ \E a \in Account, on \in Day : IssueInvoice(a, on))
    BY <1>2, IssueDated DEF Quiet
  <2>2. PICK ids \in SUBSET Ids : Reverses(ids)
    BY <1>2, <2>1, StepOfDocuments, StornosReverse
  <2>3. s.on = today
    BY <1>2, <2>2 DEF Reverses
  <2>4. today <= today /\ today + 0 = today
    BY <1>2, BoundAssumption DEF DatesPast, Day
  <2>5. QED
    BY <1>2, <2>3, <2>4 DEF DatesPast, NoneAfter, OfYear
<1>3. ASSUME NEW y, NEW on, NEW wait, on <= today, NoneAfter(y, on + wait)
      PROVE  /\ on <= today
             /\ \A d \in {docs[i].issuedOn : i \in OfYear(y)}
                           \cup {s.on : s \in {t \in stornos : docs[t.of].acct[1] = y}} : d <= on + wait
  BY <1>3 DEF NoneAfter
<1>4. TypeInv /\ DatesPast /\ [Next]_vars =>
        [LET dates(y) == {docs[i].issuedOn : i \in OfYear(y)}
                          \cup {s.on : s \in {t \in stornos : docs[t.of].acct[1] = y}}
             dated(y, on, wait) == on <= today /\ \A d \in dates(y) : d <= on + wait
             waited(d) == IF d.kind # "invoice" /\ d.ref = 0 THEN 1 ELSE 0
         IN /\ \A i \in DOMAIN docs' \ Ids :
                 dated(docs'[i].acct[1], docs'[i].issuedOn, waited(docs'[i]))
            /\ \A s \in stornos' \ stornos : dated(docs'[s.of].acct[1], s.on, 0)]_vars
  BY <1>1, <1>2, <1>3 DEF Waited
<1>5. QED
  BY <1>4, TypeInvAlways, DatesAlways, PTL DEF Spec, DatedInOrder

-----------------------------------------------------------------------------
(* Closed years *)

\* What a booking step writes lies in a year that is still open.
LEMMA BookingInOpenYear ==
  ASSUME TypeInv, Booking
  PROVE  /\ UNCHANGED <<docs, claims, stornos, member, status>>
         /\ \E e \in Entry : /\ AccountOf[e] \in member /\ status[AccountOf[e][1]] = "in_progress"
                             /\ \A f \in Entry : f # e => entries'[f] = entries[f]
<1>1. PICK e \in Entry :
        \/ \E cost \in Cost : CreateEntry(e, cost) \/ UpdateEntry(e, cost)
        \/ \E voided \in BOOLEAN : SetEntryVoided(e, voided)
        \/ DeleteEntry(e)
  BY DEF Booking
<1>2. \E row : WriteEntry(e, row)
  BY <1>1 DEF CreateEntry, UpdateEntry, SetEntryVoided, DeleteEntry
<1>3. AccountOf[e] \in member /\ status[AccountOf[e][1]] = "in_progress"
  BY <1>1 DEF CreateEntry, UpdateEntry, SetEntryVoided, DeleteEntry, EditableEntry, OpenAccount
<1>4. \A f \in Entry : f # e => entries'[f] = entries[f]
  BY <1>2 DEF WriteEntry, TypeInv, TypeOK
<1>5. QED
  BY <1>2, <1>3, <1>4 DEF WriteEntry

\* The credits that go with an invoice lie on its account.
LEMMA CreditsShareAccount ==
  ASSUME TypeInv, NumberInv, NEW i \in Ids, NEW j \in AttachedCredits(i)
  PROVE  docs[j].acct = docs[i].acct
<1>1. i # 0 /\ j \in Ids /\ docs[j].ref = i
  BY IdsFinite DEF TypeInv, AttachedCredits, Issued
<1>2. Shaped(j)
  BY <1>1 DEF NumberInv, NumbersShaped
<1>3. PICK k \in Ids : Attached(j, k)
  BY <1>1, <1>2 DEF Shaped, Plain
<1>4. QED
  BY <1>1, <1>3 DEF Attached

LEMMA OpenYearOnly ==
  ASSUME TypeInv, NumberInv, FrozenSourcesIntact, [Next]_vars,
         NEW y \in Year, status[y] = "completed"
  PROVE  /\ \A e \in Entry : AccountOf[e][1] = y => entries'[e] = entries[e]
         /\ \A i \in DOMAIN docs' : docs'[i].acct[1] = y => i \in Ids /\ docs'[i] = docs[i]
         /\ \A c \in (claims \ claims') \cup (claims' \ claims) : AccountOf[c[2]][1] # y
<1> DEFINE Same == entries' = entries
           SameDocs == \A i \in DOMAIN docs' : docs'[i].acct[1] = y => i \in Ids /\ docs'[i] = docs[i]
           SameClaims == \A c \in (claims \ claims') \cup (claims' \ claims) : AccountOf[c[2]][1] # y
<1>1. TypeOK /\ \A i \in Ids : docs[i] \in Document
  BY IdsFinite DEF TypeInv
<1>2. CASE Booking
  BY <1>2, BookingInOpenYear DEF Ids
<1>3. CASE UNCHANGED <<entries, docs, claims>>
  BY <1>3 DEF Ids
<1>4. CASE Credits
  <2>0. PICK kind \in {"gutschrift", "anzahlung"}, a \in Account :
          \E ref, number, amount : Notes(kind, a, ref, number, amount) /\ status[a[1]] = "in_progress"
    BY <1>1, <1>4, CreditsNote
  <2>1. PICK ref, number, amount : Notes(kind, a, ref, number, amount) /\ status[a[1]] = "in_progress"
    BY <2>0
  <2>2. PICK on \in Day : IssueDocument(kind, a, ref, number, on, amount, NoContent)
        /\ UNCHANGED <<entries, claims>>
    BY <2>1 DEF Notes, DayBegun
  <2>3. SameDocs
    BY <1>1, <2>1, <2>2, AppendKeeps DEF Ids
  <2>4. QED
    BY <2>2, <2>3
<1>5. ASSUME NEW a \in Account, NEW on \in Day, IssueInvoice(a, on)
      PROVE  Same /\ SameDocs /\ SameClaims
  <2>1. /\ IssueDocument("invoice", a, 0, [class |-> "R", seq |-> InvoiceSeq(a[1]), suffix |-> 0],
                         on, 0, ContentOf(Pending(a)))
        /\ status[a[1]] = "in_progress" /\ entries' = entries
        /\ claims' = claims \cup {<<Len(docs) + 1, e>> : e \in Pending(a)}
    BY <1>5 DEF IssueInvoice
  <2>2. SameDocs
    BY <1>1, <2>1, AppendKeeps DEF Ids
  <2>3. ASSUME NEW c \in claims' \ claims PROVE AccountOf[c[2]] = a
    <3>1. PICK e \in Pending(a) : c = <<Len(docs) + 1, e>>
      BY <2>1, <2>3
    <3>2. QED
      BY <3>1 DEF Pending, Live
  <2>4. claims \ claims' = {}
    BY <2>1
  <2>5. SameClaims
    BY <2>1, <2>3, <2>4
  <2>6. QED
    BY <2>1, <2>2, <2>5
<1>6. ASSUME NEW i \in Ids, StornoInvoice(i) \/ StornoDocument(i)
      PROVE  Same /\ SameDocs /\ SameClaims
  <2>1. PICK ids \in SUBSET Ids :
          /\ Reverses(ids) /\ (ids = {i} \/ ids = {i} \cup AttachedCredits(i))
          /\ status[docs[i].acct[1]] = "in_progress"
    BY <1>6, StornosReverse
  <2>2. \A j \in ids : docs[j].acct = docs[i].acct
    BY <2>1, CreditsShareAccount
  <2>3. \A j \in ids : docs'[j].acct = docs[j].acct
    <3>1. ASSUME NEW j \in ids PROVE docs'[j].acct = docs[j].acct
      <4>1. docs'[j] = [docs[j] EXCEPT !.status = "canceled"] /\ docs[j] \in Document
        BY <1>1, <2>1 DEF Reverses
      <4>2. QED
        BY <4>1 DEF Document
    <3>2. QED
      BY <3>1
  <2>4. SameDocs
    BY <2>1, <2>2, <2>3 DEF Reverses, Ids
  <2>5. entries' = entries /\ claims' \subseteq claims /\ \A c \in claims \ claims' : c[1] = i
    BY <1>6 DEF StornoInvoice, StornoDocument
  <2>6. \A c \in claims : AccountOf[c[2]] = docs[c[1]].acct
    BY DEF FrozenSourcesIntact, ClaimsBelongToInvoices
  <2>7. SameClaims
    BY <2>1, <2>5, <2>6
  <2>8. QED
    BY <2>4, <2>5, <2>7
<1>7. CASE MasterData \/ \E a \in Account : RemoveNeighborFromYear(a) \/ BuildPendingInvoiceContent(a)
  <2>1. UNCHANGED <<entries, docs, claims>>
    BY <1>7 DEF MasterData, AddNeighborToYear, RemoveNeighborFromYear, SetYearStatus,
                AnonymizeNeighbor, UpdateCompany, Tick, BuildPendingInvoiceContent
  <2>2. QED
    BY <1>3, <2>1
<1>8. CASE UNCHANGED vars
  BY <1>3, <1>8 DEF vars
<1>9. QED
  BY <1>2, <1>4, <1>5, <1>6, <1>7, <1>8 DEF Next, Invoicing, Credits

\* In a completed year no booking, no document and no claim changes: every writer
\* takes the year's lock before it reads the status, and the credits reversed with
\* an invoice lie in the invoice's year (lockOpenAccount, lockUninvoicedEntry).
THEOREM ClosedYearsKeep == Spec => ClosedYearFrozen
<1>1. TypeInv /\ NumberInv /\ FrozenSourcesIntact /\ [Next]_vars =>
        [\A y \in Year : status[y] = "completed" =>
          /\ \A e \in Entry : AccountOf[e][1] = y => entries'[e] = entries[e]
          /\ \A i \in DOMAIN docs' : docs'[i].acct[1] = y =>
               i \in Ids /\ docs'[i] = docs[i]
          /\ \A c \in (claims \ claims') \cup (claims' \ claims) :
               AccountOf[c[2]][1] # y]_vars
  BY OpenYearOnly
<1>2. QED
  BY <1>1, TypeInvAlways, NumberInvAlways, SourcesStayFrozen, PTL DEF Spec, ClosedYearFrozen

-----------------------------------------------------------------------------
(* Reversals and membership *)

LEMMA ReversalStep ==
  ASSUME TypeInv, OneReversal, [Next]_vars
  PROVE  OneReversal'
<1>1. \A i \in Ids : docs[i] \in Document
  BY IdsFinite DEF TypeInv
<1>2. CASE Quiet
  BY <1>2 DEF Quiet, OneReversal, Ids
<1>3. ASSUME NEW new, new \notin Ids, Ids' = Ids \cup {new}, \A i \in Ids : docs'[i] = docs[i],
             docs'[new].status = "issued", stornos' = stornos
      PROVE  OneReversal'
  BY <1>3 DEF OneReversal
<1>4. CASE Credits
  <2>0. PICK kind \in {"gutschrift", "anzahlung"}, a \in Account :
          \E ref, number, amount : Notes(kind, a, ref, number, amount)
    BY <1>4, CreditsNote DEF TypeInv
  <2>1. PICK ref, number, amount : Notes(kind, a, ref, number, amount)
    BY <2>0
  <2>2. PICK on \in Day : IssueDocument(kind, a, ref, number, on, amount, NoContent) /\ stornos' = stornos
    BY <2>1 DEF Notes, DayBegun
  <2>3. QED
    BY <1>3, <2>2, AppendKeeps DEF TypeInv
<1>5. ASSUME NEW a \in Account, NEW on \in Day, IssueInvoice(a, on)
      PROVE  OneReversal'
  <2>1. IssueDocument("invoice", a, 0, [class |-> "R", seq |-> InvoiceSeq(a[1]), suffix |-> 0],
                      on, 0, ContentOf(Pending(a)))
        /\ stornos' = stornos
    BY <1>5 DEF IssueInvoice
  <2>2. QED
    BY <1>3, <2>1, AppendKeeps DEF TypeInv
<1>6. ASSUME NEW i \in Ids, StornoInvoice(i) \/ StornoDocument(i)
      PROVE  OneReversal'
  <2>1. PICK ids \in SUBSET Ids : Reverses(ids) /\ \A j \in ids : docs[j].status = "issued"
    BY <1>6, StornosReverse
  <2>2. \A j \in ids : docs'[j].status = "canceled"
    <3>1. ASSUME NEW j \in ids PROVE docs'[j].status = "canceled"
      <4>1. docs'[j] = [docs[j] EXCEPT !.status = "canceled"] /\ docs[j] \in Document
        BY <1>1, <2>1 DEF Reverses
      <4>2. QED
        BY <4>1 DEF Document
    <3>2. QED
      BY <3>1
  <2> DEFINE added == {[of |-> j, on |-> today] : j \in ids}
  <2>3. Ids' = Ids /\ stornos' = stornos \cup added /\ \A j \in Ids \ ids : docs'[j] = docs[j]
    BY <2>1 DEF Reverses
  <2>4. /\ \A s \in added : s.of \in ids
        /\ \A s, t \in added : s.of = t.of => s = t
        /\ \A j \in ids : \E s \in added : s.of = j
    <3>1. \A s \in added : s.of \in ids /\ s = [of |-> s.of, on |-> today]
      OBVIOUS
    <3>2. \A s, t \in added : s.of = t.of => s = t
      <4> HIDE DEF added
      <4>1. QED
        BY <3>1
    <3>3. ASSUME NEW j \in ids PROVE \E s \in added : s.of = j
      <4>1. [of |-> j, on |-> today] \in added /\ [of |-> j, on |-> today].of = j
        OBVIOUS
      <4>2. QED
        BY <4>1
    <3>4. QED
      BY <3>1, <3>2, <3>3
  <2>5. \A s \in stornos : s.of \in Ids \ ids
    <3>1. \A s \in stornos : s.of \in Ids /\ docs[s.of].status = "canceled"
      BY DEF OneReversal
    <3>2. "canceled" # "issued"
      OBVIOUS
    <3>3. QED
      BY <2>1, <3>1, <3>2
  <2> HIDE DEF added
  <2>6. \A s \in stornos' : s.of \in Ids' /\ docs'[s.of].status = "canceled"
    BY <2>1, <2>2, <2>3, <2>4, <2>5 DEF OneReversal
  <2>7. \A j \in Ids' : docs'[j].status = "canceled" => \E s \in stornos' : s.of = j
    BY <2>3, <2>4 DEF OneReversal
  <2>8. \A s, t \in stornos' : s.of = t.of => s = t
    BY <2>3, <2>4, <2>5 DEF OneReversal
  <2>9. QED
    BY <2>6, <2>7, <2>8 DEF OneReversal
<1>7. QED
  BY <1>2, <1>4, <1>5, <1>6, StepOfDocuments

\* A document counts as canceled exactly as long as one document reverses it, and
\* never more than one: what the journal reports nets out document by document
\* (stornoDocumentTx, the cascade of StornoInvoiceByID).
THEOREM ReversedOnce == Spec => []OneReversal
<1>1. Init => OneReversal
  BY DEF Init, OneReversal, Ids
<1>2. TypeInv /\ OneReversal /\ [Next]_vars => OneReversal'
  BY ReversalStep
<1>3. QED
  BY <1>1, <1>2, TypeInvAlways, PTL DEF Spec

LEMMA MembersStep ==
  ASSUME TypeInv, NoOrphans, [Next]_vars
  PROVE  NoOrphans'
<1> DEFINE LiveOn(a) == \E e \in Entry : AccountOf[e] = a /\ entries[e].state = "live"
           DocOn(a) == \E i \in Ids : docs[i].acct = a
<1>1. \A a : HasRecords(a) <=> LiveOn(a) \/ DocOn(a)
  BY DEF HasRecords, OfAccount
<1>2. \A a : HasRecords(a)' <=> LiveOn(a)' \/ DocOn(a)'
  BY DEF HasRecords, OfAccount
<1>3. TypeOK /\ \A i \in Ids : docs[i] \in Document
  BY IdsFinite DEF TypeInv
<1>4. ASSUME UNCHANGED <<entries, docs>> PROVE \A a : HasRecords(a)' <=> HasRecords(a)
  BY <1>4 DEF HasRecords, OfAccount, Ids
<1>5. CASE UNCHANGED <<entries, docs, member>>
  BY <1>4, <1>5 DEF NoOrphans
<1>6. CASE MasterData
  <2>1. UNCHANGED <<entries, docs>> /\ member \subseteq member'
    BY <1>6 DEF MasterData, AddNeighborToYear, SetYearStatus, AnonymizeNeighbor, UpdateCompany, Tick
  <2>2. QED
    BY <1>4, <2>1 DEF NoOrphans
<1>7. ASSUME NEW a \in Account, RemoveNeighborFromYear(a) PROVE NoOrphans'
  <2>1. UNCHANGED <<entries, docs>> /\ ~HasRecords(a) /\ member' = member \ {a}
    BY <1>7 DEF RemoveNeighborFromYear
  <2>2. QED
    BY <1>4, <2>1 DEF NoOrphans
<1>8. CASE Booking
  <2>1. PICK e \in Entry : /\ AccountOf[e] \in member
                           /\ \A f \in Entry : f # e => entries'[f] = entries[f]
    BY <1>8, BookingInOpenYear
  <2>2. UNCHANGED <<docs, member>>
    BY <1>8, BookingInOpenYear
  <2>3. \A a : LiveOn(a)' => LiveOn(a) \/ a = AccountOf[e]
    BY <2>1
  <2>4. \A a : DocOn(a)' <=> DocOn(a)
    BY <2>2 DEF Ids
  <2> HIDE DEF LiveOn, DocOn
  <2>5. QED
    BY <1>1, <1>2, <2>1, <2>2, <2>3, <2>4 DEF NoOrphans
<1>9. ASSUME NEW a \in member, NEW new, Ids' = Ids \cup {new}, \A i \in Ids : docs'[i] = docs[i],
             docs'[new].acct = a, UNCHANGED <<entries, member>>
      PROVE  NoOrphans'
  <2>1. \A b : (LiveOn(b)' <=> LiveOn(b)) /\ (DocOn(b)' => DocOn(b) \/ b = a)
    BY <1>9
  <2> HIDE DEF LiveOn, DocOn
  <2>2. QED
    BY <1>1, <1>2, <1>9, <2>1 DEF NoOrphans
<1>10. CASE Credits
  <2>0. PICK kind \in {"gutschrift", "anzahlung"}, a \in Account :
          \E ref, number, amount : Notes(kind, a, ref, number, amount) /\ a \in member
    BY <1>3, <1>10, CreditsNote
  <2>1. PICK ref, number, amount : Notes(kind, a, ref, number, amount) /\ a \in member
    BY <2>0
  <2>2. PICK on \in Day : IssueDocument(kind, a, ref, number, on, amount, NoContent)
        /\ UNCHANGED <<entries, member>>
    BY <2>1 DEF Notes, DayBegun
  <2>3. QED
    BY <1>3, <1>9, <2>1, <2>2, AppendKeeps
<1>11. ASSUME NEW a \in Account, NEW on \in Day, IssueInvoice(a, on) PROVE NoOrphans'
  <2>1. /\ IssueDocument("invoice", a, 0, [class |-> "R", seq |-> InvoiceSeq(a[1]), suffix |-> 0],
                         on, 0, ContentOf(Pending(a)))
        /\ a \in member /\ UNCHANGED <<entries, member>>
    BY <1>11 DEF IssueInvoice
  <2>2. QED
    BY <1>3, <1>9, <2>1, AppendKeeps
<1>12. ASSUME NEW i \in Ids, StornoInvoice(i) \/ StornoDocument(i) PROVE NoOrphans'
  <2>1. PICK ids \in SUBSET Ids : Reverses(ids)
    BY <1>12, StornosReverse
  <2>2. \A j \in Ids : docs'[j].acct = docs[j].acct
    <3>1. ASSUME NEW j \in ids PROVE docs'[j].acct = docs[j].acct
      <4>1. docs'[j] = [docs[j] EXCEPT !.status = "canceled"] /\ docs[j] \in Document
        BY <1>3, <2>1 DEF Reverses
      <4>2. QED
        BY <4>1 DEF Document
    <3>2. QED
      BY <2>1, <3>1 DEF Reverses
  <2>3. UNCHANGED <<entries, member>>
    BY <1>12 DEF StornoInvoice, StornoDocument
  <2>4. \A b : (LiveOn(b)' <=> LiveOn(b)) /\ (DocOn(b)' <=> DocOn(b))
    BY <2>1, <2>2, <2>3 DEF Reverses
  <2> HIDE DEF LiveOn, DocOn
  <2>5. QED
    BY <1>1, <1>2, <2>3, <2>4 DEF NoOrphans
<1>13. ASSUME NEW a \in Account, BuildPendingInvoiceContent(a) PROVE NoOrphans'
  BY <1>5, <1>13 DEF BuildPendingInvoiceContent
<1>14. CASE UNCHANGED vars
  BY <1>5, <1>14 DEF vars
<1>15. QED
  BY <1>6, <1>7, <1>8, <1>10, <1>11, <1>12, <1>13, <1>14 DEF Next, Invoicing, Credits

\* No booking and no document ever sits on an account whose membership row is
\* gone: every writer needs that row, so such a record could not be reversed
\* (RemoveNeighborFromYear, membershipDependents, lockOpenAccount).
THEOREM RecordsKeepMembership == Spec => []NoOrphans
<1>1. Init => NoOrphans
  BY DEF Init, NoOrphans, HasRecords, OfAccount, Ids, Absent
<1>2. TypeInv /\ NoOrphans /\ [Next]_vars => NoOrphans'
  BY MembersStep
<1>3. QED
  BY <1>1, <1>2, TypeInvAlways, PTL DEF Spec

-----------------------------------------------------------------------------
(* Amounts *)

\* Only so many bookings stand, an invoice lists only so many lines, and a credit
\* is a negative amount: what makes every sum of the journal a number.
WorkFinite == IsFiniteSet({e \in Entry : entries[e].state = "live"})
LinesFinite == \A i \in Ids : IsFiniteSet(docs[i].content.lines)
CreditsNegative == \A i \in Ids : docs[i].kind = "gutschrift" => -docs[i].amount \in Nat

AmountInv == WorkFinite /\ LinesFinite /\ CreditsNegative

LEMMA TaxIsNatural ==
  ASSUME NEW net \in Nat, NEW rate \in Nat
  PROVE  VatOn(net, rate) \in Nat
<1> DEFINE product == net * rate
<1>1. product \in Nat
  OBVIOUS
<1> HIDE DEF product
<1>2. (product + 50) \div 100 \in Nat
  BY <1>1
<1>3. QED
  BY <1>2 DEF VatOn, product

LEMMA ContentAmounts ==
  ASSUME NEW content \in Content, IsFiniteSet(content.lines)
  PROVE  NetOf(content) \in Nat /\ GrossOf(content) \in Nat
<1> DEFINE cost == [line \in content.lines |-> line[2]]
<1>1. \A line \in content.lines : cost[line] \in Nat
  BY AmountAssumption DEF Content
<1>2. DOMAIN cost = content.lines
  OBVIOUS
<1>3. NetOf(content) = SumFunctionOnSet(cost, content.lines)
  BY DEF NetOf, SumFunction
<1> HIDE DEF cost
<1>4. NetOf(content) \in Nat
  BY <1>1, <1>3, SumNotNegative
<1>5. content.rate \in Nat
  <2>1. content.rate \in VatRate \cup {0}
    BY DEF Content
  <2>2. \A rate \in VatRate : rate \in Nat
    BY AmountAssumption
  <2>3. QED
    BY <2>1, <2>2
<1>6. VatOn(NetOf(content), content.rate) \in Nat
  BY <1>4, <1>5, TaxIsNatural
<1>7. QED
  BY <1>4, <1>6 DEF GrossOf

LEMMA GrossAmounts ==
  ASSUME TypeOK, AmountInv, NEW i \in Ids
  PROVE  /\ Gross(docs[i]) \in Int
         /\ docs[i].kind = "invoice" => Gross(docs[i]) \in Nat
         /\ docs[i].kind = "gutschrift" => -Gross(docs[i]) \in Nat
<1>1. docs[i] \in Document
  BY IdsFinite
<1>2. docs[i].content \in Content /\ docs[i].amount \in Int
  BY <1>1 DEF Document
<1>3. GrossOf(docs[i].content) \in Nat
  BY <1>2, ContentAmounts DEF AmountInv, LinesFinite
<1>4. docs[i].kind = "gutschrift" => -docs[i].amount \in Nat
  BY DEF AmountInv, CreditsNegative
<1>5. QED
  BY <1>2, <1>3, <1>4 DEF Gross

LEMMA WorkLines ==
  ASSUME WorkFinite, NEW es, es \subseteq {e \in Entry : entries[e].state = "live"}
  PROVE  IsFiniteSet(es) /\ IsFiniteSet(ContentOf(es).lines)
<1>1. IsFiniteSet(es)
  BY FS_Subset DEF WorkFinite
<1> DEFINE line == [e \in es |-> <<e, entries[e].cost>>]
<1>2. IsFiniteSet({line[e] : e \in es})
  <2> HIDE DEF line
  <2>1. QED
    BY <1>1, ImageIsFinite
<1>3. {line[e] : e \in es} = {<<e, entries[e].cost>> : e \in es}
  OBVIOUS
<1>4. ContentOf(es).lines = {<<e, entries[e].cost>> : e \in es}
  BY DEF ContentOf
<1>5. QED
  BY <1>1, <1>2, <1>3, <1>4

\* Of what a step may do to the bookings, only one may come to stand.
LEMMA WorkStep ==
  ASSUME TypeInv, WorkFinite, [Next]_vars
  PROVE  WorkFinite'
<1> DEFINE standing == {e \in Entry : entries[e].state = "live"}
<1>1. CASE Booking
  <2>1. PICK e \in Entry : \A f \in Entry : f # e => entries'[f] = entries[f]
    BY <1>1, BookingInOpenYear
  <2>2. standing' \subseteq standing \cup {e}
    BY <2>1
  <2>3. IsFiniteSet(standing \cup {e})
    BY FS_AddElement DEF WorkFinite
  <2>4. QED
    BY <2>2, <2>3, FS_Subset DEF WorkFinite
<1>2. CASE ~Booking
  <2>1. entries' = entries
    BY <1>2 DEF Next, MasterData, Invoicing, AddNeighborToYear, RemoveNeighborFromYear,
           SetYearStatus, AnonymizeNeighbor, UpdateCompany, Tick, BuildPendingInvoiceContent,
           IssueInvoice, StornoInvoice, StornoDocument, GutschriftInvoice, CreateAnzahlung,
           FreeGutschrift, vars
  <2>2. QED
    BY <2>1 DEF WorkFinite
<1>3. QED
  BY <1>1, <1>2

\* What the journal reads of the document a step appends.
Enters(new, kind, ref, amount, content) ==
  /\ Ids' = Ids \cup {new} /\ new \notin Ids
  /\ \A i \in Ids : docs'[i] = docs[i]
  /\ docs'[new].kind = kind /\ docs'[new].status = "issued" /\ docs'[new].ref = ref
  /\ docs'[new].amount = amount /\ docs'[new].content = content

LEMMA StepEnters ==
  ASSUME TypeInv, Credits \/ \E a \in Account, on \in Day : IssueInvoice(a, on)
  PROVE  \/ \E a \in Account : Enters(Len(docs) + 1, "invoice", 0, 0, ContentOf(Pending(a)))
         \/ \E i \in Ids, amount \in CreditAmount :
              /\ Enters(Len(docs) + 1, "gutschrift", i, -amount, NoContent)
              /\ i \in Issued("invoice") /\ FitsInvoiceCap(i, amount)
         \/ \E amount \in CreditAmount :
              \/ Enters(Len(docs) + 1, "anzahlung", 0, amount, NoContent)
              \/ Enters(Len(docs) + 1, "gutschrift", 0, -amount, NoContent)
<1>1. TypeOK
  BY DEF TypeInv
<1>2. ASSUME NEW kind, NEW a, NEW ref, NEW number, NEW on, NEW amount, NEW content,
             IssueDocument(kind, a, ref, number, on, amount, content)
      PROVE  Enters(Len(docs) + 1, kind, ref, amount, content)
  BY <1>1, <1>2, AppendKeeps DEF Enters
<1>3. ASSUME NEW a \in Account, NEW on \in Day, IssueInvoice(a, on)
      PROVE  Enters(Len(docs) + 1, "invoice", 0, 0, ContentOf(Pending(a)))
  BY <1>2, <1>3 DEF IssueInvoice
<1>4. ASSUME NEW i \in Ids, NEW amount \in CreditAmount, GutschriftInvoice(i, amount)
      PROVE  /\ Enters(Len(docs) + 1, "gutschrift", i, -amount, NoContent)
             /\ i \in Issued("invoice") /\ FitsInvoiceCap(i, amount)
  BY <1>2, <1>4 DEF GutschriftInvoice, Reversible, Issued
<1>5. ASSUME NEW a \in Account, NEW amount \in CreditAmount, CreateAnzahlung(a, amount)
      PROVE  Enters(Len(docs) + 1, "anzahlung", 0, amount, NoContent)
  BY <1>2, <1>5 DEF CreateAnzahlung
<1>6. ASSUME NEW a \in Account, NEW amount \in CreditAmount, NEW posted \in PostedSum,
             FreeGutschrift(a, amount, posted)
      PROVE  Enters(Len(docs) + 1, "gutschrift", 0, -amount, NoContent)
  BY <1>2, <1>6 DEF FreeGutschrift
<1>7. QED
  BY <1>3, <1>4, <1>5, <1>6 DEF Credits

\* What a storno leaves of the rows it cancels.
LEMMA ReversedRows ==
  ASSUME TypeInv, NEW ids \in SUBSET Ids, Reverses(ids)
  PROVE  \A j \in Ids :
           /\ docs'[j].kind = docs[j].kind /\ docs'[j].acct = docs[j].acct
           /\ docs'[j].ref = docs[j].ref /\ docs'[j].amount = docs[j].amount
           /\ docs'[j].content = docs[j].content
           /\ docs'[j].status = IF j \in ids THEN "canceled" ELSE docs[j].status
<1> SUFFICES ASSUME NEW j \in Ids
             PROVE  /\ docs'[j].kind = docs[j].kind /\ docs'[j].acct = docs[j].acct
                    /\ docs'[j].ref = docs[j].ref /\ docs'[j].amount = docs[j].amount
                    /\ docs'[j].content = docs[j].content
                    /\ docs'[j].status = IF j \in ids THEN "canceled" ELSE docs[j].status
  OBVIOUS
<1>1. CASE j \in ids
  <2>1. docs'[j] = [docs[j] EXCEPT !.status = "canceled"]
    BY <1>1 DEF Reverses
  <2>2. docs[j] \in Document
    BY IdsFinite DEF TypeInv
  <2>3. QED
    BY <1>1, <2>1, <2>2 DEF Document
<1>2. CASE j \notin ids
  BY <1>2 DEF Reverses
<1>3. QED
  BY <1>1, <1>2

LEMMA AmountsEnter ==
  ASSUME TypeInv, AmountInv, NEW new, NEW kind, NEW ref, NEW amount, NEW content,
         Enters(new, kind, ref, amount, content),
         IsFiniteSet(content.lines), kind = "gutschrift" => -amount \in Nat
  PROVE  LinesFinite' /\ CreditsNegative'
BY DEF Enters, AmountInv, LinesFinite, CreditsNegative

LEMMA AmountStep ==
  ASSUME TypeInv, AmountInv, [Next]_vars
  PROVE  AmountInv'
<1>1. WorkFinite'
  BY WorkStep DEF AmountInv
<1>2. IsFiniteSet(NoContent.lines)
  BY FS_EmptySet DEF NoContent
<1>3. \A amount \in CreditAmount : -(-amount) \in Nat
  BY AmountAssumption
<1>4. \A a \in Account : IsFiniteSet(ContentOf(Pending(a)).lines)
  <2>1. \A a \in Account : Pending(a) \subseteq {e \in Entry : entries[e].state = "live"}
    BY DEF Pending, Live
  <2>2. QED
    BY <2>1, WorkLines DEF AmountInv
<1>5. CASE Quiet
  BY <1>1, <1>5 DEF Quiet, AmountInv, LinesFinite, CreditsNegative, Ids
<1>6. CASE Credits \/ \E a \in Account, on \in Day : IssueInvoice(a, on)
  <2>1. CASE \E a \in Account : Enters(Len(docs) + 1, "invoice", 0, 0, ContentOf(Pending(a)))
    <3>1. PICK a \in Account : Enters(Len(docs) + 1, "invoice", 0, 0, ContentOf(Pending(a)))
      BY <2>1
    <3>2. PICK content : content = ContentOf(Pending(a))
      OBVIOUS
    <3>3. Enters(Len(docs) + 1, "invoice", 0, 0, content) /\ IsFiniteSet(content.lines)
      BY <1>4, <3>1, <3>2
    <3>4. QED
      BY <1>1, <3>3, AmountsEnter DEF AmountInv
  <2>2. ASSUME NEW kind \in {"gutschrift", "anzahlung"}, NEW ref, NEW amount,
               Enters(Len(docs) + 1, kind, ref, amount, NoContent),
               kind = "gutschrift" => -amount \in Nat
        PROVE  AmountInv'
    BY <1>1, <1>2, <2>2, AmountsEnter DEF AmountInv
  <2>3. QED
    BY <1>3, <1>6, <2>1, <2>2, StepEnters
<1>7. ASSUME NEW i \in Ids, StornoInvoice(i) \/ StornoDocument(i)
      PROVE  AmountInv'
  <2>1. PICK ids \in SUBSET Ids : Reverses(ids)
    BY <1>7, StornosReverse
  <2>2. Ids' = Ids
    BY <2>1 DEF Reverses
  <2>3. QED
    BY <1>1, <2>1, <2>2, ReversedRows DEF AmountInv, LinesFinite, CreditsNegative
<1>8. QED
  BY <1>5, <1>6, <1>7, StepOfDocuments

LEMMA AmountInvAlways == Spec => []AmountInv
<1>1. ASSUME Init PROVE AmountInv
  <2>1. Ids = {} /\ {e \in Entry : entries[e].state = "live"} = {}
    BY <1>1 DEF Init, Ids, Absent
  <2>2. QED
    BY <2>1, FS_EmptySet DEF AmountInv, WorkFinite, LinesFinite, CreditsNegative
<1>2. TypeInv /\ AmountInv /\ [Next]_vars => AmountInv'
  BY AmountStep
<1>3. QED
  BY <1>1, <1>2, TypeInvAlways, PTL DEF Spec

-----------------------------------------------------------------------------
(* Sums of documents *)

LEMMA GrossSums ==
  ASSUME TypeOK, AmountInv, NEW S \in SUBSET Ids
  PROVE  /\ IsFiniteSet(S)
         /\ \A i \in S : GrossByDoc[i] = Gross(docs[i]) /\ GrossByDoc[i] \in Int
         /\ SumGross(S) \in Int
<1>1. IsFiniteSet(S)
  BY IdsFinite
<1>2. \A i \in S : GrossByDoc[i] = Gross(docs[i]) /\ GrossByDoc[i] \in Int
  BY GrossAmounts DEF GrossByDoc
<1>3. QED
  BY <1>1, <1>2, SumIsInteger DEF SumGross

\* Documents whose amount a step leaves as it was sum up as before.
LEMMA GrossKept ==
  ASSUME TypeOK, AmountInv, NEW S \in SUBSET Ids, S \subseteq Ids',
         \A i \in S : Gross(docs'[i]) = Gross(docs[i])
  PROVE  SumFunctionOnSet(GrossByDoc', S) = SumFunctionOnSet(GrossByDoc, S)
<1>1. IsFiniteSet(S)
  BY IdsFinite
<1>2. \A i \in S : GrossByDoc'[i] = GrossByDoc[i]
  BY DEF GrossByDoc
<1>3. QED
  BY <1>1, <1>2, SumSame

\* No document of an account is lost from its sum by the storno of another.
LEMMA ReversedGrossKept ==
  ASSUME TypeInv, NEW ids \in SUBSET Ids, Reverses(ids), NEW i \in Ids
  PROVE  Gross(docs'[i]) = Gross(docs[i])
BY ReversedRows DEF Gross

-----------------------------------------------------------------------------
(* Credits *)

Within(i) == SumGross(AttachedCredits(i)) + Gross(docs[i]) >= 0

CreditsStand ==
  \A j \in Issued("gutschrift") : docs[j].ref # 0 => docs[j].ref \in Issued("invoice")

CapInv == CreditsStand /\ \A i \in Issued("invoice") : Within(i)

LEMMA CapMeans ==
  ASSUME TypeOK, AmountInv, CapInv
  PROVE  CreditsWithinInvoice
<1>1. ASSUME NEW i \in Issued("invoice")
      PROVE  Credited(AttachedCredits(i)) <= Gross(docs[i])
  <2>1. AttachedCredits(i) \subseteq Ids /\ i \in Ids
    BY DEF AttachedCredits, Issued
  <2> DEFINE s == SumGross(AttachedCredits(i))
             g == Gross(docs[i])
  <2>2. s \in Int /\ g \in Int
    BY <2>1, GrossSums, GrossAmounts
  <2>3. s + g >= 0
    BY DEF CapInv, Within
  <2> HIDE DEF s, g
  <2>4. -s <= g
    BY <2>2, <2>3
  <2>5. QED
    BY <2>4 DEF s, g, Credited
<1>2. QED
  BY <1>1 DEF CreditsWithinInvoice, CapInv, CreditsStand

\* A document that is no credit on invoice i leaves its credits as they were.
LEMMA WithinKept ==
  ASSUME TypeInv, AmountInv, NEW i \in Ids, Within(i), NEW new, NEW kind, NEW ref,
         NEW amount, NEW content, Enters(new, kind, ref, amount, content),
         kind # "gutschrift" \/ ref # i
  PROVE  Within(i)'
<1>1. PICK S : S = AttachedCredits(i)
  OBVIOUS
<1>2. /\ Ids' = Ids \cup {new} /\ new \notin Ids /\ \A j \in Ids : docs'[j] = docs[j]
      /\ docs'[new].kind = kind /\ docs'[new].ref = ref
  BY DEF Enters
<1>3. AttachedCredits(i)' = S
  BY <1>1, <1>2 DEF AttachedCredits, Issued
<1>4. S \in SUBSET Ids
  BY <1>1 DEF AttachedCredits, Issued
<1>5. SumFunctionOnSet(GrossByDoc', S) = SumFunctionOnSet(GrossByDoc, S)
  BY <1>2, <1>4, GrossKept DEF TypeInv
<1>6. QED
  BY <1>1, <1>2, <1>3, <1>5 DEF Within, SumGross

\* A credit that fits the cap of its invoice keeps within it.
LEMMA WithinCapped ==
  ASSUME TypeInv, AmountInv, NEW i \in Ids, NEW amount \in CreditAmount, NEW new,
         Enters(new, "gutschrift", i, -amount, NoContent), FitsInvoiceCap(i, amount)
  PROVE  Within(i)'
<1>1. PICK S : S = AttachedCredits(i)
  OBVIOUS
<1>2. /\ Ids' = Ids \cup {new} /\ new \notin Ids /\ \A j \in Ids : docs'[j] = docs[j]
      /\ docs'[new].kind = "gutschrift" /\ docs'[new].ref = i
      /\ docs'[new].status = "issued" /\ docs'[new].amount = -amount
  BY DEF Enters
<1>3. AttachedCredits(i)' = S \cup {new}
  BY <1>1, <1>2 DEF AttachedCredits, Issued
<1>4. S \in SUBSET Ids /\ new \notin S
  BY <1>1, <1>2 DEF AttachedCredits, Issued
<1>5. TypeOK
  BY DEF TypeInv
<1>6. SumFunctionOnSet(GrossByDoc', S) = SumFunctionOnSet(GrossByDoc, S)
  BY <1>2, <1>4, <1>5, GrossKept
<1>7. GrossByDoc'[new] = -amount /\ amount \in Nat /\ -amount \in Int
  BY <1>2, AmountAssumption DEF GrossByDoc, Gross
<1>8. \A j \in S \cup {new} : GrossByDoc'[j] \in Int
  <2>1. \A j \in S : GrossByDoc'[j] = Gross(docs[j]) /\ Gross(docs[j]) \in Int
    BY <1>2, <1>4, <1>5, GrossAmounts DEF GrossByDoc
  <2>2. QED
    BY <1>7, <2>1
<1>9. IsFiniteSet(S) /\ SumGross(S) \in Int /\ Gross(docs[i]) \in Int
  BY <1>4, <1>5, GrossSums, GrossAmounts
<1>10. SumFunctionOnSet(GrossByDoc', S \cup {new}) = SumFunctionOnSet(GrossByDoc', S) + GrossByDoc'[new]
  BY <1>4, <1>8, <1>9, SumWith
<1> DEFINE s == SumGross(S)
           g == Gross(docs[i])
<1>11. SumFunctionOnSet(GrossByDoc', S \cup {new}) = s + (-amount)
  BY <1>6, <1>7, <1>10 DEF SumGross
<1>12. amount <= g - (-s)
  BY <1>1 DEF FitsInvoiceCap, Credited
<1>13. s \in Int /\ g \in Int
  BY <1>9
<1> HIDE DEF s, g
<1>14. (s + (-amount)) + g >= 0
  BY <1>7, <1>12, <1>13
<1>15. Gross(docs'[i]) = g
  BY <1>2 DEF g
<1>16. QED
  BY <1>3, <1>11, <1>14, <1>15 DEF Within, SumGross

\* A new invoice has no credits yet.
LEMMA WithinNew ==
  ASSUME TypeInv, AmountInv, CreditsStand, NEW a \in Account, NEW content, NEW new,
         content = ContentOf(Pending(a)), new \in Nat \ {0},
         Enters(new, "invoice", 0, 0, content)
  PROVE  Within(new)'
<1>1. /\ Ids' = Ids \cup {new} /\ new \notin Ids /\ \A j \in Ids : docs'[j] = docs[j]
      /\ docs'[new].kind = "invoice" /\ docs'[new].content = content
  BY DEF Enters
<1>2. AttachedCredits(new)' = {}
  <2>1. \A j \in Issued("gutschrift") : docs[j].ref # new
    BY <1>1 DEF CreditsStand, Issued
  <2>2. QED
    BY <1>1, <2>1 DEF AttachedCredits, Issued
<1>3. SumFunctionOnSet(GrossByDoc', {}) = 0
  BY FS_EmptySet, SumUnfolds
<1>4. GrossOf(content) \in Nat
  <2>1. Pending(a) \subseteq {e \in Entry : entries[e].state = "live"}
    BY DEF Pending, Live
  <2>2. IsFiniteSet(content.lines)
    BY <2>1, WorkLines DEF AmountInv
  <2>3. content \in Content
    BY ContentType DEF TypeInv
  <2>4. QED
    BY <2>2, <2>3, ContentAmounts
<1>5. Gross(docs'[new]) = GrossOf(content)
  BY <1>1 DEF Gross
<1> DEFINE g == GrossOf(content)
<1>6. g \in Nat
  BY <1>4
<1> HIDE DEF g
<1>7. 0 + g >= 0
  BY <1>6
<1>8. QED
  BY <1>2, <1>3, <1>5, <1>7 DEF Within, SumGross, g

\* Reversing a credit only makes room; an invoice goes with all its credits.
LEMMA WithinReversed ==
  ASSUME TypeInv, AmountInv, NEW i \in Ids, Within(i), NEW ids \in SUBSET Ids, Reverses(ids)
  PROVE  Within(i)'
<1>1. TypeOK /\ Ids' = Ids
  BY DEF TypeInv, Reverses
<1>2. PICK S, R : S = AttachedCredits(i) \ ids /\ R = AttachedCredits(i) \cap ids
  OBVIOUS
<1>3. /\ S \in SUBSET Ids /\ R \in SUBSET Ids /\ S \cap R = {} /\ AttachedCredits(i) = S \cup R
      /\ \A j \in R : docs[j].kind = "gutschrift"
  BY <1>2 DEF AttachedCredits, Issued
<1>4. AttachedCredits(i)' = S
  <2>1. \A j \in Ids : /\ docs'[j].kind = docs[j].kind /\ docs'[j].ref = docs[j].ref
                       /\ docs'[j].status = IF j \in ids THEN "canceled" ELSE docs[j].status
    BY ReversedRows
  <2>2. QED
    BY <1>1, <1>2, <2>1 DEF AttachedCredits, Issued
<1>5. \A j \in Ids : Gross(docs'[j]) = Gross(docs[j])
  BY ReversedGrossKept
<1>6. SumFunctionOnSet(GrossByDoc', S) = SumGross(S)
  BY <1>1, <1>3, <1>5, GrossKept DEF SumGross
<1>7. /\ IsFiniteSet(S) /\ IsFiniteSet(R) /\ SumGross(S) \in Int /\ SumGross(R) \in Int
      /\ \A j \in S \cup R : GrossByDoc[j] \in Int
  BY <1>1, <1>3, GrossSums
<1>8. SumGross(S \cup R) = SumGross(S) + SumGross(R)
  BY <1>3, <1>7, SumOfUnion DEF SumGross
<1>9. -SumGross(R) \in Nat
  <2> DEFINE back == [j \in R |-> -GrossByDoc[j]]
  <2>1. \A j \in R : back[j] \in Nat /\ back[j] = -GrossByDoc[j]
    BY <1>1, <1>3, GrossSums, GrossAmounts
  <2> HIDE DEF back
  <2>2. SumFunctionOnSet(back, R) = -SumFunctionOnSet(GrossByDoc, R)
    BY <1>7, <2>1, SumNegated
  <2>3. SumFunctionOnSet(back, R) \in Nat
    BY <1>7, <2>1, SumNotNegative
  <2>4. QED
    BY <2>2, <2>3 DEF SumGross
<1>10. Gross(docs[i]) \in Int
  BY <1>1, GrossAmounts
<1> DEFINE s == SumGross(S)
           r == SumGross(R)
           g == Gross(docs[i])
<1>11. (s + r) + g >= 0
  BY <1>3, <1>8 DEF Within
<1>12. s \in Int /\ r \in Int /\ g \in Int /\ -r \in Nat
  BY <1>7, <1>9, <1>10
<1> HIDE DEF s, r, g
<1>13. s + g >= 0
  BY <1>11, <1>12
<1>14. QED
  BY <1>4, <1>5, <1>6, <1>13 DEF Within, SumGross, s, g

LEMMA CapStep ==
  ASSUME TypeInv, AmountInv, CapInv, [Next]_vars
  PROVE  CapInv'
<1>1. TypeOK /\ CreditsStand /\ \A i \in Issued("invoice") : Within(i)
  BY DEF TypeInv, CapInv
<1>2. \A i \in Ids : i \in Nat \ {0}
  BY <1>1, IdsFinite
<1>3. CASE Quiet
  <2>1. Ids' = Ids /\ docs' = docs /\ GrossByDoc' = GrossByDoc
    BY <1>3 DEF Quiet, Ids, GrossByDoc
  <2>2. QED
    BY <1>1, <2>1 DEF CapInv, CreditsStand, Issued, Within, SumGross, AttachedCredits
<1>4. CASE Credits \/ \E a \in Account, on \in Day : IssueInvoice(a, on)
  <2>1. PICK new \in Nat \ {0} : new = Len(docs) + 1
    BY <1>1 DEF TypeOK
  <2>2. ASSUME NEW a \in Account, Enters(new, "invoice", 0, 0, ContentOf(Pending(a)))
        PROVE  CapInv'
    <3>1. PICK content : content = ContentOf(Pending(a))
      OBVIOUS
    <3>2. Enters(new, "invoice", 0, 0, content)
      BY <2>2, <3>1
    <3>3. Within(new)'
      BY <1>1, <3>1, <3>2, WithinNew
    <3>4. \A i \in Issued("invoice") : Within(i)'
      BY <1>1, <3>2, WithinKept DEF Issued
    <3>5. /\ Ids' = Ids \cup {new} /\ new \notin Ids /\ \A j \in Ids : docs'[j] = docs[j]
          /\ docs'[new].kind = "invoice" /\ docs'[new].status = "issued"
      BY <3>2 DEF Enters
    <3>6. Issued("invoice")' = Issued("invoice") \cup {new} /\ Issued("gutschrift")' = Issued("gutschrift")
      BY <3>5 DEF Issued
    <3>7. CreditsStand'
      BY <1>1, <3>5, <3>6 DEF CreditsStand, Issued
    <3>8. QED
      BY <3>3, <3>4, <3>6, <3>7 DEF CapInv
  <2>3. ASSUME NEW k \in Ids, NEW amount \in CreditAmount, k \in Issued("invoice"),
               Enters(new, "gutschrift", k, -amount, NoContent), FitsInvoiceCap(k, amount)
        PROVE  CapInv'
    <3>1. Within(k)'
      BY <2>3, WithinCapped
    <3>2. \A i \in Issued("invoice") : i # k => Within(i)'
      BY <1>1, <2>3, WithinKept DEF Issued
    <3>3. /\ Ids' = Ids \cup {new} /\ new \notin Ids /\ \A j \in Ids : docs'[j] = docs[j]
          /\ docs'[new].kind = "gutschrift" /\ docs'[new].status = "issued" /\ docs'[new].ref = k
      BY <2>3 DEF Enters
    <3>4. Issued("invoice")' = Issued("invoice") /\ Issued("gutschrift")' = Issued("gutschrift") \cup {new}
      BY <3>3 DEF Issued
    <3>5. CreditsStand'
      BY <1>1, <2>3, <3>3, <3>4 DEF CreditsStand, Issued
    <3>6. QED
      BY <3>1, <3>2, <3>4, <3>5 DEF CapInv
  <2>4. ASSUME NEW kind \in {"anzahlung", "gutschrift"}, NEW amount,
               Enters(new, kind, 0, amount, NoContent)
        PROVE  CapInv'
    <3>1. \A i \in Issued("invoice") : Within(i)'
      BY <1>1, <1>2, <2>4, WithinKept DEF Issued
    <3>2. /\ Ids' = Ids \cup {new} /\ new \notin Ids /\ \A j \in Ids : docs'[j] = docs[j]
          /\ docs'[new].kind = kind /\ docs'[new].ref = 0
      BY <2>4 DEF Enters
    <3>3. Issued("invoice")' = Issued("invoice")
          /\ Issued("gutschrift")' \subseteq Issued("gutschrift") \cup {new}
      BY <3>2 DEF Issued
    <3>4. CreditsStand'
      BY <1>1, <3>2, <3>3 DEF CreditsStand, Issued
    <3>5. QED
      BY <3>1, <3>3, <3>4 DEF CapInv
  <2>5. QED
    BY <1>4, <2>1, <2>2, <2>3, <2>4, StepEnters
<1>5. ASSUME NEW ids \in SUBSET Ids, Reverses(ids),
             \A j \in Issued("gutschrift") \ ids : docs[j].ref # 0 => docs[j].ref \notin ids
      PROVE  CapInv'
  <2>1. Ids' = Ids
        /\ \A j \in Ids : /\ docs'[j].kind = docs[j].kind /\ docs'[j].ref = docs[j].ref
                          /\ docs'[j].status = IF j \in ids THEN "canceled" ELSE docs[j].status
    BY <1>5, ReversedRows DEF Reverses
  <2>2. Issued("invoice")' = Issued("invoice") \ ids
        /\ Issued("gutschrift")' = Issued("gutschrift") \ ids
    BY <2>1 DEF Issued
  <2>3. \A i \in Issued("invoice") : Within(i)'
    BY <1>1, <1>5, WithinReversed DEF Issued
  <2>4. CreditsStand'
    BY <1>1, <1>5, <2>1, <2>2 DEF CreditsStand, Issued
  <2>5. QED
    BY <2>2, <2>3, <2>4 DEF CapInv
<1>6. ASSUME NEW i \in Ids, StornoInvoice(i)
      PROVE  CapInv'
  <2>1. PICK ids \in SUBSET Ids : ids = {i} \cup AttachedCredits(i)
    BY DEF AttachedCredits, Issued
  <2>2. Reverses(ids)
    BY <1>6, <2>1, ReverseType DEF StornoInvoice, Reverse, Reverses
  <2>3. ASSUME NEW j \in Issued("gutschrift") \ ids, docs[j].ref # 0 PROVE docs[j].ref \notin ids
    <3>1. docs[j].ref \in Issued("invoice") /\ docs[j].ref # i
      BY <1>1, <2>1, <2>3 DEF CreditsStand, AttachedCredits
    <3>2. QED
      BY <2>1, <3>1 DEF AttachedCredits, Issued
  <2>4. QED
    BY <1>5, <2>2, <2>3
<1>7. ASSUME NEW i \in Ids, StornoDocument(i)
      PROVE  CapInv'
  <2>1. PICK ids \in SUBSET Ids : ids = {i}
    OBVIOUS
  <2>2. Reverses(ids) /\ docs[i].kind # "invoice"
    BY <1>7, <2>1, ReverseType DEF StornoDocument, Reversible, Reverse, Reverses
  <2>3. \A j \in Issued("gutschrift") \ ids : docs[j].ref # 0 => docs[j].ref \notin ids
    BY <1>1, <2>1, <2>2 DEF CreditsStand, Issued
  <2>4. QED
    BY <1>5, <2>2, <2>3
<1>8. QED
  BY <1>3, <1>4, <1>6, <1>7, StepOfDocuments

\* The credits attached to a standing invoice never exceed what it grosses, and
\* none outlives its storno, however many credits are issued and reversed in
\* between (checkInvoiceCreditCap, the cascade of StornoInvoiceByID).
THEOREM CreditsStayWithin == Spec => []CreditsWithinInvoice
<1>1. Init => CapInv
  BY DEF Init, CapInv, CreditsStand, Issued, Ids
<1>2. TypeInv /\ AmountInv /\ CapInv /\ [Next]_vars => CapInv'
  BY CapStep
<1>3. TypeInv /\ AmountInv /\ CapInv => CreditsWithinInvoice
  BY CapMeans DEF TypeInv
<1>4. QED
  BY <1>1, <1>2, <1>3, TypeInvAlways, AmountInvAlways, PTL DEF Spec

-----------------------------------------------------------------------------
(* The journal *)

LEMMA JournalNetsOut ==
  ASSUME TypeInv, AmountInv, OneReversal, NEW a
  PROVE  SumGross(OfAccount(a))
           + SumFunction([s \in {r \in stornos : docs[r.of].acct = a} |-> ReversedGross(s)])
         = SumGross({i \in OfAccount(a) : docs[i].status = "issued"})
<1> DEFINE Standing == {i \in OfAccount(a) : docs[i].status = "issued"}
           Canceled == {i \in OfAccount(a) : docs[i].status = "canceled"}
           Rows == {r \in stornos : docs[r.of].acct = a}
           reversed == [s \in Rows |-> ReversedGross(s)]
           row == [i \in Canceled |-> CHOOSE s \in stornos : s.of = i]
           back == [i \in Canceled |-> -GrossByDoc[i]]
<1>1. TypeOK /\ \A i \in Ids : docs[i].status \in {"issued", "canceled"}
  <2>1. TypeOK /\ \A i \in Ids : docs[i] \in Document
    BY IdsFinite DEF TypeInv
  <2>2. QED
    BY <2>1 DEF Document
<1>2. /\ Standing \in SUBSET Ids /\ Canceled \in SUBSET Ids
      /\ Standing \cap Canceled = {} /\ OfAccount(a) = Standing \cup Canceled
  BY <1>1 DEF OfAccount
<1>3. /\ IsFiniteSet(Standing) /\ IsFiniteSet(Canceled)
      /\ SumGross(Standing) \in Int /\ SumGross(Canceled) \in Int
      /\ \A i \in Standing \cup Canceled : GrossByDoc[i] = Gross(docs[i]) /\ GrossByDoc[i] \in Int
  BY <1>1, <1>2, GrossSums
<1>4. SumGross(OfAccount(a)) = SumGross(Standing) + SumGross(Canceled)
  <2> HIDE DEF Standing, Canceled
  <2>1. QED
    BY <1>2, <1>3, SumOfUnion DEF SumGross
<1>5. \A i \in Canceled : row[i] \in stornos /\ row[i].of = i
  BY DEF OneReversal, OfAccount
<1>6. \A i \in Canceled : back[i] = -GrossByDoc[i] /\ back[i] \in Int
  BY <1>3
<1>7. Rows = {row[i] : i \in Canceled}
  <2>1. ASSUME NEW s \in Rows PROVE s.of \in Canceled /\ s = row[s.of]
    <3>1. s \in stornos /\ s.of \in Ids /\ docs[s.of].status = "canceled" /\ docs[s.of].acct = a
      BY DEF OneReversal
    <3>2. s.of \in Canceled
      BY <3>1 DEF OfAccount
    <3>3. row[s.of] \in stornos /\ row[s.of].of = s.of
      BY <1>5, <3>2
    <3>4. QED
      BY <3>1, <3>2, <3>3 DEF OneReversal
  <2>2. ASSUME NEW i \in Canceled PROVE row[i] \in Rows
    BY <1>5 DEF OfAccount
  <2> HIDE DEF Rows, Canceled, row
  <2>3. QED
    BY <2>1, <2>2
<1>8. \A i \in Canceled : reversed[row[i]] = back[i]
  <2>1. ASSUME NEW i \in Canceled PROVE reversed[row[i]] = back[i]
    <3>1. row[i] \in Rows /\ row[i].of = i
      BY <1>5 DEF OfAccount
    <3>2. reversed[row[i]] = -Gross(docs[i])
      BY <3>1 DEF ReversedGross
    <3>3. back[i] = -Gross(docs[i])
      BY <1>3
    <3>4. QED
      BY <3>2, <3>3
  <2>2. QED
    BY <2>1
<1>9. SumFunction(reversed) = SumFunctionOnSet(reversed, Rows)
  BY DEF SumFunction
<1>10. \A i, j \in Canceled : row[i] = row[j] => i = j
  BY <1>5
<1> HIDE DEF Standing, Canceled, Rows, reversed, row, back
<1>11. SumFunctionOnSet(back, Canceled) = SumFunctionOnSet(reversed, Rows)
  BY <1>3, <1>6, <1>7, <1>8, <1>10, SumRenamed
<1>12. SumFunctionOnSet(back, Canceled) = -SumGross(Canceled)
  BY <1>3, <1>6, SumNegated DEF SumGross
<1> DEFINE s == SumGross(Standing)
           c == SumGross(Canceled)
<1>13. s \in Int /\ c \in Int /\ SumGross(OfAccount(a)) = s + c /\ SumFunction(reversed) = -c
  BY <1>3, <1>4, <1>9, <1>11, <1>12
<1> HIDE DEF s, c
<1>14. (s + c) + (-c) = s
  BY <1>13
<1>15. SumGross(OfAccount(a)) + SumFunction(reversed) = SumGross(Standing)
  BY <1>13, <1>14 DEF s
<1>16. QED
  BY <1>15 DEF Standing, reversed, Rows

\* All documents ever issued on an account together with their reversals sum to
\* what still stands, for any number of them: a consequence of each canceled
\* document having exactly one reversal (insertInvoiceDoc, stornoDocumentTx).
THEOREM JournalAlwaysBalances == Spec => []JournalBalances
<1>1. TypeInv /\ AmountInv /\ OneReversal => JournalBalances
  BY JournalNetsOut DEF JournalBalances
<1>2. QED
  BY <1>1, TypeInvAlways, AmountInvAlways, ReversedOnce, PTL
=============================================================================
