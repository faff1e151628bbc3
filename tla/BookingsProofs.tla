--------------------------- MODULE BookingsProofs ---------------------------
(***************************************************************************)
(* What PersonalData promises, for every set of bookings, links and        *)
(* requests and every allowance; and below it what OfflineReplay promises, *)
(* for every set of pages, users and retry keys and any number of bookings,*)
(* requests and events.                                                    *)
(***************************************************************************)
EXTENDS PersonalData, OfflineReplay, TLAPS, FiniteSetTheorems

BookingRow == [kept : BOOLEAN, text : Texts, field : Field \cup {None},
               label : BOOLEAN, claim : Invoice \cup {None}]
LinkRow == [kind : {"none", "invoice", "statement", "deleted"},
            invoice : Invoice \cup {None}, age : {"live", "expired", "old"}]

(* The transactions that serve no request of several steps.                *)
Settles ==
  \/ HandleNeighborUpdate \/ CompleteYear \/ DayPasses
  \/ \E a \in BOOLEAN : HandleNeighborArchive(a)
  \/ \E f \in Field, a \in BOOLEAN : HandleFieldArchive(f, a)
  \/ \E f \in Field : HandleFieldDelete(f)
  \/ \E e \in Entry : UpdateEntry(e) \/ HandleEntrySignatureDelete(e)
  \/ \E b \in Booking, i \in Image : HandleBookingPhotoDelete(b, i)
  \/ \E k \in Invoice : IssueInvoice(k) \/ CancelInvoice(k)

Links ==
  \/ \E k \in Invoice, l \in Link : HandleBelegShareCreate(l, k)
  \/ \E l \in Link : LinkAges(l) \/ HandleBelegShareRevoke(l) \/ HandleStatementShareRevoke(l)

(* A request begins; it books; it shares; it reads or answers a document.  *)
Opens(w) ==
  \/ HandleFieldCreate(w) \/ HandleStatementShareCreate(w)
  \/ \E f \in Field \cup {None, "other"} : BookingFieldFromForm(w, f)
  \/ \E b \in Booking, images \in SUBSET Image \ {{}} : HandleBookingPhotoUpload(w, b, images)
  \/ \E e \in Entry : HandleEntrySignatureAdd(w, e)

Visit(w) ==
  \E l \in Link : \/ ResolvePortalShare(w, l)
                  \/ \E e \in Entry \cup {None} : HandleSharedStatement(w, l, e)

Books(w) ==
  \/ CreateField(w) \/ Abandons(w) \/ AddEntrySignature(w)
  \/ \E e \in Entry, signed \in BOOLEAN : CreateEntry(w, e, signed)
  \/ \E i \in Image : NextPhoto(w, i)

Shares(w) == \E l \in Link : CreateStatementShare(w, l)

Portal(w) ==
  \/ HandleSharedBeleg(w) \/ HandleSharedInvoicePDF(w)
  \/ HandlePortalFeedback(w) \/ ValidateFeedback(w)
  \/ \E status \in {"confirm", "dispute"} : CreateBelegFeedback(w, status)

Statement(w) ==
  \/ HandleStatementFeedback(w) \/ LockStatementShare(w) \/ CountRecent(w)
  \/ CreateStatementFeedback(w)

LEMMA NextSplits ==
  ASSUME Next
  PROVE  \/ HandleNeighborAnonymize \/ Settles \/ Links
         \/ \E w \in Worker : Opens(w) \/ Visit(w) \/ Books(w) \/ Shares(w) \/ Portal(w) \/ Statement(w)
BY DEF Next, Settles, Links, Opens, Visit, Books, Shares, Portal, Statement

-----------------------------------------------------------------------------
(* What a worker does next is a request of the right shape.                *)
LEMMA RowTyped ==
  ASSUME TypeOK, NEW w \in Worker, NEW r \in Request, work' = [work EXCEPT ![w] = r]
  PROVE  work' \in [Worker -> Request]
BY DEF TypeOK

LEMMA IdleTyped == Idle \in Request
BY TextBound DEF Idle, Request, Steps, Texts, Scrubbed

LEMMA EndsTyped ==
  ASSUME TypeOK, NEW w \in Worker, Ends(w)
  PROVE  work' \in [Worker -> Request]
BY IdleTyped, RowTyped DEF Ends, Turns

(* A request goes on.                                                      *)
Advances(w, op) == Turns(w, [work[w] EXCEPT !.op = op])

LEMMA GoesOrEnds ==
  ASSUME NEW w \in Worker, NEW op \in Steps, NEW ok, GoesOn(w, ok, op)
  PROVE  (ok /\ Advances(w, op)) \/ Ends(w)
BY DEF GoesOn, Turns, Advances, Ends

(* A request keeps its shape when its next step or its images change.      *)
LEMMA StepShaped ==
  ASSUME NEW r \in Request, NEW op \in Steps PROVE [r EXCEPT !.op = op] \in Request
BY DEF Request

LEMMA ImagesShaped ==
  ASSUME NEW r \in Request, NEW i
  PROVE  [r EXCEPT !.images = r.images \ {i}] \in Request
BY DEF Request

LEMMA AdvancesTyped ==
  ASSUME TypeOK, NEW w \in Worker, NEW op \in Steps, Advances(w, op)
  PROVE  work' \in [Worker -> Request]
<1>1. work[w] \in Request
  BY DEF TypeOK
<1>2. [work[w] EXCEPT !.op = op] \in Request
  BY <1>1, StepShaped
<1> QED BY <1>2, RowTyped DEF Advances, Turns

LEMMA OpensTyped ==
  ASSUME TypeOK, NEW w \in Worker, Opens(w)
  PROVE  work' \in [Worker -> Request] /\ begun' \in Nat
<1> DEFINE Field0 == [Idle EXCEPT !.op = "field"]
           Share0 == [Idle EXCEPT !.op = "share"]
           Book0(f) == [Idle EXCEPT !.op = "book", !.field = f]
           Photo0(b, images) == [Idle EXCEPT !.op = "photos", !.booking = b, !.images = images]
           Sign0(e) == [Idle EXCEPT !.op = "sign", !.booking = e, !.text = bookings[e].text]
<1>1. Field0 \in Request /\ Share0 \in Request
  BY IdleTyped DEF Request, Steps
<1>2. \A f \in Field \cup {None, "other"} : Book0(f) \in Request
  BY IdleTyped DEF Request, Steps
<1>3. \A b \in Booking, images \in SUBSET Image : Photo0(b, images) \in Request
  BY IdleTyped DEF Request, Steps
<1>4. \A e \in Entry : Sign0(e) \in Request
  <2> TAKE e \in Entry
  <2>1. bookings[e].text \in Texts /\ e \in Booking
    BY DEF TypeOK, Booking
  <2> QED BY <2>1, IdleTyped DEF Request, Steps
<1>5. \E r \in Request : Begins(w, r)
  <2> HIDE DEF Field0, Share0, Book0, Photo0, Sign0
  <2>1. CASE HandleFieldCreate(w)
    BY <1>1, <2>1 DEF HandleFieldCreate, Field0
  <2>2. CASE HandleStatementShareCreate(w)
    BY <1>1, <2>2 DEF HandleStatementShareCreate, Share0
  <2>3. ASSUME NEW f \in Field \cup {None, "other"}, BookingFieldFromForm(w, f)
        PROVE  \E r \in Request : Begins(w, r)
    BY <1>2, <2>3 DEF BookingFieldFromForm, Book0
  <2>4. ASSUME NEW b \in Booking, NEW images \in SUBSET Image, HandleBookingPhotoUpload(w, b, images)
        PROVE  \E r \in Request : Begins(w, r)
    BY <1>3, <2>4 DEF HandleBookingPhotoUpload, Photo0
  <2>5. ASSUME NEW e \in Entry, HandleEntrySignatureAdd(w, e)
        PROVE  \E r \in Request : Begins(w, r)
    BY <1>4, <2>5 DEF HandleEntrySignatureAdd, Sign0
  <2> QED BY <2>1, <2>2, <2>3, <2>4, <2>5 DEF Opens
<1>6. PICK r \in Request : Begins(w, r)
  BY <1>5
<1>7. work' \in [Worker -> Request]
  BY <1>6, RowTyped DEF Begins
<1>8. begun' \in Nat
  BY <1>6 DEF Begins, TypeOK
<1> QED BY <1>7, <1>8

LEMMA VisitTyped ==
  ASSUME TypeOK, NEW w \in Worker, Visit(w)
  PROVE  work' \in [Worker -> Request] /\ begun' \in Nat
<1> DEFINE Portal0(l) == [Idle EXCEPT !.op = "portal", !.link = l, !.invoice = links[l].invoice]
           Text0(e) == IF e \in Entry THEN bookings[e].text ELSE Scrubbed
           Read0(l, e) == [Idle EXCEPT !.op = "reading", !.link = l, !.booking = e, !.text = Text0(e)]
<1>1. \A l \in Link : Portal0(l) \in Request
  <2> TAKE l \in Link
  <2>1. links[l].invoice \in Invoice \cup {None}
    BY DEF TypeOK
  <2> QED BY <2>1, IdleTyped DEF Request, Steps
<1>2. \A e \in Entry \cup {None} : Text0(e) \in Texts
  <2>1. Scrubbed \in Texts
    BY TextBound DEF Texts, Scrubbed
  <2> QED BY <2>1 DEF TypeOK, Booking
<1>3. \A l \in Link, e \in Entry \cup {None} : Read0(l, e) \in Request
  <2> TAKE l \in Link, e \in Entry \cup {None}
  <2>1. Text0(e) \in Texts /\ e \in Booking \cup {None}
    BY <1>2 DEF Booking
  <2> HIDE DEF Text0
  <2> QED BY <2>1, IdleTyped DEF Request, Steps
<1>4. \E r \in Request : Begins(w, r)
  <2> HIDE DEF Portal0, Text0, Read0
  <2>1. ASSUME NEW l \in Link, ResolvePortalShare(w, l)
        PROVE  \E r \in Request : Begins(w, r)
    BY <1>1, <2>1 DEF ResolvePortalShare, Portal0
  <2>2. ASSUME NEW l \in Link, NEW e \in Entry \cup {None}, HandleSharedStatement(w, l, e)
        PROVE  \E r \in Request : Begins(w, r)
    BY <1>3, <2>2 DEF HandleSharedStatement, Read0, Text0
  <2> QED BY <2>1, <2>2 DEF Visit
<1>5. PICK r \in Request : Begins(w, r)
  BY <1>4
<1>6. work' \in [Worker -> Request]
  BY <1>5, RowTyped DEF Begins
<1>7. begun' \in Nat
  BY <1>5 DEF Begins, TypeOK
<1> QED BY <1>6, <1>7

LEMMA BooksTyped ==
  ASSUME TypeOK, NEW w \in Worker, Books(w)
  PROVE  work' \in [Worker -> Request] /\ begun' \in Nat
<1>1. CASE CreateField(w) \/ Abandons(w) \/ AddEntrySignature(w)
           \/ \E e \in Entry, signed \in BOOLEAN : CreateEntry(w, e, signed)
  <2>1. Ends(w)
    BY <1>1 DEF CreateField, Abandons, AddEntrySignature, CreateEntry
  <2>2. begun' = begun
    BY <2>1 DEF Ends, Turns
  <2> QED BY <2>1, <2>2, EndsTyped DEF TypeOK
<1>2. ASSUME NEW i \in Image, NextPhoto(w, i)
      PROVE  work' \in [Worker -> Request] /\ begun' \in Nat
  <2> DEFINE Rest == [work[w] EXCEPT !.images = @ \ {i}]
  <2>1. Rest \in Request
    <3>1. work[w] \in Request
      BY DEF TypeOK
    <3> QED BY <3>1, ImagesShaped
  <2> HIDE DEF Rest
  <2>2. \/ work' = [work EXCEPT ![w] = Rest] /\ begun' = begun
        \/ Ends(w)
    BY <1>2 DEF NextPhoto, Turns, Ends, Rest
  <2>3. work' \in [Worker -> Request]
    BY <2>1, <2>2, RowTyped, EndsTyped
  <2>4. begun' = begun
    BY <2>2 DEF Ends, Turns
  <2> QED BY <2>3, <2>4 DEF TypeOK
<1> QED BY <1>1, <1>2 DEF Books

LEMMA VisitsTyped ==
  ASSUME TypeOK, NEW w \in Worker, Shares(w) \/ Portal(w) \/ Statement(w)
  PROVE  work' \in [Worker -> Request] /\ begun' \in Nat
<1>1. {"validate", "respond", "answer", "count", "allowed"} \subseteq Steps
  BY DEF Steps
<1>2. Ends(w) \/ \E op \in Steps : Advances(w, op)
  <2>1. CASE Shares(w)
    BY <2>1 DEF Shares, CreateStatementShare
  <2>2. CASE Portal(w)
    BY <1>1, <2>2, GoesOrEnds DEF Portal, HandleSharedBeleg, HandleSharedInvoicePDF, Visits,
         CreateBelegFeedback, HandlePortalFeedback, ValidateFeedback
  <2>3. CASE Statement(w)
    BY <1>1, <2>3, GoesOrEnds DEF Statement, HandleStatementFeedback, LockStatementShare,
         CountRecent, CreateStatementFeedback
  <2> QED BY <2>1, <2>2, <2>3
<1>3. begun' = begun
  BY <1>2 DEF Ends, Advances, Turns
<1>4. work' \in [Worker -> Request]
  BY <1>2, EndsTyped, AdvancesTyped
<1> QED BY <1>3, <1>4 DEF TypeOK

-----------------------------------------------------------------------------
(* The rows of the tables.                                                 *)
DataOK ==
  /\ person \in [details : BOOLEAN, archived : BOOLEAN, anonymized : BOOLEAN] /\ open \in BOOLEAN
  /\ bookings \in [Booking -> BookingRow]
  /\ photos \subseteq Booking \X Image /\ signature \in [Entry -> Texts \cup {None}]
  /\ fields \in [Field -> {"none", "active", "archived", "deleted"}]
  /\ invoices \in [Invoice -> {"none", "issued", "cancelled"}]
  /\ links \in [Link -> LinkRow]
  /\ answers \subseteq Link \cup {None} /\ recent \in [Link -> Nat]

LEMMA TypesSplit == TypeOK <=> DataOK /\ work \in [Worker -> Request] /\ begun \in Nat
BY DEF TypeOK, DataOK, BookingRow, LinkRow

LEMMA TypesJoin == DataOK' /\ work' \in [Worker -> Request] /\ begun' \in Nat => TypeOK'
BY DEF TypeOK, DataOK, BookingRow, LinkRow

LEMMA NeighborTyped ==
  ASSUME DataOK, HandleNeighborUpdate \/ (\E a \in BOOLEAN : HandleNeighborArchive(a))
  PROVE  DataOK'
<1>1. person' \in [details : BOOLEAN, archived : BOOLEAN, anonymized : BOOLEAN]
  BY DEF DataOK, HandleNeighborUpdate, UpdateNeighbor, HandleNeighborArchive, SetNeighborArchived
<1> QED BY <1>1 DEF DataOK, HandleNeighborUpdate, HandleNeighborArchive, evidence, portal

LEMMA FieldsTyped ==
  ASSUME DataOK,
         \/ \E f \in Field, a \in BOOLEAN : HandleFieldArchive(f, a)
         \/ \E f \in Field : HandleFieldDelete(f)
         \/ \E w \in Worker : CreateField(w)
  PROVE  DataOK'
<1>1. fields' \in [Field -> {"none", "active", "archived", "deleted"}]
  BY DEF DataOK, HandleFieldArchive, SetFieldArchived, HandleFieldDelete, DeleteField, CreateField
<1> QED BY <1>1 DEF DataOK, HandleFieldArchive, HandleFieldDelete, CreateField, evidence, portal

(* A text, or the invoice that claims it, changes in the rows of bookings. *)
LEMMA RowsTyped ==
  ASSUME DataOK, NEW b \in Booking, NEW t \in Texts, NEW k \in Invoice \cup {None}
  PROVE  [bookings[b] EXCEPT !.text = t] \in BookingRow /\ [bookings[b] EXCEPT !.claim = k] \in BookingRow
BY DEF DataOK, BookingRow

LEMMA BookingsTyped ==
  ASSUME DataOK,
         \/ \E e \in Entry : UpdateEntry(e)
         \/ \E k \in Invoice : IssueInvoice(k) \/ CancelInvoice(k)
  PROVE  DataOK'
<1>1. ASSUME NEW e \in Entry, UpdateEntry(e) PROVE DataOK'
  <2>1. e \in Booking /\ bookings[e].text + 1 \in Texts
    BY <1>1, TextBound DEF UpdateEntry, Booking, DataOK, BookingRow, Texts, Scrubbed
  <2>2. PICK t \in Texts : t = bookings[e].text + 1
    BY <2>1
  <2>3. bookings' = [bookings EXCEPT ![e] = [bookings[e] EXCEPT !.text = t]]
    BY <1>1, <2>2 DEF UpdateEntry
  <2>4. bookings' \in [Booking -> BookingRow]
    BY <2>1, <2>3, RowsTyped DEF DataOK
  <2> QED BY <1>1, <2>4 DEF UpdateEntry, DataOK, evidence, portal
<1>2. ASSUME NEW k \in Invoice, IssueInvoice(k) \/ CancelInvoice(k) PROVE DataOK'
  <2>1. bookings' \in [Booking -> BookingRow]
    <3>1. \A b \in Booking : bookings[b] \in BookingRow
      BY DEF DataOK
    <3>2. \A b \in Booking : /\ [bookings[b] EXCEPT !.claim = k] \in BookingRow
                            /\ [bookings[b] EXCEPT !.claim = None] \in BookingRow
      <4>1. 1 \in Texts
        BY TextBound DEF Texts, Scrubbed
      <4> QED BY <4>1, RowsTyped
    <3>3. CASE IssueInvoice(k)
      BY <3>1, <3>2, <3>3 DEF IssueInvoice
    <3>4. CASE CancelInvoice(k)
      BY <3>1, <3>2, <3>4 DEF CancelInvoice
    <3> QED BY <1>2, <3>3, <3>4
  <2>2. invoices' \in [Invoice -> {"none", "issued", "cancelled"}]
    BY <1>2 DEF IssueInvoice, CancelInvoice, DataOK
  <2> QED BY <1>2, <2>1, <2>2 DEF IssueInvoice, CancelInvoice, DataOK, evidence, portal
<1> QED BY <1>1, <1>2

LEMMA EvidenceTyped ==
  ASSUME DataOK,
         \/ \E e \in Entry : HandleEntrySignatureDelete(e)
         \/ \E b \in Booking, i \in Image : HandleBookingPhotoDelete(b, i)
         \/ \E w \in Worker, i \in Image :
              TypeOK /\ NextPhoto(w, i) /\ work[w].booking \in Booking
         \/ \E w \in Worker : TypeOK /\ AddEntrySignature(w)
  PROVE  DataOK'
<1>1. photos' \subseteq Booking \X Image
  <2>1. ASSUME NEW w \in Worker, NEW i \in Image, NextPhoto(w, i), work[w].booking \in Booking
        PROVE  photos' \subseteq Booking \X Image
    <3>1. photos' = photos \/ photos' = photos \cup {<<work[w].booking, i>>}
      BY <2>1 DEF NextPhoto, AddLedgerPhoto, AddEntryPhoto
    <3> QED BY <2>1, <3>1 DEF DataOK
  <2>2. ASSUME NEW b \in Booking, NEW i \in Image, HandleBookingPhotoDelete(b, i)
        PROVE  photos' \subseteq Booking \X Image
    BY <2>2 DEF HandleBookingPhotoDelete, DeleteLedgerPhoto, DeleteEntryPhoto, DataOK
  <2> QED BY <2>1, <2>2 DEF DataOK, HandleEntrySignatureDelete, AddEntrySignature
<1>2. signature' \in [Entry -> Texts \cup {None}]
  <2>1. \A w \in Worker : TypeOK => work[w].text \in Texts
    BY DEF TypeOK, Request
  <2> QED BY <2>1 DEF DataOK, HandleEntrySignatureDelete, DeleteEntrySignature, HandleBookingPhotoDelete,
         NextPhoto, AddEntrySignature, InsertSignatureTx
<1> QED BY <1>1, <1>2 DEF DataOK, HandleEntrySignatureDelete, HandleBookingPhotoDelete, NextPhoto,
         AddEntrySignature, portal

LEMMA EntryTyped ==
  ASSUME TypeOK, DataOK, NEW w \in Worker, NEW e \in Entry, NEW signed \in BOOLEAN, CreateEntry(w, e, signed)
  PROVE  DataOK'
<1> DEFINE label == work[w].field # None
           field == IF work[w].field \in Field THEN work[w].field ELSE None
           row == [NoBooking EXCEPT !.kept = TRUE, !.text = 1, !.label = label, !.field = field]
<1>1. 1 \in Texts /\ e \in Booking /\ Scrubbed \in Texts
  BY TextBound DEF Texts, Scrubbed, Booking
<1>2. row \in BookingRow
  <2>1. label \in BOOLEAN /\ field \in Field \cup {None}
    OBVIOUS
  <2> HIDE DEF label, field
  <2> QED BY <1>1, <2>1 DEF BookingRow, NoBooking
<1>3. bookings' \in [Booking -> BookingRow]
  <2>1. bookings' = bookings \/ bookings' = [bookings EXCEPT ![e] = row]
    BY DEF CreateEntry
  <2> HIDE DEF row
  <2> QED BY <1>1, <1>2, <2>1 DEF DataOK
<1>4. signature' \in [Entry -> Texts \cup {None}]
  BY <1>1 DEF DataOK, CreateEntry, SignatureFromForm
<1> QED BY <1>3, <1>4 DEF DataOK, CreateEntry, portal

LEMMA RemovedTyped ==
  ASSUME DataOK, NEW S \in SUBSET Link, NEW rest \in [Link -> LinkRow], Removed(S, rest)
  PROVE  /\ links' \in [Link -> LinkRow] /\ answers' \subseteq Link \cup {None}
         /\ recent' \in [Link -> Nat]
<1>1. [NoLink EXCEPT !.kind = "deleted"] \in LinkRow
  BY DEF NoLink, LinkRow
<1> QED BY <1>1 DEF DataOK, Removed, Unlinked

LEMMA LinksTyped ==
  ASSUME DataOK, Links \/ (\E w \in Worker : Shares(w))
  PROVE  DataOK'
<1>1. \A kind : Past(kind) \in SUBSET Link
  BY DEF Past
<1>2. ASSUME NEW l \in Link, NEW k \in Invoice, HandleBelegShareCreate(l, k) PROVE DataOK'
  <2>1. [kind |-> "invoice", invoice |-> k, age |-> "live"] \in LinkRow
    BY DEF LinkRow
  <2>2. [links EXCEPT ![l] = [kind |-> "invoice", invoice |-> k, age |-> "live"]] \in [Link -> LinkRow]
    BY <2>1 DEF DataOK
  <2>3. /\ links' \in [Link -> LinkRow] /\ answers' \subseteq Link \cup {None} /\ recent' \in [Link -> Nat]
    BY <1>1, <1>2, <2>2, RemovedTyped DEF HandleBelegShareCreate, CreateInvoiceBelegShare
  <2> QED BY <1>2, <2>3 DEF HandleBelegShareCreate, DataOK, evidence
<1>3. ASSUME NEW l \in Link, LinkAges(l) PROVE DataOK'
  <2>1. links' \in [Link -> LinkRow]
    BY <1>3 DEF LinkAges, DataOK, LinkRow
  <2> QED BY <1>3, <2>1 DEF LinkAges, DataOK, evidence, portal
<1>4. ASSUME NEW l \in Link, HandleBelegShareRevoke(l) \/ HandleStatementShareRevoke(l) PROVE DataOK'
  <2>1. {l} \in SUBSET Link /\ links \in [Link -> LinkRow] /\ Removed({l}, links)
    BY <1>4 DEF HandleBelegShareRevoke, RevokeInvoiceBelegShare, HandleStatementShareRevoke,
         RevokeStatementShare, DataOK
  <2>2. /\ links' \in [Link -> LinkRow] /\ answers' \subseteq Link \cup {None} /\ recent' \in [Link -> Nat]
    BY <2>1, RemovedTyped
  <2> QED BY <1>4, <2>2 DEF HandleBelegShareRevoke, HandleStatementShareRevoke, DataOK, evidence
<1>5. ASSUME NEW w \in Worker, NEW l \in Link, CreateStatementShare(w, l) PROVE DataOK'
  <2>1. [NoLink EXCEPT !.kind = "statement"] \in LinkRow
    BY DEF NoLink, LinkRow
  <2>2. [links EXCEPT ![l] = [NoLink EXCEPT !.kind = "statement"]] \in [Link -> LinkRow]
    BY <2>1 DEF DataOK
  <2>3. /\ links' \in [Link -> LinkRow] /\ answers' \subseteq Link \cup {None} /\ recent' \in [Link -> Nat]
    BY <1>1, <1>5, <2>2, RemovedTyped DEF CreateStatementShare
  <2> QED BY <1>5, <2>3 DEF CreateStatementShare, DataOK, evidence
<1> QED BY <1>2, <1>3, <1>4, <1>5 DEF Links, Shares

LEMMA ErasedRow ==
  ASSUME NEW r \in BookingRow
  PROVE  [r EXCEPT !.text = Scrubbed, !.field = None, !.label = FALSE] \in BookingRow
<1>1. Scrubbed \in Texts
  BY TextBound DEF Texts, Scrubbed
<1>2. \A t \in Texts : [r EXCEPT !.text = t, !.field = None, !.label = FALSE] \in BookingRow
  BY DEF BookingRow
<1> QED BY <1>1, <1>2

LEMMA ErasureTyped ==
  ASSUME TypeOK, DataOK, HandleNeighborAnonymize
  PROVE  DataOK' /\ work' \in [Worker -> Request]
<1> USE DEF HandleNeighborAnonymize, AnonymizeNeighbor
<1>1. person' \in [details : BOOLEAN, archived : BOOLEAN, anonymized : BOOLEAN]
  OBVIOUS
<1>2. bookings' \in [Booking -> BookingRow]
  <2>1. \A b \in Booking : bookings[b] \in BookingRow
    BY DEF DataOK
  <2> QED BY <2>1, ErasedRow
<1>3. links' \in [Link -> LinkRow]
  <2>1. NoLink \in LinkRow /\ [NoLink EXCEPT !.kind = "deleted"] \in LinkRow
    BY DEF NoLink, LinkRow
  <2> QED BY <2>1
<1>4. work' \in [Worker -> Request]
  BY IdleTyped DEF TypeOK
<1> QED BY <1>1, <1>2, <1>3, <1>4 DEF DataOK

LEMMA CalmTyped ==
  ASSUME DataOK, CompleteYear \/ DayPasses
  PROVE  DataOK'
<1>1. recent' \in [Link -> Nat]
  BY DEF CompleteYear, DayPasses, DataOK, portal
<1>2. open' \in BOOLEAN /\ answers' = answers
  BY DEF CompleteYear, DayPasses, DataOK, portal
<1> QED BY <1>1, <1>2 DEF CompleteYear, DayPasses, DataOK, evidence

LEMMA QuietTyped ==
  ASSUME DataOK, NEW w \in Worker,
         \/ Opens(w) \/ Visit(w) \/ Portal(w) \/ Abandons(w)
         \/ HandleStatementFeedback(w) \/ LockStatementShare(w) \/ CountRecent(w)
  PROVE  DataOK'
<1>1. CASE Opens(w)
  BY <1>1 DEF Opens, HandleFieldCreate, HandleStatementShareCreate, BookingFieldFromForm,
       HandleBookingPhotoUpload, HandleEntrySignatureAdd, DataOK, evidence, portal
<1>2. CASE Visit(w)
  BY <1>2 DEF Visit, ResolvePortalShare, HandleSharedStatement, DataOK, evidence, portal
<1>3. CASE Portal(w)
  BY <1>3 DEF Portal, HandleSharedBeleg, HandleSharedInvoicePDF, Visits, HandlePortalFeedback,
       ValidateFeedback, CreateBelegFeedback, DataOK, evidence, portal
<1>4. CASE Abandons(w) \/ HandleStatementFeedback(w) \/ LockStatementShare(w) \/ CountRecent(w)
  BY <1>4 DEF Abandons, HandleStatementFeedback, LockStatementShare, CountRecent, DataOK, evidence, portal
<1> QED BY <1>1, <1>2, <1>3, <1>4

LEMMA AnswerTyped ==
  ASSUME TypeOK, DataOK, NEW w \in Worker, CreateStatementFeedback(w)
  PROVE  DataOK'
<1>1. work[w].link \in Link \cup {None}
  BY DEF TypeOK, Request
<1>2. recent' \in [Link -> Nat]
  <2>1. CASE work[w].link \in Link
    <3>1. PICK n \in Nat : n = recent[work[w].link] + 1
      BY <2>1 DEF DataOK
    <3>2. recent' = [recent EXCEPT ![work[w].link] = n]
      BY <3>1 DEF CreateStatementFeedback
    <3> QED BY <2>1, <3>2 DEF DataOK
  <2>2. CASE work[w].link \notin Link
    BY <2>2 DEF CreateStatementFeedback, DataOK
  <2> QED BY <2>1, <2>2
<1> QED BY <1>1, <1>2 DEF CreateStatementFeedback, DataOK, evidence

(* A request for photos names a booking.                                   *)
PhotosNamed == \A w \in Worker : work[w].op = "photos" => work[w].booking \in Booking

LEMMA StepTyped ==
  ASSUME TypeOK, PhotosNamed, [Next]_vars
  PROVE  TypeOK'
<1>1. DataOK /\ work \in [Worker -> Request] /\ begun \in Nat
  BY TypesSplit
<1>2. CASE UNCHANGED vars
  BY <1>2 DEF vars, TypeOK
<1>3. CASE HandleNeighborAnonymize
  BY <1>1, <1>3, ErasureTyped, TypesJoin DEF HandleNeighborAnonymize
<1>4. CASE Settles
  <2>1. UNCHANGED busy
    BY <1>4 DEF Settles, HandleNeighborUpdate, CompleteYear, DayPasses, HandleNeighborArchive,
         HandleFieldArchive,
         HandleFieldDelete, UpdateEntry, HandleEntrySignatureDelete, HandleBookingPhotoDelete,
         IssueInvoice, CancelInvoice
  <2>2. DataOK'
    <3>1. ASSUME CompleteYear \/ DayPasses PROVE DataOK'
      BY <1>1, <3>1, CalmTyped
    <3> QED BY <1>1, <1>4, <3>1, NeighborTyped, FieldsTyped, BookingsTyped, EvidenceTyped DEF Settles
  <2> QED BY <1>1, <2>1, <2>2, TypesJoin DEF busy
<1>5. CASE Links
  <2>1. UNCHANGED busy
    BY <1>5 DEF Links, HandleBelegShareCreate, LinkAges, HandleBelegShareRevoke, HandleStatementShareRevoke
  <2> QED BY <1>1, <1>5, <2>1, LinksTyped, TypesJoin DEF busy
<1>6. ASSUME NEW w \in Worker, Opens(w) \/ Visit(w) PROVE TypeOK'
  BY <1>1, <1>6, OpensTyped, VisitTyped, QuietTyped, TypesJoin
<1>7. ASSUME NEW w \in Worker, Books(w) PROVE TypeOK'
  <2>1. ASSUME CreateField(w) PROVE DataOK'
    BY <1>1, <2>1, FieldsTyped
  <2>2. ASSUME Abandons(w) PROVE DataOK'
    BY <1>1, <2>2, QuietTyped
  <2>3. ASSUME AddEntrySignature(w) PROVE DataOK'
    BY <1>1, <2>3, EvidenceTyped
  <2>4. ASSUME NEW e \in Entry, NEW signed \in BOOLEAN, CreateEntry(w, e, signed) PROVE DataOK'
    BY <1>1, <2>4, EntryTyped
  <2>5. ASSUME NEW i \in Image, NextPhoto(w, i) PROVE DataOK'
    BY <1>1, <2>5, EvidenceTyped DEF PhotosNamed, NextPhoto
  <2>6. DataOK'
    BY <1>7, <2>1, <2>2, <2>3, <2>4, <2>5 DEF Books
  <2> QED BY <1>7, <2>6, BooksTyped, TypesJoin
<1>8. ASSUME NEW w \in Worker, Shares(w) \/ Portal(w) \/ Statement(w) PROVE TypeOK'
  <2>1. DataOK'
    BY <1>1, <1>8, LinksTyped, QuietTyped, AnswerTyped DEF Statement
  <2> QED BY <1>8, <2>1, VisitsTyped, TypesJoin
<1> QED BY <1>2, <1>3, <1>4, <1>5, <1>6, <1>7, <1>8, NextSplits

-----------------------------------------------------------------------------
(* How the kind of a link and the request of a worker change.              *)
KindStep(l) ==
  \/ links'[l].kind = links[l].kind
  \/ links[l].kind = "none" /\ links'[l].kind = "statement"
  \/ links[l].kind = "none" /\ links'[l].kind = "invoice" /\ ~person.anonymized /\ person' = person
  \/ links[l].kind # "none" /\ links'[l].kind = "deleted"

LEMMA RemovedKinds ==
  ASSUME DataOK, NEW S \in SUBSET Link, NEW rest \in [Link -> LinkRow], Removed(S, rest),
         NEW l \in Link
  PROVE  links'[l].kind = IF l \in S THEN "deleted" ELSE rest[l].kind
BY DEF Removed, NoLink

LEMMA LinksKinds ==
  ASSUME DataOK, Links \/ (\E w \in Worker : Shares(w)), NEW m \in Link
  PROVE  KindStep(m)
<1>1. \A kind : Past(kind) \in SUBSET Link
  BY DEF Past
<1>2. ASSUME NEW l \in Link, NEW k \in Invoice, HandleBelegShareCreate(l, k) PROVE KindStep(m)
  <2> DEFINE row == [kind |-> "invoice", invoice |-> k, age |-> "live"]
             rest == [links EXCEPT ![l] = row]
  <2>1. row \in LinkRow
    BY DEF LinkRow
  <2>2. rest \in [Link -> LinkRow] /\ rest[m].kind = IF m = l THEN "invoice" ELSE links[m].kind
    BY <2>1 DEF DataOK
  <2> HIDE DEF row, rest
  <2>3. Removed(Past("invoice"), rest) /\ links[l].kind = "none" /\ ~person.anonymized /\ person' = person
    BY <1>2 DEF HandleBelegShareCreate, CreateInvoiceBelegShare, LockPersonalDataNeighbor, row, rest
  <2>4. links'[m].kind = IF m \in Past("invoice") THEN "deleted" ELSE rest[m].kind
    BY <1>1, <2>2, <2>3, RemovedKinds
  <2> QED BY <2>2, <2>3, <2>4 DEF KindStep, Past
<1>3. ASSUME NEW l \in Link, LinkAges(l) PROVE KindStep(m)
  BY <1>3 DEF LinkAges, DataOK, LinkRow, KindStep
<1>4. ASSUME NEW l \in Link, HandleBelegShareRevoke(l) \/ HandleStatementShareRevoke(l) PROVE KindStep(m)
  <2>1. /\ {l} \in SUBSET Link /\ links \in [Link -> LinkRow] /\ Removed({l}, links)
        /\ links[l].kind # "none"
    BY <1>4 DEF HandleBelegShareRevoke, RevokeInvoiceBelegShare, HandleStatementShareRevoke,
         RevokeStatementShare, DataOK
  <2>2. links'[m].kind = IF m \in {l} THEN "deleted" ELSE links[m].kind
    BY <2>1, RemovedKinds
  <2> QED BY <2>1, <2>2 DEF KindStep
<1>5. ASSUME NEW w \in Worker, NEW l \in Link, CreateStatementShare(w, l) PROVE KindStep(m)
  <2> DEFINE row == [NoLink EXCEPT !.kind = "statement"]
             rest == [links EXCEPT ![l] = row]
  <2>1. row \in LinkRow /\ row.kind = "statement"
    BY DEF LinkRow, NoLink
  <2>2. rest \in [Link -> LinkRow] /\ rest[m].kind = IF m = l THEN "statement" ELSE links[m].kind
    BY <2>1 DEF DataOK
  <2> HIDE DEF row, rest
  <2>3. Removed(Past("statement"), rest) /\ links[l].kind = "none"
    BY <1>5 DEF CreateStatementShare, row, rest
  <2>4. links'[m].kind = IF m \in Past("statement") THEN "deleted" ELSE rest[m].kind
    BY <1>1, <2>2, <2>3, RemovedKinds
  <2> QED BY <2>2, <2>3, <2>4 DEF KindStep, Past
<1> QED BY <1>2, <1>3, <1>4, <1>5 DEF Links, Shares

LEMMA KindsStep ==
  ASSUME DataOK, [Next]_vars, NEW l \in Link
  PROVE  KindStep(l)
<1>1. CASE UNCHANGED vars
  BY <1>1 DEF vars, KindStep
<1>2. CASE HandleNeighborAnonymize
  <2>1. links'[l].kind = IF links[l].kind = "none" THEN "none" ELSE "deleted"
    BY <1>2 DEF HandleNeighborAnonymize, AnonymizeNeighbor, NoLink
  <2> QED BY <2>1 DEF KindStep
<1>3. CASE Links \/ \E w \in Worker : Shares(w)
  BY <1>3, LinksKinds
<1>4. CASE Settles
  <2>1. links' = links
    BY <1>4 DEF Settles, HandleNeighborUpdate, CompleteYear, DayPasses, HandleNeighborArchive,
         HandleFieldArchive,
         HandleFieldDelete, UpdateEntry, HandleEntrySignatureDelete, HandleBookingPhotoDelete,
         IssueInvoice, CancelInvoice
  <2> QED BY <2>1 DEF KindStep
<1>5. ASSUME NEW w \in Worker, Opens(w) \/ Visit(w) \/ Books(w) PROVE KindStep(l)
  <2>1. links' = links
    BY <1>5 DEF Opens, Visit, Books, HandleFieldCreate, HandleStatementShareCreate, BookingFieldFromForm,
       HandleBookingPhotoUpload, HandleEntrySignatureAdd, ResolvePortalShare, HandleSharedStatement,
       CreateField, Abandons, AddEntrySignature, CreateEntry, NextPhoto
  <2> QED BY <2>1 DEF KindStep
<1>6. ASSUME NEW w \in Worker, Portal(w) \/ Statement(w) PROVE KindStep(l)
  <2>1. links' = links
    BY <1>6 DEF Portal, Statement, HandleSharedBeleg, HandleSharedInvoicePDF, Visits, HandlePortalFeedback,
       ValidateFeedback, CreateBelegFeedback, HandleStatementFeedback, LockStatementShare, CountRecent,
       CreateStatementFeedback
  <2> QED BY <2>1 DEF KindStep
<1> QED BY <1>1, <1>2, <1>3, <1>4, <1>5, <1>6, NextSplits

Reads == {"portal", "validate", "respond"}
Answers == {"reading", "answer", "count", "allowed"}

WorkStep(w) ==
  \/ work'[w] = work[w] \/ work'[w].op = "idle"
  \/ work'[w].op \in {"field", "book", "sign", "share"}
  \/ work'[w].op = "photos" /\ work'[w].booking \in Booking
  \/ /\ work'[w].op = "portal" /\ work'[w].link \in Link
     /\ links[work'[w].link].kind = "invoice" /\ links' = links /\ person' = person
  \/ /\ work'[w].op = "reading" /\ work'[w].link \in Link
     /\ links[work'[w].link].kind = "statement" /\ links' = links
     /\ ~person.anonymized /\ person' = person
  \/ /\ work'[w].link = work[w].link /\ links' = links /\ person' = person
     /\ \/ work[w].op \in {"portal", "validate"} /\ work'[w].op \in {"validate", "respond"}
        \/ work[w].op = "reading" /\ work'[w].op = "answer"
        \/ /\ work[w].op = "answer" /\ work'[w].op = "count"
           /\ links[work[w].link].kind = "statement" /\ LinkLockFree(work[w].link)
        \/ /\ work[w].op = "count" /\ work'[w].op = "allowed"
           /\ recent[work[w].link] < FeedbackPerDay

OnlyWorks(w) == \A v \in Worker : v # w => work'[v] = work[v]

LEMMA SetsRow ==
  ASSUME TypeOK, NEW w \in Worker, NEW r, work' = [work EXCEPT ![w] = r]
  PROVE  work'[w] = r /\ OnlyWorks(w)
BY DEF TypeOK, OnlyWorks

LEMMA EndsWork ==
  ASSUME TypeOK, NEW w \in Worker, Ends(w)
  PROVE  work'[w] = Idle /\ work'[w].op = "idle" /\ OnlyWorks(w)
<1>1. work' = [work EXCEPT ![w] = Idle]
  BY DEF Ends, Turns
<1>2. work'[w] = Idle /\ OnlyWorks(w)
  BY <1>1, SetsRow
<1> QED BY <1>2 DEF Idle

LEMMA BeginsWork ==
  ASSUME TypeOK, NEW w \in Worker, NEW r, Begins(w, r)
  PROVE  work'[w] = r /\ OnlyWorks(w)
BY SetsRow DEF Begins

LEMMA AdvancesWork ==
  ASSUME TypeOK, NEW w \in Worker, NEW op \in Steps, Advances(w, op)
  PROVE  work'[w].op = op /\ work'[w].link = work[w].link /\ OnlyWorks(w)
<1>1. work'[w] = [work[w] EXCEPT !.op = op] /\ OnlyWorks(w)
  BY SetsRow DEF Advances, Turns
<1>2. work[w] \in Request
  BY DEF TypeOK
<1> QED BY <1>1, <1>2 DEF Request

LEMMA OpensWork ==
  ASSUME TypeOK, NEW w \in Worker, Opens(w)
  PROVE  WorkStep(w) /\ OnlyWorks(w)
<1>1. CASE HandleFieldCreate(w) \/ HandleStatementShareCreate(w)
  BY <1>1, SetsRow DEF HandleFieldCreate, HandleStatementShareCreate, Begins, Idle, WorkStep
<1>2. ASSUME NEW f \in Field \cup {None, "other"}, BookingFieldFromForm(w, f)
      PROVE  WorkStep(w) /\ OnlyWorks(w)
  <2>1. Begins(w, [Idle EXCEPT !.op = "book", !.field = f])
    BY <1>2 DEF BookingFieldFromForm
  <2>2. work'[w] = [Idle EXCEPT !.op = "book", !.field = f] /\ OnlyWorks(w)
    BY <2>1, BeginsWork
  <2> QED BY <2>2 DEF Idle, WorkStep
<1>3. ASSUME NEW b \in Booking, NEW images \in SUBSET Image, HandleBookingPhotoUpload(w, b, images)
      PROVE  WorkStep(w) /\ OnlyWorks(w)
  <2>1. Begins(w, [Idle EXCEPT !.op = "photos", !.booking = b, !.images = images])
    BY <1>3 DEF HandleBookingPhotoUpload
  <2>2. work'[w] = [Idle EXCEPT !.op = "photos", !.booking = b, !.images = images] /\ OnlyWorks(w)
    BY <2>1, BeginsWork
  <2> QED BY <2>2 DEF Idle, WorkStep
<1>4. ASSUME NEW e \in Entry, HandleEntrySignatureAdd(w, e)
      PROVE  WorkStep(w) /\ OnlyWorks(w)
  <2> DEFINE text == bookings[e].text
  <2>1. Begins(w, [Idle EXCEPT !.op = "sign", !.booking = e, !.text = text])
    BY <1>4 DEF HandleEntrySignatureAdd
  <2> HIDE DEF text
  <2>2. work'[w] = [Idle EXCEPT !.op = "sign", !.booking = e, !.text = text] /\ OnlyWorks(w)
    BY <2>1, BeginsWork
  <2> QED BY <2>2 DEF Idle, WorkStep
<1> QED BY <1>1, <1>2, <1>3, <1>4 DEF Opens

LEMMA VisitWork ==
  ASSUME TypeOK, NEW w \in Worker, Visit(w)
  PROVE  WorkStep(w) /\ OnlyWorks(w)
<1>1. ASSUME NEW l \in Link, ResolvePortalShare(w, l)
      PROVE  WorkStep(w) /\ OnlyWorks(w)
  <2>1. work' = [work EXCEPT ![w] = [Idle EXCEPT !.op = "portal", !.link = l, !.invoice = links[l].invoice]]
    BY <1>1 DEF ResolvePortalShare, Begins
  <2>2. /\ work'[w] = [Idle EXCEPT !.op = "portal", !.link = l, !.invoice = links[l].invoice]
        /\ OnlyWorks(w)
    BY <2>1, SetsRow
  <2>3. work'[w].op = "portal" /\ work'[w].link = l
    BY <2>2 DEF Idle
  <2> QED BY <1>1, <2>2, <2>3 DEF ResolvePortalShare, ResolveInvoiceBelegShare, WorkStep
<1>2. ASSUME NEW l \in Link, NEW e \in Entry \cup {None}, HandleSharedStatement(w, l, e)
      PROVE  WorkStep(w) /\ OnlyWorks(w)
  <2> DEFINE text == IF e \in Entry THEN bookings[e].text ELSE Scrubbed
  <2>1. work' = [work EXCEPT ![w] = [Idle EXCEPT !.op = "reading", !.link = l, !.booking = e, !.text = text]]
    BY <1>2 DEF HandleSharedStatement, Begins
  <2> HIDE DEF text
  <2>2. /\ work'[w] = [Idle EXCEPT !.op = "reading", !.link = l, !.booking = e, !.text = text]
        /\ OnlyWorks(w)
    BY <2>1, SetsRow
  <2>3. work'[w].op = "reading" /\ work'[w].link = l
    BY <2>2 DEF Idle
  <2> QED BY <1>2, <2>2, <2>3 DEF HandleSharedStatement, ResolveStatementShare, WorkStep
<1> QED BY <1>1, <1>2 DEF Visit

LEMMA BooksWork ==
  ASSUME TypeOK, PhotosNamed, NEW w \in Worker, Books(w) \/ Shares(w)
  PROVE  WorkStep(w) /\ OnlyWorks(w)
<1>1. ASSUME NEW i \in Image, NextPhoto(w, i), ~Ends(w)
      PROVE  WorkStep(w) /\ OnlyWorks(w)
  <2>1. /\ work' = [work EXCEPT ![w] = [work[w] EXCEPT !.images = @ \ {i}]]
        /\ work[w].op = "photos"
    BY <1>1 DEF NextPhoto, Turns, Ends
  <2>2. work'[w] = [work[w] EXCEPT !.images = @ \ {i}] /\ OnlyWorks(w)
    BY <2>1, SetsRow
  <2>3. work[w] \in Request
    BY DEF TypeOK
  <2>4. work'[w].op = "photos" /\ work'[w].booking = work[w].booking
    BY <2>1, <2>2, <2>3 DEF Request
  <2> QED BY <2>1, <2>2, <2>4 DEF PhotosNamed, WorkStep
<1>2. CASE Ends(w)
  BY <1>2, EndsWork DEF WorkStep
<1> QED BY <1>1, <1>2 DEF Books, Shares, CreateField, Abandons, AddEntrySignature, CreateEntry,
     CreateStatementShare

LEMMA ReadsWork ==
  ASSUME TypeOK, NEW w \in Worker, Portal(w) \/ Statement(w)
  PROVE  WorkStep(w) /\ OnlyWorks(w)
<1>1. {"validate", "respond", "answer", "count", "allowed"} \subseteq Steps
  BY DEF Steps
<1>2. CASE Ends(w)
  BY <1>2, EndsWork DEF WorkStep
<1>3. CASE HandlePortalFeedback(w) \/ ValidateFeedback(w)
  <2>1. Ends(w) \/ Advances(w, "validate") \/ Advances(w, "respond")
    BY <1>1, <1>3, GoesOrEnds DEF HandlePortalFeedback, ValidateFeedback
  <2>2. work[w].op \in {"portal", "validate"} /\ links' = links /\ person' = person
    BY <1>3 DEF HandlePortalFeedback, ValidateFeedback
  <2> QED BY <1>1, <1>2, <2>1, <2>2, AdvancesWork DEF WorkStep
<1>4. CASE HandleStatementFeedback(w)
  <2>1. Ends(w) \/ Advances(w, "answer")
    BY <1>1, <1>4, GoesOrEnds DEF HandleStatementFeedback
  <2>2. work[w].op = "reading" /\ links' = links /\ person' = person
    BY <1>4 DEF HandleStatementFeedback
  <2> QED BY <1>1, <1>2, <2>1, <2>2, AdvancesWork DEF WorkStep
<1>5. CASE LockStatementShare(w)
  <2>1. Ends(w) \/ (Advances(w, "count") /\ links[work[w].link].kind = "statement")
    BY <1>5 DEF LockStatementShare, GoesOn, Advances, Ends
  <2>2. work[w].op = "answer" /\ LinkLockFree(work[w].link) /\ links' = links /\ person' = person
    BY <1>5 DEF LockStatementShare
  <2> QED BY <1>1, <1>2, <2>1, <2>2, AdvancesWork DEF WorkStep
<1>6. CASE CountRecent(w)
  <2>1. Ends(w) \/ (Advances(w, "allowed") /\ recent[work[w].link] < FeedbackPerDay)
    BY <1>6 DEF CountRecent, GoesOn, Advances, Ends
  <2>2. work[w].op = "count" /\ links' = links /\ person' = person
    BY <1>6 DEF CountRecent
  <2> QED BY <1>1, <1>2, <2>1, <2>2, AdvancesWork DEF WorkStep
<1> QED BY <1>2, <1>3, <1>4, <1>5, <1>6 DEF Portal, Statement, HandleSharedBeleg, HandleSharedInvoicePDF,
      Visits, CreateBelegFeedback, CreateStatementFeedback

LEMMA WorksStep ==
  ASSUME TypeOK, PhotosNamed, [Next]_vars, NEW w \in Worker
  PROVE  WorkStep(w)
<1>1. CASE UNCHANGED vars
  BY <1>1 DEF vars, WorkStep
<1>2. CASE HandleNeighborAnonymize
  BY <1>2 DEF HandleNeighborAnonymize, AnonymizeNeighbor, Idle, WorkStep
<1>3. CASE Settles \/ Links
  <2>1. UNCHANGED busy
    BY <1>3 DEF Settles, HandleNeighborUpdate, CompleteYear, DayPasses, HandleNeighborArchive,
         HandleFieldArchive,
         HandleFieldDelete, UpdateEntry, HandleEntrySignatureDelete, HandleBookingPhotoDelete,
         IssueInvoice, CancelInvoice,
         Links, HandleBelegShareCreate, LinkAges, HandleBelegShareRevoke, HandleStatementShareRevoke
  <2> QED BY <2>1 DEF busy, WorkStep
<1>4. ASSUME NEW v \in Worker,
             Opens(v) \/ Visit(v) \/ Books(v) \/ Shares(v) \/ Portal(v) \/ Statement(v)
      PROVE  WorkStep(w)
  <2>1. WorkStep(v) /\ OnlyWorks(v)
    BY <1>4, OpensWork, VisitWork, BooksWork, ReadsWork
  <2> QED BY <2>1 DEF OnlyWorks, WorkStep
<1> QED BY <1>1, <1>2, <1>3, <1>4, NextSplits

-----------------------------------------------------------------------------
(* The requests that read a document name a link that has not changed its  *)
(* kind, or is gone; once the neighbor is erased every one of them is gone *)
(* and no answer is half given.                                            *)
LinksNamed ==
  \A w \in Worker :
    /\ work[w].op \in Reads =>
         work[w].link \in Link /\ links[work[w].link].kind \in {"invoice", "deleted"}
    /\ work[w].op \in Answers =>
         work[w].link \in Link /\ links[work[w].link].kind \in {"statement", "deleted"}

ErasedLinks ==
  person.anonymized =>
    /\ \A l \in Link : links[l].kind # "invoice"
    /\ \A w \in Worker : /\ work[w].op \in Answers => links[work[w].link].kind = "deleted"
                         /\ work[w].op \notin {"count", "allowed"}

PersonInv == TypeOK /\ PhotosNamed /\ LinksNamed /\ ErasedLinks

LEMMA InitPerson ==
  ASSUME Init
  PROVE  PersonInv /\ ErasedHoldsNothing
<1>1. 1 \in Texts /\ Scrubbed \in Texts
  BY TextBound DEF Texts, Scrubbed
<1>2. NoBooking \in BookingRow /\ [NoBooking EXCEPT !.kept = TRUE, !.text = 1] \in BookingRow
  BY <1>1 DEF NoBooking, BookingRow
<1>3. bookings \in [Booking -> BookingRow]
  BY <1>2 DEF Init
<1>4. NoLink \in LinkRow /\ NoLink.kind = "none"
  BY DEF NoLink, LinkRow
<1>5. links \in [Link -> LinkRow] /\ work \in [Worker -> Request]
  BY <1>4, IdleTyped DEF Init
<1>6. DataOK /\ begun \in Nat
  BY <1>3, <1>5 DEF Init, DataOK
<1>7. \A w \in Worker : work[w].op = "idle"
  BY DEF Init, Idle
<1>8. ~person.anonymized
  BY DEF Init
<1> QED BY <1>5, <1>6, <1>7, <1>8, TypesSplit
    DEF PersonInv, PhotosNamed, LinksNamed, ErasedLinks, ErasedHoldsNothing, Reads, Answers

(* The erasure is for good, and nothing else erases.                       *)
LEMMA PersonStep ==
  ASSUME DataOK, [Next]_vars
  PROVE  \/ HandleNeighborAnonymize
         \/ person'.anonymized = person.anonymized
<1>1. CASE UNCHANGED vars
  BY <1>1 DEF vars
<1>2. CASE Settles
  BY <1>2 DEF DataOK, Settles, HandleNeighborUpdate, UpdateNeighbor, CompleteYear, DayPasses,
       HandleNeighborArchive, SetNeighborArchived, HandleFieldArchive, HandleFieldDelete, UpdateEntry,
       HandleEntrySignatureDelete, HandleBookingPhotoDelete, IssueInvoice, CancelInvoice
<1>3. CASE Links
  BY <1>3 DEF Links, HandleBelegShareCreate, LinkAges, HandleBelegShareRevoke, HandleStatementShareRevoke
<1>4. ASSUME NEW w \in Worker,
             Opens(w) \/ Visit(w) \/ Books(w) \/ Shares(w) \/ Portal(w) \/ Statement(w)
      PROVE  person' = person
  BY <1>4 DEF Opens, Visit, Books, Shares, Portal, Statement, HandleFieldCreate, HandleStatementShareCreate,
       BookingFieldFromForm, HandleBookingPhotoUpload, HandleEntrySignatureAdd, ResolvePortalShare,
       HandleSharedStatement, CreateField, Abandons, AddEntrySignature, CreateEntry, NextPhoto,
       CreateStatementShare, HandleSharedBeleg, HandleSharedInvoicePDF, Visits, HandlePortalFeedback,
       ValidateFeedback, CreateBelegFeedback, HandleStatementFeedback, LockStatementShare, CountRecent,
       CreateStatementFeedback
<1> QED BY <1>1, <1>2, <1>3, <1>4, NextSplits

LEMMA PhotosNamedStep ==
  ASSUME TypeOK, PhotosNamed, [Next]_vars
  PROVE  PhotosNamed'
<1> SUFFICES ASSUME NEW w \in Worker, work'[w].op = "photos" PROVE work'[w].booking \in Booking
  BY DEF PhotosNamed
<1>1. WorkStep(w)
  BY WorksStep
<1> QED BY <1>1 DEF WorkStep, PhotosNamed

LEMMA LinksNamedStep ==
  ASSUME PersonInv, [Next]_vars
  PROVE  LinksNamed'
<1> SUFFICES ASSUME NEW w \in Worker
             PROVE  /\ work'[w].op \in Reads =>
                         work'[w].link \in Link /\ links'[work'[w].link].kind \in {"invoice", "deleted"}
                    /\ work'[w].op \in Answers =>
                         work'[w].link \in Link /\ links'[work'[w].link].kind \in {"statement", "deleted"}
  BY DEF LinksNamed
<1>1. WorkStep(w)
  BY WorksStep DEF PersonInv
<1>2. \A l \in Link : KindStep(l)
  BY KindsStep, TypesSplit DEF PersonInv
<1>3. /\ work[w].op \in Reads =>
           work[w].link \in Link /\ links[work[w].link].kind \in {"invoice", "deleted"}
      /\ work[w].op \in Answers =>
           work[w].link \in Link /\ links[work[w].link].kind \in {"statement", "deleted"}
  BY DEF PersonInv, LinksNamed
<1>4. CASE work'[w] = work[w]
  BY <1>2, <1>3, <1>4 DEF KindStep
<1>5. CASE work'[w].op \in {"idle", "field", "book", "sign", "share", "photos"}
  BY <1>5 DEF Reads, Answers
<1>6. CASE links' = links /\ work'[w].link \in Link /\ work'[w] # work[w]
           /\ work'[w].op \notin {"idle", "field", "book", "sign", "share", "photos"}
  BY <1>1, <1>3, <1>6 DEF WorkStep, Reads, Answers
<1>7. CASE /\ work'[w] # work[w] /\ ~(links' = links /\ work'[w].link \in Link)
           /\ work'[w].op \notin {"idle", "field", "book", "sign", "share", "photos"}
  <2>1. /\ work'[w].link = work[w].link /\ links' = links
        /\ work[w].op \in Reads \cup Answers
    BY <1>1, <1>7 DEF WorkStep, Reads, Answers
  <2> QED BY <1>3, <1>7, <2>1
<1> QED BY <1>4, <1>5, <1>6, <1>7

LEMMA ErasedLinksStep ==
  ASSUME PersonInv, [Next]_vars
  PROVE  ErasedLinks'
<1>1. CASE HandleNeighborAnonymize
  <2>1. \A l \in Link : links'[l].kind = IF links[l].kind = "none" THEN "none" ELSE "deleted"
    BY <1>1 DEF HandleNeighborAnonymize, AnonymizeNeighbor, NoLink
  <2>2. ASSUME NEW w \in Worker
        PROVE  /\ work'[w].op \in Answers => links'[work'[w].link].kind = "deleted"
               /\ work'[w].op \notin {"count", "allowed"}
    <3>1. work'[w] = IF work[w].op \in {"count", "allowed"} THEN Idle ELSE work[w]
      BY <1>1 DEF HandleNeighborAnonymize, AnonymizeNeighbor
    <3>2. Idle.op \notin Answers
      BY DEF Idle, Answers
    <3>3. work[w].op \in Answers => work[w].link \in Link /\ links[work[w].link].kind # "none"
      BY DEF PersonInv, LinksNamed
    <3> QED BY <2>1, <3>1, <3>2, <3>3 DEF Answers
  <2> QED BY <2>1, <2>2 DEF ErasedLinks
<1>2. CASE ~HandleNeighborAnonymize /\ person'.anonymized
  <2>1. person.anonymized
    BY <1>2, PersonStep, TypesSplit DEF PersonInv
  <2>2. ASSUME NEW l \in Link PROVE links'[l].kind # "invoice"
    <3>1. KindStep(l)
      BY KindsStep, TypesSplit DEF PersonInv
    <3> QED BY <2>1, <3>1 DEF KindStep, PersonInv, ErasedLinks
  <2>3. ASSUME NEW w \in Worker
        PROVE  /\ work'[w].op \in Answers => links'[work'[w].link].kind = "deleted"
               /\ work'[w].op \notin {"count", "allowed"}
    <3>1. WorkStep(w)
      BY WorksStep DEF PersonInv
    <3>2. /\ work[w].op \in Answers => work[w].link \in Link /\ links[work[w].link].kind = "deleted"
          /\ work[w].op \notin {"count", "allowed"}
      BY <2>1 DEF PersonInv, ErasedLinks, LinksNamed
    <3>3. work[w].op \in Answers => KindStep(work[w].link)
      BY <3>2, KindsStep, TypesSplit DEF PersonInv
    <3>4. CASE work'[w] = work[w]
      BY <3>2, <3>3, <3>4 DEF KindStep
    <3>5. CASE work'[w] # work[w] /\ work'[w].op \in Answers
      <4>1. /\ work'[w].link = work[w].link /\ links' = links
            /\ work[w].op = "reading" /\ work'[w].op = "answer"
        BY <2>1, <3>1, <3>2, <3>5 DEF WorkStep, Answers
      <4> QED BY <3>2, <4>1 DEF Answers
    <3> QED BY <3>4, <3>5 DEF Answers
  <2> QED BY <2>2, <2>3 DEF ErasedLinks
<1> QED BY <1>1, <1>2 DEF ErasedLinks

LEMMA PersonInvStep ==
  ASSUME PersonInv, [Next]_vars
  PROVE  PersonInv'
BY StepTyped, PhotosNamedStep, LinksNamedStep, ErasedLinksStep DEF PersonInv

-----------------------------------------------------------------------------
(* An erased neighbor's rows stay empty, table by table.                   *)
LEMMA EmptySettles ==
  ASSUME PersonInv, ErasedHoldsNothing, person.anonymized, Settles
  PROVE  ErasedHoldsNothing'
<1>1. ~LockPersonalDataNeighbor /\ ~LockOpenAccount /\ person.archived /\ ~person.details
  BY DEF ErasedHoldsNothing, LockPersonalDataNeighbor, LockOpenAccount
<1>2. links' = links
  BY DEF Settles, HandleNeighborUpdate, CompleteYear, DayPasses, HandleNeighborArchive, HandleFieldArchive,
       HandleFieldDelete, UpdateEntry, HandleEntrySignatureDelete, HandleBookingPhotoDelete, IssueInvoice,
       CancelInvoice
<1>3. CASE HandleNeighborUpdate \/ CompleteYear \/ DayPasses
  BY <1>1, <1>2, <1>3 DEF HandleNeighborUpdate, UpdateNeighbor, CompleteYear, DayPasses, evidence, portal,
       ErasedHoldsNothing
<1>4. ASSUME NEW a \in BOOLEAN, HandleNeighborArchive(a) PROVE ErasedHoldsNothing'
  <2>1. person' = [person EXCEPT !.archived = a] /\ a = TRUE
    BY <1>1, <1>4 DEF HandleNeighborArchive, SetNeighborArchived
  <2>2. ~person'.details /\ person'.archived
    BY <1>1, <2>1 DEF PersonInv, TypeOK
  <2> QED BY <1>2, <1>4, <2>2 DEF HandleNeighborArchive, evidence, portal, ErasedHoldsNothing
<1>5. CASE \/ \E f \in Field, a \in BOOLEAN : HandleFieldArchive(f, a)
           \/ \E f \in Field : HandleFieldDelete(f)
  BY <1>2, <1>5 DEF HandleFieldArchive, HandleFieldDelete, evidence, portal, ErasedHoldsNothing
<1>6. ASSUME NEW e \in Entry, UpdateEntry(e) \/ HandleEntrySignatureDelete(e) PROVE FALSE
  BY <1>1, <1>6 DEF UpdateEntry, HandleEntrySignatureDelete, DeleteEntrySignature
<1>7. ASSUME NEW b \in Booking, NEW i \in Image, HandleBookingPhotoDelete(b, i) PROVE FALSE
  BY <1>7 DEF HandleBookingPhotoDelete, ErasedHoldsNothing
<1>8. ASSUME NEW k \in Invoice, IssueInvoice(k) \/ CancelInvoice(k) PROVE ErasedHoldsNothing'
  <2>1. CancelInvoice(k)
    BY <1>1, <1>8 DEF IssueInvoice
  <2>2. \A b \in Booking : /\ bookings'[b].text = bookings[b].text
                           /\ bookings'[b].label = bookings[b].label
    <3>1. \A b \in Booking : bookings[b] \in BookingRow
      BY DEF PersonInv, TypeOK, BookingRow
    <3> QED BY <2>1, <3>1 DEF CancelInvoice, BookingRow
  <2> QED BY <1>2, <2>1, <2>2 DEF CancelInvoice, evidence, portal, ErasedHoldsNothing
<1> QED BY <1>3, <1>4, <1>5, <1>6, <1>7, <1>8 DEF Settles

LEMMA EmptyLinks ==
  ASSUME PersonInv, ErasedHoldsNothing, person.anonymized, Links \/ (\E w \in Worker : Shares(w)),
         ErasedLinks', person'.anonymized
  PROVE  ErasedHoldsNothing'
<1>1. \A l \in Link : links'[l].kind # "invoice"
  BY DEF ErasedLinks
<1>2. events' = {} /\ feedback' = {} /\ answers' = {}
  <2>1. events = {} /\ feedback = {} /\ answers = {}
    BY DEF ErasedHoldsNothing
  <2>2. ASSUME NEW S, NEW rest, Removed(S, rest) PROVE events' = {} /\ feedback' = {} /\ answers' = {}
    BY <2>1, <2>2 DEF Removed
  <2>3. CASE \E w \in Worker : Shares(w)
    BY <2>2, <2>3 DEF Shares, CreateStatementShare
  <2>4. CASE \E k \in Invoice, l \in Link : HandleBelegShareCreate(l, k)
    BY <2>2, <2>4 DEF HandleBelegShareCreate, CreateInvoiceBelegShare
  <2>5. ASSUME NEW l \in Link, LinkAges(l) \/ HandleBelegShareRevoke(l) \/ HandleStatementShareRevoke(l)
        PROVE  events' = {} /\ feedback' = {} /\ answers' = {}
    <3>1. CASE LinkAges(l)
      BY <2>1, <3>1 DEF LinkAges, portal
    <3>2. CASE HandleBelegShareRevoke(l)
      BY <2>2, <3>2 DEF HandleBelegShareRevoke, RevokeInvoiceBelegShare
    <3>3. CASE HandleStatementShareRevoke(l)
      BY <2>2, <3>3 DEF HandleStatementShareRevoke, RevokeStatementShare
    <3> QED BY <2>5, <3>1, <3>2, <3>3
  <2> QED BY <2>3, <2>4, <2>5 DEF Links
<1>3. UNCHANGED <<person, bookings, evidence>>
  BY DEF Links, Shares, HandleBelegShareCreate, CreateStatementShare, LinkAges, HandleBelegShareRevoke,
       HandleStatementShareRevoke
<1> QED BY <1>1, <1>2, <1>3 DEF evidence, ErasedHoldsNothing

(* What a request writes about an erased neighbor is refused.              *)
LEMMA EmptyWorks ==
  ASSUME PersonInv, ErasedHoldsNothing, person.anonymized, NEW w \in Worker,
         Opens(w) \/ Visit(w) \/ Books(w) \/ Portal(w) \/ Statement(w)
  PROVE  ErasedHoldsNothing'
<1>1. ~LockOpenAccount
  BY DEF LockOpenAccount
<1>2. UNCHANGED <<person, links>>
  BY DEF Opens, Visit, Books, Portal, Statement, HandleFieldCreate, HandleStatementShareCreate,
       BookingFieldFromForm, HandleBookingPhotoUpload, HandleEntrySignatureAdd, ResolvePortalShare,
       HandleSharedStatement, CreateField, Abandons, AddEntrySignature, CreateEntry, NextPhoto,
       HandleSharedBeleg, HandleSharedInvoicePDF, Visits, HandlePortalFeedback,
       ValidateFeedback, CreateBelegFeedback, HandleStatementFeedback, LockStatementShare, CountRecent,
       CreateStatementFeedback
<1>3. CASE Opens(w) \/ Visit(w)
  BY <1>2, <1>3 DEF Opens, Visit, HandleFieldCreate, HandleStatementShareCreate, BookingFieldFromForm,
       HandleBookingPhotoUpload, HandleEntrySignatureAdd, ResolvePortalShare, HandleSharedStatement,
       evidence, portal, ErasedHoldsNothing
<1>4. CASE Books(w)
  BY <1>1, <1>2, <1>4 DEF Books, CreateField, Abandons, AddEntrySignature, CreateEntry, NextPhoto,
       AddLedgerPhoto, LockLedgerPhotoBooking, AddEntryPhoto, evidence, portal, ErasedHoldsNothing
<1>5. CASE Portal(w)
  <2>1. work[w].op \in Reads => ~LinkKept(work[w].link)
    BY DEF PersonInv, LinksNamed, ErasedLinks, LinkKept
  <2> QED BY <1>2, <1>5, <2>1 DEF Portal, HandleSharedBeleg, HandleSharedInvoicePDF, Visits,
       RecordBelegShareEvent, HandlePortalFeedback, ValidateFeedback, CreateBelegFeedback, Reads,
       evidence, portal, ErasedHoldsNothing
<1>6. CASE Statement(w)
  <2>1. work[w].op # "allowed"
    BY DEF PersonInv, ErasedLinks
  <2> QED BY <1>2, <1>6, <2>1 DEF Statement, HandleStatementFeedback, LockStatementShare, CountRecent,
       CreateStatementFeedback, evidence, portal, ErasedHoldsNothing
<1> QED BY <1>3, <1>4, <1>5, <1>6

LEMMA ErasureEmpties ==
  ASSUME DataOK, HandleNeighborAnonymize
  PROVE  ErasedHoldsNothing'
<1> USE DEF HandleNeighborAnonymize, AnonymizeNeighbor
<1>1. \A b \in Booking : bookings'[b].text = Scrubbed /\ bookings'[b].label = FALSE
  <2>1. \A b \in Booking : bookings[b] \in BookingRow
    BY DEF DataOK
  <2> QED BY <2>1 DEF BookingRow
<1>2. \A l \in Link : links'[l].kind # "invoice"
  BY DEF NoLink
<1> QED BY <1>1, <1>2 DEF ErasedHoldsNothing

LEMMA ErasedStep ==
  ASSUME PersonInv, ErasedHoldsNothing, [Next]_vars
  PROVE  ErasedHoldsNothing'
<1>1. DataOK
  BY TypesSplit DEF PersonInv
<1>2. CASE HandleNeighborAnonymize
  BY <1>1, <1>2, ErasureEmpties
<1>3. CASE UNCHANGED vars
  BY <1>3 DEF vars, ErasedHoldsNothing
<1>4. CASE ~HandleNeighborAnonymize /\ ~UNCHANGED vars /\ person'.anonymized
  <2>1. person.anonymized
    BY <1>1, <1>4, PersonStep
  <2>2. ErasedLinks'
    BY ErasedLinksStep
  <2> QED BY <1>4, <2>1, <2>2, EmptySettles, EmptyLinks, EmptyWorks, NextSplits
<1> QED BY <1>2, <1>3, <1>4 DEF ErasedHoldsNothing

-----------------------------------------------------------------------------
(* The lock of a statement link has one holder, who has seen room for one  *)
(* answer more.                                                            *)
LinkLocked == {"count", "allowed"}

LockHeld ==
  \A v, w \in Worker :
    work[v].op \in LinkLocked /\ work[w].op \in LinkLocked /\ work[v].link = work[w].link => v = w

AllowedRoom ==
  \A w \in Worker : work[w].op = "allowed" => recent[work[w].link] < FeedbackPerDay

RecentStep(l) ==
  \/ recent'[l] = recent[l] \/ recent'[l] = 0
  \/ \E w \in Worker : /\ work[w].op = "allowed" /\ work[w].link = l
                       /\ recent'[l] = recent[l] + 1 /\ work'[w].op = "idle"

LEMMA RecentsStep ==
  ASSUME TypeOK, [Next]_vars, NEW l \in Link
  PROVE  RecentStep(l)
<1>1. CASE UNCHANGED vars
  BY <1>1 DEF vars, RecentStep
<1>2. CASE HandleNeighborAnonymize
  BY <1>2 DEF HandleNeighborAnonymize, AnonymizeNeighbor, RecentStep
<1>3. CASE Settles
  <2>1. recent' = recent \/ recent' = [x \in Link |-> 0]
    BY <1>3 DEF Settles, HandleNeighborUpdate, CompleteYear, DayPasses, HandleNeighborArchive,
         HandleFieldArchive,
         HandleFieldDelete, UpdateEntry, HandleEntrySignatureDelete, HandleBookingPhotoDelete, IssueInvoice,
         CancelInvoice, portal
  <2> QED BY <2>1 DEF RecentStep
<1>4. CASE Links \/ \E w \in Worker : Shares(w)
  <2>1. UNCHANGED recent \/ \E S, rest : Removed(S, rest)
    BY <1>4 DEF Links, Shares, HandleBelegShareCreate, CreateInvoiceBelegShare, CreateStatementShare,
         LinkAges,
         HandleBelegShareRevoke, RevokeInvoiceBelegShare, HandleStatementShareRevoke,
         RevokeStatementShare, portal
  <2> QED BY <2>1 DEF Removed, RecentStep
<1>5. ASSUME NEW w \in Worker, Opens(w) \/ Visit(w) \/ Books(w) \/ Portal(w) PROVE RecentStep(l)
  <2>1. recent' = recent
    BY <1>5 DEF Opens, Visit, Books, Portal, HandleFieldCreate, HandleStatementShareCreate,
         BookingFieldFromForm, HandleBookingPhotoUpload, HandleEntrySignatureAdd, ResolvePortalShare,
         HandleSharedStatement, CreateField, Abandons, AddEntrySignature, CreateEntry, NextPhoto,
         HandleSharedBeleg, HandleSharedInvoicePDF, Visits, HandlePortalFeedback,
         ValidateFeedback, CreateBelegFeedback, portal
  <2> QED BY <2>1 DEF RecentStep
<1>6. ASSUME NEW w \in Worker, Statement(w) PROVE RecentStep(l)
  <2>1. CASE ~CreateStatementFeedback(w)
    BY <1>6, <2>1 DEF Statement, HandleStatementFeedback, LockStatementShare, CountRecent, portal,
         RecentStep
  <2>2. CASE CreateStatementFeedback(w)
    <3>1. work'[w].op = "idle"
      BY <2>2, EndsWork DEF CreateStatementFeedback
    <3>2. recent' = [recent EXCEPT ![work[w].link] = @ + 1] /\ work[w].op = "allowed"
      BY <2>2 DEF CreateStatementFeedback
    <3>3. recent'[l] = recent[l] \/ (work[w].link = l /\ recent'[l] = recent[l] + 1)
      BY <3>2 DEF TypeOK
    <3> QED BY <3>1, <3>2, <3>3 DEF RecentStep
  <2> QED BY <2>1, <2>2
<1> QED BY <1>1, <1>2, <1>3, <1>4, <1>5, <1>6, NextSplits

(* A step of one request leaves the others where they are, or ends them.   *)
LEMMA OneWorks ==
  ASSUME TypeOK, PhotosNamed, [Next]_vars, NEW v \in Worker, NEW w \in Worker, v # w
  PROVE  work'[v] = work[v] \/ work'[w] = work[w] \/ work'[v].op = "idle"
<1>1. CASE UNCHANGED vars
  BY <1>1 DEF vars
<1>2. CASE HandleNeighborAnonymize
  BY <1>2 DEF HandleNeighborAnonymize, AnonymizeNeighbor, Idle
<1>3. CASE Settles \/ Links
  <2>1. UNCHANGED busy
    BY <1>3 DEF Settles, HandleNeighborUpdate, CompleteYear, DayPasses, HandleNeighborArchive,
         HandleFieldArchive,
         HandleFieldDelete, UpdateEntry, HandleEntrySignatureDelete, HandleBookingPhotoDelete, IssueInvoice,
         CancelInvoice, Links, HandleBelegShareCreate, LinkAges, HandleBelegShareRevoke,
         HandleStatementShareRevoke
  <2> QED BY <2>1 DEF busy
<1>4. ASSUME NEW u \in Worker,
             Opens(u) \/ Visit(u) \/ Books(u) \/ Shares(u) \/ Portal(u) \/ Statement(u)
      PROVE  work'[v] = work[v] \/ work'[w] = work[w]
  <2>1. OnlyWorks(u)
    BY <1>4, OpensWork, VisitWork, BooksWork, ReadsWork
  <2> QED BY <2>1 DEF OnlyWorks
<1> QED BY <1>1, <1>2, <1>3, <1>4, NextSplits

(* Who takes the lock finds it free.                                       *)
LEMMA LockTaken ==
  ASSUME TypeOK, PhotosNamed, [Next]_vars, NEW w \in Worker, work'[w].op \in LinkLocked
  PROVE  /\ work'[w].link = work[w].link
         /\ \/ work[w].op \in LinkLocked /\ work'[w] = work[w]
            \/ work[w].op = "count" /\ work'[w].op = "allowed" /\ recent[work[w].link] < FeedbackPerDay
            \/ work[w].op = "answer" /\ work'[w].op = "count" /\ LinkLockFree(work[w].link)
<1>1. WorkStep(w)
  BY WorksStep
<1> QED BY <1>1 DEF WorkStep, LinkLocked

LEMMA LockHeldStep ==
  ASSUME TypeOK, PhotosNamed, LockHeld, [Next]_vars
  PROVE  LockHeld'
<1> SUFFICES ASSUME NEW v \in Worker, NEW w \in Worker, v # w,
                    work'[v].op \in LinkLocked, work'[w].op \in LinkLocked, work'[v].link = work'[w].link
             PROVE  FALSE
  BY DEF LockHeld
<1>1. work[v].link = work[w].link
  BY LockTaken
<1>2. CASE work[v].op \in LinkLocked /\ work[w].op \in LinkLocked
  BY <1>1, <1>2 DEF LockHeld
<1>3. CASE work[v].op \notin LinkLocked
  <2>1. work[v].op = "answer" /\ work'[v] # work[v] /\ LinkLockFree(work[v].link)
    BY <1>3, LockTaken DEF LinkLocked
  <2>2. work'[w] = work[w]
    BY <2>1, OneWorks DEF LinkLocked
  <2> QED BY <1>1, <2>1, <2>2 DEF LinkLockFree, LinkLocked
<1>4. CASE work[w].op \notin LinkLocked
  <2>1. work[w].op = "answer" /\ work'[w] # work[w] /\ LinkLockFree(work[w].link)
    BY <1>4, LockTaken DEF LinkLocked
  <2>2. work'[v] = work[v]
    BY <2>1, OneWorks DEF LinkLocked
  <2> QED BY <1>1, <2>1, <2>2 DEF LinkLockFree, LinkLocked
<1> QED BY <1>2, <1>3, <1>4

LEMMA AllowedRoomStep ==
  ASSUME PersonInv, LockHeld, AllowedRoom, [Next]_vars
  PROVE  AllowedRoom'
<1> SUFFICES ASSUME NEW w \in Worker, work'[w].op = "allowed"
             PROVE  recent'[work'[w].link] < FeedbackPerDay
  BY DEF AllowedRoom
<1> DEFINE l == work[w].link
<1>1. TypeOK /\ PhotosNamed
  BY DEF PersonInv
<1>2. work'[w].link = l /\ work[w].op \in LinkLocked
  BY <1>1, LockTaken DEF LinkLocked
<1>3. l \in Link /\ recent[l] \in Nat
  BY <1>2 DEF LinkLocked, Answers, PersonInv, LinksNamed, TypeOK
<1>4. recent[l] < FeedbackPerDay
  BY <1>1, LockTaken DEF LinkLocked, AllowedRoom
<1>5. RecentStep(l)
  BY <1>1, <1>3, RecentsStep
<1>6. recent'[l] = recent[l] \/ recent'[l] = 0
  <2>1. ASSUME NEW v \in Worker, work[v].op = "allowed", work[v].link = l, work'[v].op = "idle"
        PROVE  FALSE
    <3>1. v = w
      BY <1>2, <2>1 DEF LockHeld, LinkLocked
    <3> QED BY <2>1, <3>1
  <2> QED BY <1>5, <2>1 DEF RecentStep
<1> QED BY <1>2, <1>3, <1>4, <1>6, AllowanceNat

LEMMA AllowanceStep ==
  ASSUME PersonInv, AllowedRoom, AnswersWithinAllowance, [Next]_vars
  PROVE  AnswersWithinAllowance'
<1> SUFFICES ASSUME NEW l \in Link PROVE recent'[l] <= FeedbackPerDay
  BY DEF AnswersWithinAllowance
<1>1. RecentStep(l) /\ recent[l] \in Nat /\ recent[l] <= FeedbackPerDay
  BY RecentsStep DEF PersonInv, TypeOK, AnswersWithinAllowance
<1> QED BY <1>1, AllowanceNat DEF RecentStep, AllowedRoom

-----------------------------------------------------------------------------
LEMMA PersonSafe == Spec => []PersonInv
<1>1. Init => PersonInv
  BY InitPerson
<1>2. PersonInv /\ [Next]_vars => PersonInv'
  BY PersonInvStep
<1> QED BY <1>1, <1>2, PTL DEF Spec

(* Every row of every table keeps its shape, whatever the requests, the    *)
(* erasure and the visitors interleave.                                    *)
THEOREM TypeCorrect == Spec => []TypeOK
<1>1. PersonInv => TypeOK
  BY DEF PersonInv
<1> QED BY <1>1, PersonSafe, PTL

(* Once a neighbor is erased nothing personal stands beside the amounts,   *)
(* and no request that was under way brings any of it back: writers judge  *)
(* the row under its lock, visitors meet the link's foreign key            *)
(* (AnonymizeNeighbor, privacy_guard.go).                                  *)
THEOREM ErasedForGood == Spec => []ErasedHoldsNothing
<1>1. Init => ErasedHoldsNothing
  BY InitPerson
<1>2. PersonInv /\ ErasedHoldsNothing /\ [Next]_vars => ErasedHoldsNothing'
  BY ErasedStep
<1> QED BY <1>1, <1>2, PersonSafe, PTL DEF Spec

(* No link ever sends more than its allowance within a day: the count is   *)
(* read and the answer inserted under the link's lock, which one request   *)
(* holds at a time (CreateStatementFeedback, ErrFeedbackLimit).            *)
THEOREM AllowanceKept == Spec => []AnswersWithinAllowance
<1> DEFINE AllowanceInv == LockHeld /\ AllowedRoom /\ AnswersWithinAllowance
<1>1. Init => AllowanceInv
  BY AllowanceNat DEF Init, Idle, LockHeld, AllowedRoom, AnswersWithinAllowance, LinkLocked
<1>2. PersonInv /\ AllowanceInv /\ [Next]_vars => AllowanceInv'
  BY LockHeldStep, AllowedRoomStep, AllowanceStep DEF PersonInv
<1>3. Spec => []AllowanceInv
  BY <1>1, <1>2, PersonSafe, PTL DEF Spec
<1>4. AllowanceInv => AnswersWithinAllowance
  OBVIOUS
<1> QED BY <1>3, <1>4, PTL

-----------------------------------------------------------------------------
(*                 Bookings on their way in: OfflineReplay                 *)

(* What a page, the queue or a request holds of one booking agrees: the    *)
(* keys name it, its author and its form.                                  *)
Held == queue \cup UNION {form[t] : t \in Tabs}
Carriers == Held \cup requests

ItemFields == {"id", "form", "user", "data", "rejection", "states", "soft"}
RequestFields == {"n", "tab", "from", "id", "form", "data", "cookie", "token", "pc", "left", "states"}
EntryFields == {"key", "half", "fp", "by", "linked", "invoiced", "n"}
SenderFields == {"pc", "todo", "item", "retry"}

Formed(x) ==
  /\ x.id \subseteq Keys /\ x.id # {}
  /\ x.form # "quick" => \A k, l \in x.id : k = l
  /\ \A k \in x.id : x.data[k] \in Contents /\ Offered(x.form, x.data[k])

Tables ==
  /\ DOMAIN sender = Tabs /\ \A t \in Tabs : DOMAIN sender[t] = SenderFields
  /\ DOMAIN form = Tabs
  /\ DOMAIN pages = Tabs
  /\ \A e \in entries : DOMAIN e = EntryFields

ItemsHeld == \A i \in Held :
  /\ DOMAIN i = ItemFields /\ Formed(i)
  /\ \A k \in i.id : author[k] = i.user /\ author[k] # Nobody

RequestsHeld == \A r \in requests :
  /\ DOMAIN r = RequestFields /\ Formed(r) /\ DOMAIN r.states = r.id
  /\ \A k \in r.id : author[k] = r.token /\ author[k] # Nobody
  /\ r.pc # "admit" => r.cookie = r.token
  /\ r.pc \in {"gate", "rows"} => r.form = "quick"

\* Whatever shares a key is the same booking; an item is held once.
SameBooking == \A x, y \in Carriers : x.id \cap y.id # {} => x.id = y.id /\ x.form = y.form

ItemsApart ==
  /\ \A i, j \in queue : i.id = j.id => i = j
  /\ \A t \in Tabs : \A i \in form[t], j \in queue : i.id # j.id
  /\ \A t, u \in Tabs : \A i \in form[t], j \in form[u] : i.id = j.id => t = u /\ i = j

\* Rows are their author's; what is stored was booked; a booking of the
\* shared form has its helpers with it.
BookedHeld == \A b \in booked :
  /\ b.key \in Keys /\ b.by = author[b.key] /\ author[b.key] # Nobody
  /\ b.half # "ledger" => b.fp.way = "out"

BookedAs(k, half, fp) == \E b \in booked : b.key = k /\ b.half = half /\ b.fp = fp
StoredBooked == \A e \in entries : BookedAs(e.key, e.half, e.fp)

HelpersBooked == \A x \in Carriers, b \in booked :
  x.form = "shared" /\ b.key \in x.id /\ b.half = "main" /\ b.fp.helper # "none"
    => BookedAs(b.key, HelperHalf("shared", b.fp), b.fp)

RowSettled(f, c, k) ==
  IF c.way = "in" THEN BookedAs(k, "ledger", c)
  ELSE \A half \in HalvesOf(f, c) : BookedAs(k, half, Fingerprint(f, c, half))

RowsSettled == \A r \in requests : \A k \in r.id :
  r.states[k] = "saved" => RowSettled(r.form, r.data[k], k)

\* One page at a time sends from the queue.  Its item stays there, as it was
\* sent, until the one answer; "saved" means every row of it was stored.
OneFlush == \A t, u \in Tabs : Busy(t) /\ Busy(u) => t = u
SentQueued == \A t \in Tabs :
  IF sender[t].pc = "sent" THEN InQueue(sender[t].item) ELSE sender[t].item = {}

Sent(x) == x.tab \in Tabs /\ sender[x.tab].pc = "sent" /\ sender[x.tab].item = x.id
Awaited(r) == r.from = "flush" /\ r.tab # Nobody

RequestsSent == \A r \in requests : Awaited(r) =>
  /\ Sent(r)
  /\ \A i \in queue : i.id = r.id => i.form = r.form /\ i.data = r.data
RepliesSent == \A a \in replies : a.tab # Nobody /\ (a.from = "flush" =>
  /\ Sent(a)
  /\ a.says = "saved" => \A i \in queue : i.id = a.id => Acknowledged(i))
OneAnswer ==
  /\ \A r, s \in requests : Awaited(r) /\ Awaited(s) /\ r.tab = s.tab => r = s
  /\ \A r \in requests, a \in replies : Awaited(r) /\ a.from = "flush" => r.tab # a.tab
  /\ \A a, b \in replies : a.from = "flush" /\ b.from = "flush" /\ a.tab = b.tab => a = b

OfflineInv ==
  /\ Tables /\ ItemsHeld /\ RequestsHeld /\ SameBooking /\ ItemsApart
  /\ BookedHeld /\ StoredBooked /\ HelpersBooked /\ RowsSettled
  /\ OneFlush /\ SentQueued /\ RequestsSent /\ RepliesSent /\ OneAnswer

-----------------------------------------------------------------------------
(* What a row of a booking holds, and what its retry identity keeps.       *)
LEMMA InsertFields ==
  ASSUME NEW r, NEW k, NEW c, NEW half
  PROVE  /\ DOMAIN Insert(r, k, c, half) = EntryFields
         /\ Insert(r, k, c, half).key = k /\ Insert(r, k, c, half).half = half
         /\ Insert(r, k, c, half).fp = Fingerprint(r.form, c, half)
         /\ Insert(r, k, c, half).by = r.cookie
BY DEF Insert, EntryFields

LEMMA FingerprintKeeps ==
  ASSUME NEW c \in Contents, NEW f, NEW half
  PROVE  /\ Fingerprint(f, c, half).way = c.way
         /\ f # "quick" \/ half # "main" => Fingerprint(f, c, half) = c
BY ContentsShape DEF Fingerprint

(* What was booked stays booked.                                           *)
LEMMA BookedGrows ==
  ASSUME booked \subseteq booked'
  PROVE  /\ \A k, half, fp : BookedAs(k, half, fp) => BookedAs(k, half, fp)'
         /\ \A f, c, k : RowSettled(f, c, k) => RowSettled(f, c, k)'
         /\ \A i : Acknowledged(i) => Acknowledged(i)'
<1>1. \A k, half, fp : BookedAs(k, half, fp) => BookedAs(k, half, fp)'
  BY DEF BookedAs
<1>2. \A f, c, k : RowSettled(f, c, k) => RowSettled(f, c, k)'
  BY <1>1 DEF RowSettled
<1>3. \A i : Acknowledged(i) => Acknowledged(i)'
  BY DEF Acknowledged
<1> QED BY <1>1, <1>2, <1>3

LEMMA AcknowledgedRows ==
  ASSUME NEW i, \A k \in i.id : RowSettled(i.form, i.data[k], k)
  PROVE  Acknowledged(i)
BY DEF Acknowledged, RowSettled, BookedAs

(* The item of a queue that an id names.                                   *)
LEMMA StoredIs ==
  ASSUME NEW S, InQueue(S)
  PROVE  Stored(S) \in queue /\ Stored(S).id = S
BY DEF Stored, InQueue

LEMMA OneKey ==
  ASSUME NEW S \in SUBSET Keys, Cardinality(S) = 1
  PROVE  \A k, l \in S : k = l
<1>1. IsFiniteSet(S)
  BY KeysFinite, FS_Subset
<1> QED BY <1>1, FS_Singleton

-----------------------------------------------------------------------------
(* What one request writes, and how it goes on or is answered.             *)
Writes(r) ==
  /\ booked \subseteq booked'
  /\ \A b \in booked' \ booked :
       /\ b.key \in r.id /\ b.by = author[b.key]
       /\ b.half # "ledger" => b.fp.way = "out"
       /\ r.form = "shared" /\ b.half = "main" /\ b.fp.helper # "none"
            => BookedAs(b.key, HelperHalf("shared", b.fp), b.fp)'
  /\ \A e \in entries' : DOMAIN e = EntryFields /\ BookedAs(e.key, e.half, e.fp)'

Continues(s, r) ==
  /\ DOMAIN s = RequestFields
  /\ s.tab = r.tab /\ s.from = r.from /\ s.id = r.id /\ s.form = r.form /\ s.data = r.data
  /\ s.cookie = r.cookie /\ s.token = r.token
  /\ s.pc # "admit" => s.cookie = s.token
  /\ s.pc \in {"gate", "rows"} => s.form = "quick"
  /\ DOMAIN s.states = s.id

Goes(r) == \E s :
  /\ requests' = (requests \ {r}) \cup {s} /\ replies' = replies
  /\ Continues(s, r)
  /\ \A k \in s.id : s.states[k] = "saved" => RowSettled(s.form, s.data[k], k)'

Answered(r) ==
  /\ requests' = requests \ {r}
  /\ \/ replies' = replies
     \/ r.tab # Nobody /\ \E a :
          /\ replies' = replies \cup {a}
          /\ a.tab = r.tab /\ a.from = r.from /\ a.id = r.id
          /\ a.says = "saved" => \A k \in r.id : RowSettled(r.form, r.data[k], k)'

LEMMA ServedRows ==
  ASSUME OfflineInv, NEW r \in requests, UNCHANGED client, Writes(r), Goes(r) \/ Answered(r)
  PROVE  /\ Tables' /\ ItemsHeld' /\ RequestsHeld' /\ SameBooking' /\ ItemsApart'
         /\ BookedHeld' /\ StoredBooked' /\ HelpersBooked' /\ RowsSettled'
<1>1. UNCHANGED <<queue, pages, form, sender, author>>
  BY DEF client
<1>2. Tables' /\ ItemsHeld' /\ ItemsApart' /\ Held' = Held
  BY <1>1 DEF OfflineInv, Tables, ItemsHeld, ItemsApart, Held, Writes, Formed
<1>3. ASSUME NEW x \in requests'
      PROVE  x \in requests \/ Continues(x, r)
  BY <1>3 DEF Goes, Answered
<1>4. ASSUME NEW x \in requests'
      PROVE  /\ DOMAIN x = RequestFields /\ Formed(x) /\ DOMAIN x.states = x.id
             /\ \A k \in x.id : author[k] = x.token /\ author[k] # Nobody
             /\ x.pc # "admit" => x.cookie = x.token
             /\ x.pc \in {"gate", "rows"} => x.form = "quick"
  <2>1. CASE x \in requests
    BY <2>1 DEF OfflineInv, RequestsHeld
  <2>2. CASE Continues(x, r)
    BY <2>2 DEF OfflineInv, RequestsHeld, Continues, Formed
  <2> QED BY <1>3, <1>4, <2>1, <2>2
<1>5. RequestsHeld'
  BY <1>1, <1>4 DEF RequestsHeld, Formed
<1>6. ASSUME NEW x \in Carriers'
      PROVE  \E y \in Carriers : y.id = x.id /\ y.form = x.form
  BY <1>2, <1>3 DEF Carriers, Continues
<1>7. SameBooking'
  BY <1>6 DEF SameBooking, OfflineInv
<1>8. BookedHeld'
  <2>1. \A k \in r.id : k \in Keys /\ author[k] # Nobody
    BY DEF OfflineInv, RequestsHeld, Formed
  <2> QED BY <1>1, <2>1 DEF Writes, BookedHeld, OfflineInv
<1>9. StoredBooked'
  BY DEF Writes, StoredBooked
<1>10. HelpersBooked'
  <2>1. SUFFICES ASSUME NEW x \in Carriers', NEW b \in booked', x.form = "shared", b.key \in x.id,
                        b.half = "main", b.fp.helper # "none"
                 PROVE  BookedAs(b.key, HelperHalf("shared", b.fp), b.fp)'
    BY DEF HelpersBooked, HelperHalf
  <2>2. PICK y \in Carriers : y.id = x.id /\ y.form = x.form
    BY <1>6
  <2>3. CASE b \in booked
    <3>1. BookedAs(b.key, HelperHalf("shared", b.fp), b.fp)
      BY <2>1, <2>2, <2>3 DEF OfflineInv, HelpersBooked
    <3> QED BY <3>1, BookedGrows DEF Writes
  <2>4. CASE b \notin booked
    <3>1. b.key \in r.id
      BY <2>4 DEF Writes
    <3>2. r.form = "shared"
      BY <2>1, <2>2, <3>1 DEF OfflineInv, SameBooking, Carriers
    <3> QED BY <2>1, <2>4, <3>2 DEF Writes
  <2> QED BY <2>3, <2>4
<1>11. RowsSettled'
  <2>1. SUFFICES ASSUME NEW x \in requests', NEW k \in x.id, x.states[k] = "saved"
                 PROVE  RowSettled(x.form, x.data[k], k)'
    BY DEF RowsSettled
  <2>2. CASE x \in requests
    <3>1. RowSettled(x.form, x.data[k], k)
      BY <2>1, <2>2 DEF OfflineInv, RowsSettled
    <3> QED BY <3>1, BookedGrows DEF Writes
  <2>3. CASE x \notin requests
    BY <2>1, <2>3 DEF Goes, Answered
  <2> QED BY <2>2, <2>3
<1> QED BY <1>2, <1>5, <1>7, <1>8, <1>9, <1>10, <1>11

LEMMA ServedFlush ==
  ASSUME OfflineInv, NEW r \in requests, UNCHANGED client, Writes(r), Goes(r) \/ Answered(r)
  PROVE  OneFlush' /\ SentQueued' /\ RequestsSent' /\ RepliesSent' /\ OneAnswer'
<1>1. UNCHANGED <<queue, pages, form, sender, author>>
  BY DEF client
<1>2. OneFlush' /\ SentQueued'
  BY <1>1 DEF OfflineInv, OneFlush, SentQueued, Busy, InQueue
<1>3. ASSUME NEW x \in requests'
      PROVE  x \in requests \/ Continues(x, r)
  BY <1>3 DEF Goes, Answered
<1>4. RequestsSent'
  <2>1. SUFFICES ASSUME NEW x \in requests', Awaited(x)
                 PROVE  Sent(x) /\ \A i \in queue : i.id = x.id => i.form = x.form /\ i.data = x.data
    BY <1>1 DEF RequestsSent, Sent, Awaited
  <2> QED BY <1>3, <2>1 DEF OfflineInv, RequestsSent, Sent, Awaited, Continues
<1>5. ASSUME NEW i, Acknowledged(i) PROVE Acknowledged(i)'
  BY <1>5, BookedGrows DEF Writes
<1>6. RepliesSent'
  <2>1. SUFFICES ASSUME NEW a \in replies'
                 PROVE  a.tab # Nobody /\ (a.from = "flush" =>
                          /\ Sent(a)
                          /\ a.says = "saved" => \A i \in queue : i.id = a.id => Acknowledged(i)')
    BY <1>1 DEF RepliesSent, Sent
  <2>2. CASE a \in replies
    BY <1>5, <2>2 DEF OfflineInv, RepliesSent
  <2>3. CASE a \notin replies
    <3>1. /\ r.tab # Nobody /\ a.tab = r.tab /\ a.from = r.from /\ a.id = r.id
          /\ a.says = "saved" => \A k \in r.id : RowSettled(r.form, r.data[k], k)'
      BY <2>1, <2>3 DEF Goes, Answered
    <3>2. a.from = "flush" => Sent(a) /\ \A i \in queue : i.id = a.id => i.form = r.form /\ i.data = r.data
      BY <3>1 DEF OfflineInv, RequestsSent, Awaited, Sent
    <3>3. ASSUME a.from = "flush", a.says = "saved", NEW i \in queue, i.id = a.id
          PROVE  Acknowledged(i)'
      BY <3>1, <3>2, <3>3 DEF Acknowledged, RowSettled, BookedAs
    <3> QED BY <3>1, <3>2, <3>3
  <2> QED BY <2>2, <2>3
<1>7. OneAnswer'
  <2>1. CASE Goes(r)
    <3>1. PICK s : /\ requests' = (requests \ {r}) \cup {s} /\ replies' = replies
                   /\ s.tab = r.tab /\ s.from = r.from
      BY <2>1 DEF Goes, Continues
    <3> QED BY <3>1 DEF OfflineInv, OneAnswer, Awaited
  <2>2. CASE Answered(r)
    <3>1. CASE replies' = replies
      BY <2>2, <3>1 DEF OfflineInv, OneAnswer, Answered
    <3>2. CASE replies' # replies
      <4>1. PICK a : /\ replies' = replies \cup {a} /\ r.tab # Nobody
                     /\ a.tab = r.tab /\ a.from = r.from
        BY <2>2, <3>2 DEF Answered
      <4>2. requests' = requests \ {r}
        BY <2>2 DEF Answered
      <4> QED BY <4>1, <4>2 DEF OfflineInv, OneAnswer, Awaited
    <3> QED BY <3>1, <3>2
  <2> QED BY <2>1, <2>2
<1> QED BY <1>2, <1>4, <1>6, <1>7

LEMMA ServeStep ==
  ASSUME OfflineInv, NEW r \in requests, UNCHANGED client, Writes(r), Goes(r) \/ Answered(r)
  PROVE  OfflineInv'
BY ServedRows, ServedFlush DEF OfflineInv

-----------------------------------------------------------------------------
(* Each step of a request: what it writes and how it goes on.              *)
LEMMA ReplyAnswers ==
  ASSUME NEW r, NEW says, NEW states, Reply(r, says, states),
         says = "saved" => \A k \in r.id : RowSettled(r.form, r.data[k], k)'
  PROVE  Answered(r)
<1>1. CASE r.tab = Nobody
  BY <1>1 DEF Reply, Answered
<1>2. CASE r.tab # Nobody
  <2> DEFINE a == [tab |-> r.tab, from |-> r.from, id |-> r.id, says |-> says, states |-> states]
  <2>1. a.tab = r.tab /\ a.from = r.from /\ a.id = r.id /\ a.says = says
    OBVIOUS
  <2>2. replies' = replies \cup {a} /\ requests' = requests \ {r}
    BY <1>2 DEF Reply
  <2> HIDE DEF a
  <2> QED BY <1>2, <2>1, <2>2 DEF Answered
<1> QED BY <1>1, <1>2

LEMMA WritesNothing ==
  ASSUME OfflineInv, NEW r, UNCHANGED <<entries, booked>>
  PROVE  Writes(r)
BY DEF Writes, OfflineInv, Tables, StoredBooked, BookedAs

LEMMA GotoGoes ==
  ASSUME OfflineInv, NEW r \in requests, NEW pc, Goto(r, pc), booked \subseteq booked',
         pc # "admit" => r.cookie = r.token, pc \in {"gate", "rows"} => r.form = "quick"
  PROVE  Goes(r)
<1> DEFINE s == [r EXCEPT !.pc = pc]
<1>1. DOMAIN r = RequestFields /\ DOMAIN r.states = r.id
  BY DEF OfflineInv, RequestsHeld
<1>2. Continues(s, r) /\ s.states = r.states
  BY <1>1 DEF Continues, RequestFields
<1>3. requests' = (requests \ {r}) \cup {s} /\ replies' = replies
  BY DEF Goto
<1>4. \A k \in r.id : r.states[k] = "saved" => RowSettled(r.form, r.data[k], k)'
  BY BookedGrows DEF OfflineInv, RowsSettled
<1> HIDE DEF s
<1>5. \A k \in s.id : s.states[k] = "saved" => RowSettled(s.form, s.data[k], k)'
  BY <1>2, <1>4 DEF Continues
<1> QED BY <1>2, <1>3, <1>5 DEF Goes

LEMMA AdmitServes ==
  ASSUME OfflineInv, NEW r \in requests, Admit(r)
  PROVE  OfflineInv'
<1>1. Writes(r)
  BY WritesNothing DEF Admit, server
<1>2. Goes(r) \/ Answered(r)
  <2>1. CASE r.cookie # session \/ ~CSRF(r)
    BY <2>1, ReplyAnswers DEF Admit
  <2>2. CASE ~(r.cookie # session \/ ~CSRF(r)) /\ r.cookie \notin books.writers
    BY <2>2, ReplyAnswers DEF Admit
  <2>3. CASE ~(r.cookie # session \/ ~CSRF(r)) /\ r.cookie \in books.writers
    <3>1. Goto(r, "probe") /\ r.cookie = r.token /\ booked' = booked
      BY <2>3 DEF Admit, CSRF, server
    <3> QED BY <3>1, GotoGoes
  <2> QED BY <2>1, <2>2, <2>3
<1> QED BY <1>1, <1>2, ServeStep DEF Admit

(* What one key stands for already.                                        *)
LEMMA KeyOfRequest ==
  ASSUME OfflineInv, NEW r \in requests, NEW k \in r.id
  PROVE  /\ k \in Keys /\ r.data[k] \in Contents /\ Offered(r.form, r.data[k])
         /\ author[k] = r.token /\ author[k] # Nobody
         /\ r.form # "quick" => \A l \in r.id : l = k
         /\ r.pc # "admit" => r.cookie = author[k]
BY DEF OfflineInv, RequestsHeld, Formed

LEMMA ProbedBooked ==
  ASSUME OfflineInv, NEW r \in requests, NEW k \in r.id,
         Probes(r.form, r.data[k], k) = {"recorded"}
  PROVE  RowSettled(r.form, r.data[k], k)
<1> DEFINE c == r.data[k]
<1>1. c \in Contents /\ Offered(r.form, c) /\ k \in Keys
  BY KeyOfRequest
<1>2. ASSUME NEW half \in ProbedHalves(r.form, c)
      PROVE  BookedAs(k, half, Fingerprint(r.form, c, half))
  <2>1. ReplayState(r.form, c, k, half) = "recorded"
    BY DEF Probes
  <2>2. Has(k, half) /\ \A e \in Row(k, half) : e.fp = Fingerprint(r.form, c, half)
    BY <2>1 DEF ReplayState, ReplayFingerprintMatches
  <2>3. PICK e \in entries : e.key = k /\ e.half = half /\ e.fp = Fingerprint(r.form, c, half)
    BY <2>2 DEF Has, Row
  <2> QED BY <2>3 DEF OfflineInv, StoredBooked
<1> HIDE DEF c
<1>3. BookedAs(k, "main", Fingerprint(r.form, c, "main"))
  BY <1>2 DEF ProbedHalves
<1>4. c.way # "in"
  <2>1. PICK b \in booked : b.key = k /\ b.half = "main" /\ b.fp = Fingerprint(r.form, c, "main")
    BY <1>3 DEF BookedAs
  <2>2. b.fp.way = "out"
    BY <2>1 DEF OfflineInv, BookedHeld
  <2> QED BY <1>1, <2>1, <2>2, FingerprintKeeps
<1>5. ASSUME c.helper # "none"
      PROVE  BookedAs(k, HelperHalf(r.form, c), Fingerprint(r.form, c, HelperHalf(r.form, c)))
  <2>1. CASE r.form # "shared"
    <3>1. HelperHalf(r.form, c) = "helper" /\ "helper" \in ProbedHalves(r.form, c)
      BY <1>5, <2>1 DEF HelperHalf, ProbedHalves
    <3> QED BY <1>2, <3>1
  <2>2. CASE r.form = "shared"
    <3>1. Fingerprint(r.form, c, "main") = c /\ Fingerprint(r.form, c, HelperHalf(r.form, c)) = c
      BY <1>1, <2>2, FingerprintKeeps
    <3>2. PICK b \in booked : b.key = k /\ b.half = "main" /\ b.fp = c
      BY <1>3, <3>1 DEF BookedAs
    <3>3. BookedAs(b.key, HelperHalf("shared", b.fp), b.fp)
      BY <1>5, <2>2, <3>2 DEF OfflineInv, HelpersBooked, Carriers
    <3> QED BY <2>2, <3>1, <3>2, <3>3
  <2> QED BY <2>1, <2>2
<1>6. RowSettled(r.form, c, k)
  BY <1>3, <1>4, <1>5 DEF RowSettled, HalvesOf
<1> QED BY <1>6 DEF c

LEMMA ProbeServes ==
  ASSUME OfflineInv, NEW r \in requests, ProbeBookingReplay(r)
  PROVE  OfflineInv'
<1>1. Writes(r) /\ UNCHANGED client /\ booked' = booked
  BY WritesNothing DEF ProbeBookingReplay, server
<1>2. PICK k \in r.id :
        /\ r.pc = "probe" /\ r.form # "quick"
        /\ LET found == Probes(r.form, r.data[k], k) IN
           IF "differs" \in found THEN Reply(r, "stored", r.states)
           ELSE IF found = {"recorded"} THEN Reply(r, "saved", r.states)
           ELSE Goto(r, IF "ledger" \in found THEN "ledger" ELSE "create")
  BY DEF ProbeBookingReplay
<1>3. r.cookie = r.token /\ \A l \in r.id : l = k
  BY <1>2, KeyOfRequest
<1>4. CASE Reply(r, "stored", r.states)
  BY <1>4, ReplyAnswers, <1>1, ServeStep
<1>5. CASE Reply(r, "saved", r.states) /\ Probes(r.form, r.data[k], k) = {"recorded"}
  <2>1. RowSettled(r.form, r.data[k], k)'
    BY <1>1, <1>5, ProbedBooked, BookedGrows
  <2>2. \A l \in r.id : RowSettled(r.form, r.data[l], l)'
    BY <1>3, <2>1
  <2> QED BY <1>1, <1>5, <2>2, ReplyAnswers, ServeStep
<1>6. CASE Goto(r, "ledger") \/ Goto(r, "create")
  BY <1>1, <1>3, <1>6, GotoGoes, ServeStep
<1> QED BY <1>2, <1>4, <1>5, <1>6

LEMMA GateServes ==
  ASSUME OfflineInv, NEW r \in requests, QuickGate(r)
  PROVE  OfflineInv'
<1>1. Writes(r) /\ UNCHANGED client /\ booked' = booked
  BY WritesNothing DEF QuickGate, server
<1>2. r.cookie = r.token /\ r.form = "quick"
  BY DEF QuickGate, OfflineInv, RequestsHeld
<1>3. CASE Pending(r) # {} /\ ~books.open
  <2> DEFINE states == [k \in r.id |-> IF r.states[k] = "none" THEN "invalid" ELSE r.states[k]]
  <2>1. Reply(r, "check", states)
    BY <1>3 DEF QuickGate
  <2> QED BY <1>1, <2>1, ReplyAnswers, ServeStep
<1>4. CASE ~(Pending(r) # {} /\ ~books.open)
  <2>1. Goto(r, "rows")
    BY <1>4 DEF QuickGate
  <2> QED BY <1>1, <1>2, <2>1, GotoGoes, ServeStep
<1> QED BY <1>3, <1>4

LEMMA QuickAnswerServes ==
  ASSUME OfflineInv, NEW r \in requests, QuickAnswer(r)
  PROVE  OfflineInv'
<1>1. Writes(r) /\ UNCHANGED client /\ booked' = booked
  BY WritesNothing DEF QuickAnswer, server
<1>2. CASE Reply(r, "later", r.states) \/ Reply(r, "check", r.states)
  BY <1>1, <1>2, ReplyAnswers, ServeStep
<1>3. CASE Reply(r, "saved", r.states) /\ \A k \in DOMAIN r.states : r.states[k] = "saved"
  <2>1. \A k \in r.id : RowSettled(r.form, r.data[k], k)
    BY <1>3 DEF OfflineInv, RequestsHeld, RowsSettled
  <2>2. \A k \in r.id : RowSettled(r.form, r.data[k], k)'
    BY <1>1, <2>1, BookedGrows
  <2> QED BY <1>1, <1>3, <2>2, ReplyAnswers, ServeStep
<1> QED BY <1>2, <1>3 DEF QuickAnswer, QuickSays

LEMMA ProbeRowsServes ==
  ASSUME OfflineInv, NEW r \in requests, ProbeRows(r)
  PROVE  OfflineInv'
<1>1. Writes(r) /\ UNCHANGED client /\ booked' = booked
  BY WritesNothing DEF ProbeRows, server
<1> DEFINE marks == [k \in r.id |-> Marked(Probes("quick", r.data[k], k))]
           s == [r EXCEPT !.pc = "gate", !.states = marks]
<1>2. requests' = (requests \ {r}) \cup {s} /\ replies' = replies /\ r.form = "quick" /\ r.pc = "probe"
  BY DEF ProbeRows
<1>3. DOMAIN r = RequestFields /\ r.cookie = r.token
  BY <1>2 DEF OfflineInv, RequestsHeld
<1>4. DOMAIN marks = r.id /\ \A k \in r.id : marks[k] = Marked(Probes("quick", r.data[k], k))
  OBVIOUS
<1>5. ASSUME NEW k \in r.id, marks[k] = "saved" PROVE RowSettled(r.form, r.data[k], k)'
  <2>1. Probes(r.form, r.data[k], k) = {"recorded"}
    BY <1>2, <1>4, <1>5 DEF Marked
  <2> QED BY <1>1, <2>1, ProbedBooked, BookedGrows
<1> HIDE DEF marks
<1>6. Continues(s, r) /\ s.states = marks
  BY <1>2, <1>3, <1>4 DEF Continues, RequestFields
<1> HIDE DEF s
<1>7. Goes(r)
  BY <1>2, <1>5, <1>6 DEF Goes, Continues
<1> QED BY <1>1, <1>7, ServeStep


-----------------------------------------------------------------------------
(* A booking's transaction: what is there already matches, and what is     *)
(* missing is inserted with the rest.                                      *)
LEMMA KnownBooked ==
  ASSUME OfflineInv, NEW r \in requests, NEW k \in r.id, ~Conflict(r, k, r.data[k]),
         NEW e \in Known(r, k, r.data[k])
  PROVE  /\ e \in entries /\ e.key = k
         /\ BookedAs(k, e.half, Fingerprint(r.form, r.data[k], e.half))
<1>1. e \in entries /\ e.key = k
  BY DEF Known, Account
<1>2. e.fp = Fingerprint(r.form, r.data[k], e.half)
  BY DEF Conflict, ReplayFingerprintMatches
<1> QED BY <1>1, <1>2 DEF OfflineInv, StoredBooked

LEMMA WholeSettled ==
  ASSUME OfflineInv, NEW r \in requests, NEW k \in r.id, r.data[k].way = "out",
         ~Conflict(r, k, r.data[k]), Whole(r, k, r.data[k])
  PROVE  RowSettled(r.form, r.data[k], k)
<1>1. ASSUME NEW half \in HalvesOf(r.form, r.data[k])
      PROVE  BookedAs(k, half, Fingerprint(r.form, r.data[k], half))
  <2>1. PICK e \in Known(r, k, r.data[k]) : e.half = half
    BY DEF Whole
  <2> QED BY <2>1, KnownBooked
<1> QED BY <1>1 DEF RowSettled

LEMMA MissingRows ==
  ASSUME NEW r, NEW k, NEW c, NEW b \in Missing(r, k, c)
  PROVE  /\ DOMAIN b = EntryFields /\ b.key = k /\ b.half \in HalvesOf(r.form, c)
         /\ b.fp = Fingerprint(r.form, c, b.half) /\ b.by = r.cookie
<1>1. PICK half \in HalvesOf(r.form, c) : b = Insert(r, k, c, half)
  BY DEF Missing
<1> QED BY <1>1, InsertFields

LEMMA PairSettled ==
  ASSUME OfflineInv, NEW r \in requests, NEW k \in r.id, r.data[k].way = "out",
         ~Conflict(r, k, r.data[k]), CreateEntryPair(r, k, r.data[k])
  PROVE  /\ \A half \in HalvesOf(r.form, r.data[k]) :
              BookedAs(k, half, Fingerprint(r.form, r.data[k], half))'
         /\ RowSettled(r.form, r.data[k], k)'
<1> DEFINE c == r.data[k]
<1>1. booked' = booked \cup Missing(r, k, c)
  BY DEF CreateEntryPair
<1>2. ASSUME NEW half \in HalvesOf(r.form, c)
      PROVE  BookedAs(k, half, Fingerprint(r.form, c, half))'
  <2>1. CASE \A e \in Known(r, k, c) : e.half # half
    <3>1. Insert(r, k, c, half) \in Missing(r, k, c)
      BY <2>1 DEF Missing
    <3> QED BY <1>1, <3>1, InsertFields DEF BookedAs
  <2>2. CASE \E e \in Known(r, k, c) : e.half = half
    <3>1. BookedAs(k, half, Fingerprint(r.form, c, half))
      BY <2>2, KnownBooked
    <3> QED BY <1>1, <3>1, BookedGrows
  <2> QED BY <2>1, <2>2
<1> QED BY <1>2 DEF RowSettled

LEMMA PairWrites ==
  ASSUME OfflineInv, NEW r \in requests, NEW k \in r.id, r.pc # "admit", r.data[k].way = "out",
         ~Conflict(r, k, r.data[k]), CreateEntryPair(r, k, r.data[k])
  PROVE  Writes(r)
<1> DEFINE c == r.data[k]
<1>1. c \in Contents /\ r.cookie = author[k]
  BY KeyOfRequest
<1>2. booked' = booked \cup Missing(r, k, c)
  BY DEF CreateEntryPair
<1>3. ASSUME NEW b \in booked' \ booked
      PROVE  /\ b.key \in r.id /\ b.by = author[b.key]
             /\ b.half # "ledger" => b.fp.way = "out"
             /\ r.form = "shared" /\ b.half = "main" /\ b.fp.helper # "none"
                  => BookedAs(b.key, HelperHalf("shared", b.fp), b.fp)'
  <2>1. /\ b.key = k /\ b.half \in HalvesOf(r.form, c) /\ b.by = r.cookie
        /\ b.fp = Fingerprint(r.form, c, b.half)
    BY <1>2, <1>3, MissingRows
  <2>2. b.fp.way = "out"
    BY <1>1, <2>1, FingerprintKeeps
  <2>3. ASSUME r.form = "shared", b.fp.helper # "none"
        PROVE  BookedAs(b.key, HelperHalf("shared", b.fp), b.fp)'
    <3>1. b.fp = c /\ Fingerprint(r.form, c, HelperHalf("shared", c)) = c
      BY <1>1, <2>1, <2>3, FingerprintKeeps
    <3>2. HelperHalf("shared", c) \in HalvesOf(r.form, c)
      BY <2>3, <3>1 DEF HalvesOf
    <3>3. BookedAs(k, HelperHalf("shared", c), c)'
      BY <3>1, <3>2, PairSettled
    <3> QED BY <2>1, <3>1, <3>3
  <2> QED BY <1>1, <2>1, <2>2, <2>3
<1>4. ASSUME NEW e \in entries'
      PROVE  e \in Missing(r, k, c) \/ (DOMAIN e = EntryFields /\ BookedAs(e.key, e.half, e.fp))
  <2>1. \A x \in entries : DOMAIN x = EntryFields /\ BookedAs(x.key, x.half, x.fp)
    BY DEF OfflineInv, Tables, StoredBooked
  <2>2. CASE e \in entries \cup Missing(r, k, c)
    BY <2>1, <2>2
  <2>3. CASE e \in Relinked(k)
    <3>1. PICK x \in entries : e = x \/ e = [x EXCEPT !.linked = TRUE]
      BY <2>3 DEF Relinked
    <3> QED BY <2>1, <3>1 DEF EntryFields
  <2> QED BY <2>2, <2>3 DEF CreateEntryPair
<1>5. ASSUME NEW e \in entries' PROVE DOMAIN e = EntryFields /\ BookedAs(e.key, e.half, e.fp)'
  <2>1. CASE e \in Missing(r, k, c)
    BY <1>2, <2>1, MissingRows DEF BookedAs
  <2>2. CASE DOMAIN e = EntryFields /\ BookedAs(e.key, e.half, e.fp)
    BY <1>2, <2>2, BookedGrows
  <2> QED BY <1>4, <1>5, <2>1, <2>2
<1> QED BY <1>2, <1>3, <1>5 DEF Writes

LEMMA BookingServes ==
  ASSUME OfflineInv, NEW r \in requests, NEW k \in r.id, CreateBooking(r, k)
  PROVE  OfflineInv'
<1> DEFINE c == r.data[k]
<1>1. /\ r.pc \in {"create", "ledger"} /\ r.form # "quick" /\ c.way = "out" /\ UNCHANGED client
      /\ \A l \in r.id : l = k
  BY KeyOfRequest DEF CreateBooking
<1>2. CASE UNCHANGED <<entries, booked>> /\ (Reply(r, Refusal(r), r.states) \/ Reply(r, "check", r.states))
  <2>1. Writes(r)
    BY <1>2, WritesNothing
  <2>2. Refusal(r) # "saved"
    BY DEF Refusal
  <2> QED BY <1>1, <1>2, <2>1, <2>2, ReplyAnswers, ServeStep
<1>3. CASE /\ ~Conflict(r, k, c) /\ Whole(r, k, c)
           /\ Reply(r, "saved", r.states) /\ UNCHANGED <<entries, booked>>
  <2>1. Writes(r)
    BY <1>3, WritesNothing
  <2>2. RowSettled(r.form, r.data[k], k)'
    BY <1>1, <1>3, WholeSettled, BookedGrows
  <2>3. \A l \in r.id : RowSettled(r.form, r.data[l], l)'
    BY <1>1, <2>2
  <2> QED BY <1>1, <1>3, <2>1, <2>3, ReplyAnswers, ServeStep
<1>4. CASE ~Conflict(r, k, c) /\ CreateEntryPair(r, k, c) /\ Reply(r, "saved", r.states)
  <2>1. Writes(r) /\ RowSettled(r.form, r.data[k], k)'
    BY <1>1, <1>4, PairWrites, PairSettled
  <2>2. \A l \in r.id : RowSettled(r.form, r.data[l], l)'
    BY <1>1, <2>1
  <2> QED BY <1>1, <1>4, <2>1, <2>2, ReplyAnswers, ServeStep
<1> QED BY <1>2, <1>3, <1>4 DEF CreateBooking

LEMMA CounterclaimWrites ==
  ASSUME OfflineInv, NEW r \in requests, NEW k \in r.id, r.pc # "admit", r.data[k].way = "in",
         entries' = entries \cup {Insert(r, k, r.data[k], "ledger")},
         booked' = booked \cup {Insert(r, k, r.data[k], "ledger")}
  PROVE  Writes(r) /\ RowSettled(r.form, r.data[k], k)'
<1> DEFINE row == Insert(r, k, r.data[k], "ledger")
<1>1. /\ DOMAIN row = EntryFields /\ row.key = k /\ row.half = "ledger" /\ row.by = r.cookie
      /\ row.fp = r.data[k] /\ r.cookie = author[k]
  BY InsertFields, KeyOfRequest, FingerprintKeeps
<1> HIDE DEF row
<1>2. \A e \in entries : DOMAIN e = EntryFields /\ BookedAs(e.key, e.half, e.fp)
  BY DEF OfflineInv, Tables, StoredBooked
<1>3. ASSUME NEW e \in entries' PROVE DOMAIN e = EntryFields /\ BookedAs(e.key, e.half, e.fp)'
  <2>1. CASE e \in entries
    BY <1>2, <2>1, BookedGrows
  <2>2. CASE e = row
    <3>1. row \in booked'
      BY DEF row
    <3> QED BY <1>1, <2>2, <3>1 DEF BookedAs
  <2> QED BY <1>3, <2>1, <2>2 DEF row
<1>4. \A b \in booked' \ booked : b = row
  BY DEF row
<1>5. Writes(r)
  BY <1>1, <1>3, <1>4 DEF Writes
<1>6. BookedAs(k, "ledger", r.data[k])'
  <2>1. row \in booked'
    BY DEF row
  <2> QED BY <1>1, <2>1 DEF BookedAs
<1> QED BY <1>5, <1>6 DEF RowSettled

LEMMA LedgerServes ==
  ASSUME OfflineInv, NEW r \in requests, NEW k \in r.id, CreateLedgerBooking(r, k)
  PROVE  OfflineInv'
<1> DEFINE c == r.data[k]
<1>1. /\ r.pc \in {"create", "ledger"} /\ c.way = "in" /\ UNCHANGED client
      /\ \A l \in r.id : l = k
  <2>1. r.form # "quick"
    BY KeyOfRequest DEF CreateLedgerBooking, Offered
  <2> QED BY <2>1, KeyOfRequest DEF CreateLedgerBooking
<1>2. CASE UNCHANGED <<entries, booked>> /\ (Reply(r, Refusal(r), r.states) \/ Reply(r, "check", r.states))
  <2>1. Writes(r)
    BY <1>2, WritesNothing
  <2>2. Refusal(r) # "saved"
    BY DEF Refusal
  <2> QED BY <1>1, <1>2, <2>1, <2>2, ReplyAnswers, ServeStep
<1>3. CASE /\ ~\E e \in Row(k, "ledger") : e.fp # c
           /\ Has(k, "ledger") /\ Reply(r, "saved", r.states) /\ UNCHANGED <<entries, booked>>
  <2>1. Writes(r)
    BY <1>3, WritesNothing
  <2>2. PICK e \in entries : e.key = k /\ e.half = "ledger" /\ e.fp = c
    BY <1>3 DEF Has, Row
  <2>3. BookedAs(k, "ledger", c)
    BY <2>2 DEF OfflineInv, StoredBooked
  <2>4. RowSettled(r.form, r.data[k], k)'
    BY <1>1, <1>3, <2>3, BookedGrows DEF RowSettled
  <2>5. \A l \in r.id : RowSettled(r.form, r.data[l], l)'
    BY <1>1, <2>4
  <2> QED BY <1>1, <1>3, <2>1, <2>5, ReplyAnswers, ServeStep
<1>4. CASE /\ entries' = entries \cup {Insert(r, k, c, "ledger")}
           /\ booked' = booked \cup {Insert(r, k, c, "ledger")} /\ Reply(r, "saved", r.states)
  <2>1. Writes(r) /\ RowSettled(r.form, r.data[k], k)'
    BY <1>1, <1>4, CounterclaimWrites
  <2>2. \A l \in r.id : RowSettled(r.form, r.data[l], l)'
    BY <1>1, <2>1
  <2> QED BY <1>1, <1>4, <2>1, <2>2, ReplyAnswers, ServeStep
<1> QED BY <1>2, <1>3, <1>4 DEF CreateLedgerBooking

LEMMA RowGoes ==
  ASSUME OfflineInv, NEW r \in requests, NEW k \in r.id, NEW state, RowDone(r, k, state),
         r.pc = "rows", booked \subseteq booked',
         state = "saved" => RowSettled(r.form, r.data[k], k)'
  PROVE  Goes(r)
<1> DEFINE marks == [r.states EXCEPT ![k] = state]
           s == [r EXCEPT !.states = marks]
<1>1. DOMAIN r = RequestFields /\ DOMAIN r.states = r.id /\ r.cookie = r.token /\ r.form = "quick"
  BY DEF OfflineInv, RequestsHeld
<1>2. requests' = (requests \ {r}) \cup {s} /\ replies' = replies
  BY DEF RowDone
<1>3. DOMAIN marks = r.id /\ \A l \in r.id : marks[l] = IF l = k THEN state ELSE r.states[l]
  BY <1>1
<1>4. ASSUME NEW l \in r.id, marks[l] = "saved" PROVE RowSettled(r.form, r.data[l], l)'
  <2>1. CASE l = k
    BY <1>3, <1>4, <2>1
  <2>2. CASE l # k
    <3>1. RowSettled(r.form, r.data[l], l)
      BY <1>3, <1>4, <2>2 DEF OfflineInv, RowsSettled
    <3> QED BY <3>1, BookedGrows
  <2> QED BY <2>1, <2>2
<1> HIDE DEF marks
<1>5. Continues(s, r) /\ s.states = marks
  BY <1>1, <1>3 DEF Continues, RequestFields
<1> HIDE DEF s
<1> QED BY <1>2, <1>4, <1>5 DEF Goes, Continues

LEMMA QuickRowServes ==
  ASSUME OfflineInv, NEW r \in requests, NEW k \in r.id, CreateQuickRows(r, k)
  PROVE  OfflineInv'
<1> DEFINE c == r.data[k]
<1>1. r.pc = "rows" /\ c.way = "out" /\ UNCHANGED client
  <2>1. r.form = "quick"
    BY DEF CreateQuickRows, OfflineInv, RequestsHeld
  <2> QED BY <2>1, KeyOfRequest DEF CreateQuickRows, Offered
<1>2. CASE /\ UNCHANGED <<entries, booked>>
           /\ (RowDone(r, k, "invalid") \/ RowDone(r, k, "conflict") \/ RowDone(r, k, "failed"))
  <2>1. Writes(r)
    BY <1>2, WritesNothing
  <2> QED BY <1>1, <1>2, <2>1, RowGoes, ServeStep
<1>3. CASE /\ ~Conflict(r, k, c) /\ Whole(r, k, c)
           /\ RowDone(r, k, "saved") /\ UNCHANGED <<entries, booked>>
  <2>1. Writes(r)
    BY <1>3, WritesNothing
  <2>2. RowSettled(r.form, r.data[k], k)'
    BY <1>1, <1>3, WholeSettled, BookedGrows
  <2> QED BY <1>1, <1>3, <2>1, <2>2, RowGoes, ServeStep
<1>4. CASE ~Conflict(r, k, c) /\ CreateEntryPair(r, k, c) /\ RowDone(r, k, "saved")
  <2>1. Writes(r) /\ RowSettled(r.form, r.data[k], k)'
    BY <1>1, <1>4, PairWrites, PairSettled
  <2> QED BY <1>1, <1>4, <2>1, RowGoes, ServeStep DEF Writes
<1> QED BY <1>2, <1>3, <1>4 DEF CreateQuickRows


-----------------------------------------------------------------------------
(* What the browser does: every item it holds and every request under way  *)
(* is one it had, or the one just captured, of keys nobody drew before.    *)
SameItem(i, j) ==
  DOMAIN i = ItemFields /\ i.id = j.id /\ i.form = j.form /\ i.user = j.user /\ Formed(i)
FreshItem(i, S, f, u) ==
  DOMAIN i = ItemFields /\ i.id = S /\ i.form = f /\ i.user = u /\ Formed(i)
SameRequest(r, s) ==
  /\ DOMAIN r = RequestFields
  /\ \A x \in RequestFields \ {"tab"} : r[x] = s[x]
FreshRequest(r, S, f) ==
  /\ DOMAIN r = RequestFields /\ Formed(r) /\ r.pc = "admit" /\ r.id = S /\ r.form = f
  /\ DOMAIN r.states = r.id /\ \A k \in r.id : r.states[k] = "none"

Drawn(S, u) ==
  /\ \A k \in S : author[k] = Nobody
  /\ S # {} => u # Nobody
  /\ \A k \in Keys : author'[k] = IF k \in S THEN u ELSE author[k]

ItemsFrom(S, f, u) == \A i \in Held' :
  \/ \E j \in Held : SameItem(i, j)
  \/ FreshItem(i, S, f, u)
RequestsFrom(S, f, u) == \A r \in requests' :
  \/ \E s \in requests : SameRequest(r, s)
  \/ FreshRequest(r, S, f) /\ r.token = u
  \/ \E i \in Held : FreshRequest(r, i.id, i.form) /\ r.token = i.user

LEMMA SameRequestFields ==
  ASSUME NEW r, NEW s, SameRequest(r, s), DOMAIN s = RequestFields, Formed(s)
  PROVE  /\ r.id = s.id /\ r.form = s.form /\ r.data = s.data /\ r.states = s.states /\ r.token = s.token
         /\ r.cookie = s.cookie /\ r.pc = s.pc /\ r.from = s.from /\ Formed(r)
<1>1. /\ r.id = s.id /\ r.form = s.form /\ r.data = s.data /\ r.states = s.states /\ r.token = s.token
      /\ r.cookie = s.cookie /\ r.pc = s.pc /\ r.from = s.from
  BY DEF SameRequest, RequestFields
<1> QED BY <1>1 DEF Formed

LEMMA ClientRows ==
  ASSUME OfflineInv, UNCHANGED <<entries, booked>>, NEW S, NEW f, NEW u,
         Drawn(S, u), ItemsFrom(S, f, u), RequestsFrom(S, f, u)
  PROVE  /\ ItemsHeld' /\ RequestsHeld' /\ SameBooking'
         /\ BookedHeld' /\ StoredBooked' /\ HelpersBooked' /\ RowsSettled'
<1>0. ASSUME NEW x, Formed(x) PROVE x.id \subseteq Keys /\ x.id # {}
  BY <1>0 DEF Formed
<1>1. ASSUME NEW k \in Keys, author[k] # Nobody PROVE author'[k] = author[k]
  BY <1>1 DEF Drawn
<1>2. ASSUME NEW k \in Keys, k \in S PROVE author'[k] = u /\ u # Nobody /\ author[k] = Nobody
  BY <1>2 DEF Drawn
<1>3. ASSUME NEW i \in Held'
      PROVE  DOMAIN i = ItemFields /\ Formed(i) /\ \A k \in i.id : author'[k] = i.user /\ author'[k] # Nobody
  <2>1. ASSUME NEW j \in Held, SameItem(i, j)
        PROVE  DOMAIN i = ItemFields /\ Formed(i) /\ \A k \in i.id : author'[k] = i.user /\ author'[k] # Nobody
    <3>1. \A k \in j.id : author[k] = j.user /\ author[k] # Nobody
      BY DEF OfflineInv, ItemsHeld
    <3> QED BY <1>0, <1>1, <2>1, <3>1 DEF SameItem
  <2>2. CASE FreshItem(i, S, f, u)
    BY <1>0, <1>2, <2>2 DEF FreshItem
  <2> QED BY <2>1, <2>2 DEF ItemsFrom
<1>4. ItemsHeld'
  BY <1>3 DEF ItemsHeld, Formed
<1>5. ASSUME NEW r \in requests'
      PROVE  /\ DOMAIN r = RequestFields /\ Formed(r) /\ DOMAIN r.states = r.id
             /\ \A k \in r.id : author'[k] = r.token /\ author'[k] # Nobody
             /\ r.pc # "admit" => r.cookie = r.token
             /\ r.pc \in {"gate", "rows"} => r.form = "quick"
             /\ \A k \in r.id : r.states[k] = "saved" => RowSettled(r.form, r.data[k], k)
  <2>1. CASE \E s \in requests : SameRequest(r, s)
    <3>1. PICK s \in requests : SameRequest(r, s)
      BY <2>1
    <3>2. /\ DOMAIN s = RequestFields /\ Formed(s) /\ DOMAIN s.states = s.id
          /\ \A k \in s.id : author[k] = s.token /\ author[k] # Nobody
          /\ s.pc # "admit" => s.cookie = s.token
          /\ s.pc \in {"gate", "rows"} => s.form = "quick"
          /\ \A k \in s.id : s.states[k] = "saved" => RowSettled(s.form, s.data[k], k)
      BY DEF OfflineInv, RequestsHeld, RowsSettled
    <3>3. /\ r.id = s.id /\ r.form = s.form /\ r.data = s.data /\ r.states = s.states /\ r.token = s.token
          /\ r.cookie = s.cookie /\ r.pc = s.pc /\ Formed(r) /\ DOMAIN r = RequestFields
      BY <3>1, <3>2, SameRequestFields DEF SameRequest
    <3> QED BY <1>0, <1>1, <3>2, <3>3
  <2>2. CASE FreshRequest(r, S, f) /\ r.token = u
    <3>1. r.id \subseteq Keys
      BY <1>0, <2>2 DEF FreshRequest
    <3> QED BY <1>2, <2>2, <3>1 DEF FreshRequest
  <2>3. CASE \E i \in Held : FreshRequest(r, i.id, i.form) /\ r.token = i.user
    <3>1. PICK i \in Held : FreshRequest(r, i.id, i.form) /\ r.token = i.user
      BY <2>3
    <3>2. i.id \subseteq Keys /\ \A k \in i.id : author[k] = i.user /\ author[k] # Nobody
      BY DEF OfflineInv, ItemsHeld, Formed
    <3> QED BY <1>1, <3>1, <3>2 DEF FreshRequest
  <2> QED BY <2>1, <2>2, <2>3 DEF RequestsFrom
<1>6. RequestsHeld'
  BY <1>5 DEF RequestsHeld, Formed
<1>7. RowsSettled'
  <2>1. \A g, c, k : RowSettled(g, c, k) => RowSettled(g, c, k)'
    BY BookedGrows
  <2> QED BY <1>5, <2>1 DEF RowsSettled
<1>8. ASSUME NEW x \in Carriers'
      PROVE  (x.id = S /\ x.form = f) \/ \E y \in Carriers : y.id = x.id /\ y.form = x.form
  <2>1. CASE x \in Held'
    BY <2>1 DEF ItemsFrom, SameItem, FreshItem, Carriers
  <2>2. CASE x \in requests'
    <3>1. CASE \E s \in requests : SameRequest(x, s)
      BY <3>1 DEF SameRequest, RequestFields, Carriers
    <3> QED BY <2>2, <3>1 DEF RequestsFrom, FreshRequest, Carriers
  <2> QED BY <1>8, <2>1, <2>2 DEF Carriers
<1>9. ASSUME NEW y \in Carriers, NEW k \in y.id PROVE k \in Keys /\ k \notin S
  <2>1. k \in Keys /\ author[k] # Nobody
    BY DEF OfflineInv, ItemsHeld, RequestsHeld, Carriers, Formed
  <2> QED BY <2>1 DEF Drawn
<1>10. SameBooking'
  BY <1>8, <1>9 DEF SameBooking, OfflineInv
<1>11. BookedHeld'
  BY <1>1 DEF BookedHeld, OfflineInv
<1>12. StoredBooked'
  BY DEF OfflineInv, StoredBooked, BookedAs
<1>13. HelpersBooked'
  <2>1. SUFFICES ASSUME NEW x \in Carriers', NEW b \in booked, x.form = "shared", b.key \in x.id,
                        b.half = "main", b.fp.helper # "none"
                 PROVE  BookedAs(b.key, HelperHalf("shared", b.fp), b.fp)'
    BY DEF HelpersBooked, HelperHalf
  <2>2. b.key \notin S
    BY DEF OfflineInv, BookedHeld, Drawn
  <2>3. PICK y \in Carriers : y.id = x.id /\ y.form = x.form
    BY <1>8, <2>1, <2>2
  <2>4. BookedAs(b.key, HelperHalf("shared", b.fp), b.fp)
    BY <2>1, <2>3 DEF OfflineInv, HelpersBooked
  <2> QED BY <2>4, BookedGrows
<1> QED BY <1>4, <1>6, <1>7, <1>10, <1>11, <1>12, <1>13

(* The browser keeps what it holds and only its sender or a page changes.  *)
LEMMA NothingDrawn ==
  ASSUME author' = author, NEW u
  PROVE  Drawn({}, u)
BY DEF Drawn

LEMMA SameItems ==
  ASSUME OfflineInv, NEW f, NEW u, Held' \subseteq Held
  PROVE  ItemsFrom({}, f, u)
BY DEF ItemsFrom, SameItem, OfflineInv, ItemsHeld

LEMMA SameRequests ==
  ASSUME OfflineInv, NEW S, NEW f, NEW u, requests' \subseteq requests
  PROVE  RequestsFrom(S, f, u)
BY DEF RequestsFrom, SameRequest, OfflineInv, RequestsHeld

LEMMA RowsKept ==
  ASSUME OfflineInv, UNCHANGED <<entries, booked, author>>, Held' \subseteq Held,
         requests' \subseteq requests
  PROVE  /\ ItemsHeld' /\ RequestsHeld' /\ SameBooking'
         /\ BookedHeld' /\ StoredBooked' /\ HelpersBooked' /\ RowsSettled'
<1> DEFINE f == "old"
           u == Nobody
<1>1. Drawn({}, u) /\ ItemsFrom({}, f, u) /\ RequestsFrom({}, f, u)
  BY NothingDrawn, SameItems, SameRequests
<1> HIDE DEF f, u
<1> QED BY <1>1, ClientRows


-----------------------------------------------------------------------------
(* One action of the browser at a time.                                    *)

\* The pages, the sender or a form change; what is held and under way does
\* not, unless it shrinks.
LEMMA FlushStep ==
  ASSUME OfflineInv, NEW t \in Tabs, NEW retry \in BOOLEAN, Flush(t, retry)
  PROVE  OfflineInv'
<1> DEFINE row == [Resting EXCEPT !.pc = "next", !.retry = retry,
                    !.todo = {i.id : i \in {j \in queue : OwnedByCurrentUser(j, t)}}]
<1>1. /\ \A u \in Tabs : sender[u].pc = "idle"
      /\ sender' = [sender EXCEPT ![t] = row]
      /\ UNCHANGED <<queue, pages, form, author, requests, replies, entries, booked>>
  BY DEF Flush, LockFree, Busy, wire, server
<1>2. DOMAIN row = SenderFields /\ row.pc = "next" /\ row.item = {}
  BY DEF Resting, SenderFields
<1> HIDE DEF row
<1>3. /\ DOMAIN sender = Tabs /\ sender'[t] = row
      /\ \A u \in Tabs \ {t} : sender'[u] = sender[u]
  BY <1>1 DEF OfflineInv, Tables
<1>4. Tables' /\ ItemsApart' /\ Held' = Held
  BY <1>1, <1>2, <1>3 DEF OfflineInv, Tables, ItemsApart, Held
<1>5. OneFlush' /\ SentQueued'
  BY <1>1, <1>2, <1>3 DEF OfflineInv, OneFlush, SentQueued, Busy, InQueue
<1>6. (\A r \in requests : ~Awaited(r)) /\ (\A a \in replies : a.from # "flush")
  BY <1>1 DEF OfflineInv, RequestsSent, RepliesSent, Sent
<1>7. RequestsSent' /\ RepliesSent' /\ OneAnswer'
  BY <1>1, <1>6 DEF OfflineInv, RequestsSent, RepliesSent, OneAnswer, Awaited
<1> QED BY <1>1, <1>4, <1>5, <1>7, RowsKept DEF OfflineInv

\* A sender that goes on to the next item: what is waited for stays.
LEMMA SkipStep ==
  ASSUME OfflineInv, NEW t \in Tabs, sender[t].pc = "next",
         UNCHANGED <<queue, pages, form, author, requests, replies, entries, booked>>,
         NEW row, sender' = [sender EXCEPT ![t] = row],
         DOMAIN row = SenderFields, row.pc \in {"next", "idle"}, row.item = {}
  PROVE  OfflineInv'
<1>1. /\ DOMAIN sender = Tabs /\ sender'[t] = row
      /\ \A u \in Tabs \ {t} : sender'[u] = sender[u]
  BY DEF OfflineInv, Tables
<1>2. Tables' /\ ItemsApart' /\ Held' = Held
  BY <1>1 DEF OfflineInv, Tables, ItemsApart, Held
<1>3. OneFlush' /\ SentQueued'
  BY <1>1 DEF OfflineInv, OneFlush, SentQueued, Busy, InQueue
<1>4. ASSUME NEW x, Sent(x) PROVE Sent(x)'
  BY <1>1, <1>4 DEF Sent
<1>5. ASSUME NEW i, Acknowledged(i) PROVE Acknowledged(i)'
  BY <1>5 DEF Acknowledged
<1>6. RequestsSent' /\ RepliesSent' /\ OneAnswer'
  BY <1>4, <1>5 DEF OfflineInv, RequestsSent, RepliesSent, OneAnswer, Awaited
<1> QED BY <1>2, <1>3, <1>6, RowsKept DEF OfflineInv

\* A request goes out: what it carries.
LEMMA PostedRequest ==
  ASSUME NEW t, NEW from, NEW i, Post(t, from, i), Formed(i)
  PROVE  \E r : /\ requests' = requests \cup {r}
                /\ FreshRequest(r, i.id, i.form) /\ r.token = pages[t]
                /\ r.data = i.data /\ r.tab = t /\ r.from = from
<1> DEFINE marks == [k \in i.id |-> "none"]
           r == [n |-> spent.requests, tab |-> t, from |-> from, id |-> i.id, form |-> i.form,
                 data |-> i.data, cookie |-> session, token |-> pages[t], pc |-> "admit",
                 left |-> i.id, states |-> marks]
<1>1. requests' = requests \cup {r}
  BY DEF Post
<1>2. DOMAIN marks = i.id /\ \A k \in i.id : marks[k] = "none"
  OBVIOUS
<1> HIDE DEF marks
<1>3. /\ DOMAIN r = RequestFields /\ r.id = i.id /\ r.form = i.form /\ r.data = i.data /\ r.tab = t
      /\ r.from = from /\ r.token = pages[t] /\ r.pc = "admit" /\ r.states = marks
  BY DEF RequestFields
<1> HIDE DEF r
<1>4. FreshRequest(r, i.id, i.form)
  BY <1>2, <1>3 DEF FreshRequest, Formed
<1> QED BY <1>1, <1>3, <1>4

LEMMA SendStep ==
  ASSUME OfflineInv, NEW t \in Tabs, NEW S, sender[t].pc = "next", ~Skipped(S, t),
         Post(t, "flush", Stored(S)),
         UNCHANGED <<queue, pages, form, author, replies, entries, booked>>,
         NEW row, sender' = [sender EXCEPT ![t] = row],
         DOMAIN row = SenderFields, row.pc = "sent", row.item = S
  PROVE  OfflineInv'
<1> DEFINE i == Stored(S)
<1>1. i \in queue /\ i.id = S /\ i.user = pages[t]
  BY StoredIs DEF Skipped, OwnedByCurrentUser
<1> HIDE DEF i
<1>2. Formed(i) /\ i \in Held
  BY <1>1 DEF OfflineInv, ItemsHeld, Held
<1>3. PICK r : /\ requests' = requests \cup {r}
               /\ FreshRequest(r, i.id, i.form) /\ r.token = pages[t]
               /\ r.data = i.data /\ r.tab = t /\ r.from = "flush"
  BY <1>2, PostedRequest DEF i
<1>4. /\ DOMAIN sender = Tabs /\ sender'[t] = row
      /\ \A u \in Tabs \ {t} : sender'[u] = sender[u]
  BY DEF OfflineInv, Tables
<1>5. Tables' /\ ItemsApart' /\ Held' = Held
  BY <1>4 DEF OfflineInv, Tables, ItemsApart, Held
<1>6. OneFlush' /\ SentQueued'
  BY <1>1, <1>4 DEF OfflineInv, OneFlush, SentQueued, Busy, InQueue
<1>7. /\ ItemsHeld' /\ RequestsHeld' /\ SameBooking'
      /\ BookedHeld' /\ StoredBooked' /\ HelpersBooked' /\ RowsSettled'
  <2>1. \E f, u : Drawn({}, u) /\ ItemsFrom({}, f, u) /\ RequestsFrom({}, f, u)
    <3>1. Drawn({}, Nobody) /\ ItemsFrom({}, "old", Nobody)
      BY <1>5, NothingDrawn, SameItems
    <3>2. \A x \in requests : SameRequest(x, x)
      BY DEF SameRequest, OfflineInv, RequestsHeld
    <3>3. RequestsFrom({}, "old", Nobody)
      BY <1>1, <1>2, <1>3, <3>2 DEF RequestsFrom
    <3> QED BY <3>1, <3>3
  <2> QED BY <2>1, ClientRows
<1>8. /\ \A x \in requests : Awaited(x) => x.tab # t
      /\ \A a \in replies : a.from = "flush" => a.tab # t
  BY DEF OfflineInv, RequestsSent, RepliesSent, Sent
<1>9. ASSUME NEW x, Sent(x) PROVE Sent(x)'
  BY <1>4, <1>9 DEF Sent
<1>10. RequestsSent'
  <2>1. Sent(r)'
    BY <1>1, <1>3, <1>4 DEF Sent, FreshRequest
  <2>2. \A j \in queue : j.id = r.id => j.form = r.form /\ j.data = r.data
    BY <1>1, <1>3 DEF OfflineInv, ItemsApart, FreshRequest
  <2> QED BY <1>3, <1>9, <2>1, <2>2 DEF OfflineInv, RequestsSent, Awaited
<1>11. RepliesSent'
  <2>1. ASSUME NEW j, Acknowledged(j) PROVE Acknowledged(j)'
    BY <2>1 DEF Acknowledged
  <2> QED BY <1>9, <2>1 DEF OfflineInv, RepliesSent
<1>12. OneAnswer'
  BY <1>3, <1>8 DEF OfflineInv, OneAnswer, Awaited
<1> QED BY <1>5, <1>6, <1>7, <1>10, <1>11, <1>12 DEF OfflineInv

LEMMA SendAllStep ==
  ASSUME OfflineInv, NEW t \in Tabs, SendAll(t)
  PROVE  OfflineInv'
<1>1. /\ sender[t].pc = "next" /\ sender[t].item = {} /\ DOMAIN sender[t] = SenderFields /\ DOMAIN sender = Tabs
      /\ UNCHANGED <<queue, pages, form, author, replies, entries, booked>>
  BY DEF SendAll, server, OfflineInv, SentQueued, Tables
<1>2. CASE sender' = [sender EXCEPT ![t] = Resting] /\ UNCHANGED requests
  <2>1. DOMAIN Resting = SenderFields /\ Resting.pc = "idle" /\ Resting.item = {}
    BY DEF Resting, SenderFields
  <2> QED BY <1>1, <1>2, <2>1, SkipStep
<1>3. ASSUME NEW S, sender' = [sender EXCEPT ![t].todo = @ \ {S}], UNCHANGED requests
      PROVE  OfflineInv'
  <2> DEFINE row == [sender[t] EXCEPT !.todo = @ \ {S}]
  <2>1. sender' = [sender EXCEPT ![t] = row]
    BY <1>1, <1>3
  <2>2. DOMAIN row = SenderFields /\ row.pc = "next" /\ row.item = {}
    BY <1>1 DEF SenderFields
  <2> HIDE DEF row
  <2> QED BY <1>1, <1>3, <2>1, <2>2, SkipStep
<1>4. ASSUME NEW S, ~Skipped(S, t), Post(t, "flush", Stored(S)),
             sender' = [sender EXCEPT ![t].todo = @ \ {S}, ![t].item = S, ![t].pc = "sent"]
      PROVE  OfflineInv'
  <2> DEFINE row == [sender[t] EXCEPT !.todo = @ \ {S}, !.item = S, !.pc = "sent"]
  <2>1. sender' = [sender EXCEPT ![t] = row]
    BY <1>1, <1>4
  <2>2. DOMAIN row = SenderFields /\ row.pc = "sent" /\ row.item = S
    BY <1>1 DEF SenderFields
  <2> HIDE DEF row
  <2>3. sender[t].pc = "next" /\ ~Skipped(S, t) /\ Post(t, "flush", Stored(S))
    BY <1>1, <1>4
  <2>4. UNCHANGED <<queue, pages, form, author, replies, entries, booked>>
    BY <1>1
  <2> QED BY ONLY OfflineInv, <2>1, <2>2, <2>3, <2>4, SendStep
<1> QED BY <1>2, <1>3, <1>4 DEF SendAll


\* A form is filled in: the item it makes.
LEMMA FilledItem ==
  ASSUME NEW t \in Tabs, NEW f, NEW S \in SUBSET Keys, NEW d \in [S -> Contents], Fills(t, f, S, d)
  PROVE  /\ FreshItem(Item(S, f, pages[t], d), S, f, pages[t])
         /\ Drawn(S, pages[t]) /\ S # {} /\ form[t] = {}
<1> DEFINE i == Item(S, f, pages[t], d)
<1>1. DOMAIN i = ItemFields /\ i.id = S /\ i.form = f /\ i.user = pages[t] /\ i.data = d
  BY DEF Item, ItemFields
<1> HIDE DEF i
<1>2. f # "quick" => \A k, l \in S : k = l
  BY OneKey DEF Fills
<1>3. \A k \in S : d[k] \in Contents /\ Offered(f, d[k])
  BY DEF Fills
<1>4. Formed(i)
  BY <1>1, <1>2, <1>3 DEF Formed, Fills
<1> QED BY <1>1, <1>4 DEF FreshItem, Drawn, Fills, i

LEMMA CaptureStep ==
  ASSUME OfflineInv, NEW t \in Tabs, NEW f, NEW S \in SUBSET Keys, NEW d \in [S -> Contents],
         Capture(t, f, S, d)
  PROVE  OfflineInv'
<1> DEFINE i == Item(S, f, pages[t], d)
<1>1. /\ FreshItem(i, S, f, pages[t]) /\ Drawn(S, pages[t]) /\ S # {}
  BY FilledItem DEF Capture
<1>2. /\ queue' = {j \in queue : j.id # i.id} \cup {i}
      /\ UNCHANGED <<pages, form, sender, requests, replies, entries, booked>>
  BY DEF Capture, Put, wire, server
<1> HIDE DEF i
<1>3. ASSUME NEW x \in Carriers PROVE x.id # S
  <2>1. PICK k \in x.id : author[k] # Nobody
    BY DEF OfflineInv, ItemsHeld, RequestsHeld, Carriers, Formed
  <2> QED BY <1>1, <2>1 DEF Drawn
<1>4. queue' = queue \cup {i} /\ Held' = Held \cup {i}
  <2>1. \A j \in queue : j.id # i.id
    BY <1>1, <1>3 DEF Carriers, Held, FreshItem
  <2> QED BY <1>2, <2>1 DEF Held
<1>5. Tables' /\ OneFlush' /\ OneAnswer'
  BY <1>2 DEF OfflineInv, Tables, OneFlush, Busy, OneAnswer
<1>6. ItemsApart'
  BY <1>1, <1>2, <1>3, <1>4 DEF OfflineInv, ItemsApart, Carriers, Held, FreshItem
<1>7. SentQueued'
  BY <1>2, <1>4 DEF OfflineInv, SentQueued, InQueue
<1>8. ItemsFrom(S, f, pages[t]) /\ RequestsFrom(S, f, pages[t])
  <2>1. \A j \in Held : SameItem(j, j)
    BY DEF OfflineInv, ItemsHeld, SameItem
  <2> QED BY <1>1, <1>2, <1>4, <2>1, SameRequests DEF ItemsFrom
<1>9. /\ ItemsHeld' /\ RequestsHeld' /\ SameBooking'
      /\ BookedHeld' /\ StoredBooked' /\ HelpersBooked' /\ RowsSettled'
  <2>1. \E u : Drawn(S, u) /\ ItemsFrom(S, f, u) /\ RequestsFrom(S, f, u)
    BY <1>1, <1>8
  <2> QED BY <1>2, <2>1, ClientRows
<1>10. \A r \in requests : r.id # S
  BY <1>3 DEF Carriers
<1>11. RequestsSent'
  BY <1>1, <1>2, <1>4, <1>10 DEF OfflineInv, RequestsSent, Sent, FreshItem
<1>12. RepliesSent'
  <2>1. ASSUME NEW j, Acknowledged(j) PROVE Acknowledged(j)'
    BY <1>2, <2>1 DEF Acknowledged
  <2>2. ASSUME NEW a \in replies, a.from = "flush" PROVE a.id # S
    <3>1. Sent(a)
      BY <2>2 DEF OfflineInv, RepliesSent
    <3>2. \E j \in queue : j.id = a.id
      BY <3>1 DEF Sent, OfflineInv, SentQueued, InQueue
    <3> QED BY <1>3, <3>2 DEF Carriers, Held
  <2> QED BY <1>1, <1>2, <1>4, <2>1, <2>2 DEF OfflineInv, RepliesSent, Sent, FreshItem
<1> QED BY <1>5, <1>6, <1>7, <1>9, <1>11, <1>12 DEF OfflineInv

LEMMA SendOnlineStep ==
  ASSUME OfflineInv, NEW t \in Tabs, NEW f, NEW S \in SUBSET Keys, NEW d \in [S -> Contents],
         SendOnline(t, f, S, d)
  PROVE  OfflineInv'
<1> DEFINE i == Item(S, f, pages[t], d)
<1>1. /\ FreshItem(i, S, f, pages[t]) /\ Drawn(S, pages[t]) /\ S # {} /\ form[t] = {}
  BY FilledItem DEF SendOnline
<1>2. /\ form' = [form EXCEPT ![t] = {i}] /\ Post(t, "form", i)
      /\ UNCHANGED <<queue, pages, sender, replies, entries, booked>>
  BY DEF SendOnline, server
<1> HIDE DEF i
<1>3. ASSUME NEW x \in Carriers PROVE x.id # S
  <2>1. PICK k \in x.id : author[k] # Nobody
    BY DEF OfflineInv, ItemsHeld, RequestsHeld, Carriers, Formed
  <2> QED BY <1>1, <2>1 DEF Drawn
<1>4. PICK r : /\ requests' = requests \cup {r}
               /\ FreshRequest(r, S, f) /\ r.token = pages[t] /\ r.tab = t /\ r.from = "form"
  BY <1>1, <1>2, PostedRequest DEF FreshItem
<1>5. DOMAIN form = Tabs /\ form'[t] = {i} /\ \A u \in Tabs \ {t} : form'[u] = form[u]
  BY <1>2 DEF OfflineInv, Tables
<1>6. Held' = Held \cup {i}
  BY <1>1, <1>2, <1>5 DEF Held
<1>7. Tables' /\ OneFlush' /\ SentQueued'
  BY <1>2 DEF OfflineInv, Tables, OneFlush, Busy, SentQueued, InQueue
<1>8. ItemsApart'
  BY <1>1, <1>2, <1>3, <1>5 DEF OfflineInv, ItemsApart, Carriers, Held, FreshItem
<1>9. /\ ItemsHeld' /\ RequestsHeld' /\ SameBooking'
      /\ BookedHeld' /\ StoredBooked' /\ HelpersBooked' /\ RowsSettled'
  <2>1. \A j \in Held : SameItem(j, j)
    BY DEF OfflineInv, ItemsHeld, SameItem
  <2>2. \A x \in requests : SameRequest(x, x)
    BY DEF SameRequest, OfflineInv, RequestsHeld
  <2>3. \E u : Drawn(S, u) /\ ItemsFrom(S, f, u) /\ RequestsFrom(S, f, u)
    BY <1>1, <1>4, <1>6, <2>1, <2>2 DEF ItemsFrom, RequestsFrom
  <2> QED BY <1>2, <2>3, ClientRows
<1>10. ASSUME NEW j, Acknowledged(j) PROVE Acknowledged(j)'
  BY <1>2, <1>10 DEF Acknowledged
<1>11. RequestsSent' /\ RepliesSent' /\ OneAnswer'
  BY <1>2, <1>4, <1>10 DEF OfflineInv, RequestsSent, RepliesSent, OneAnswer, Awaited, Sent
<1> QED BY <1>7, <1>8, <1>9, <1>11 DEF OfflineInv

\* An answer changes what an item needs, never the booking in it.
LEMMA RememberKeeps ==
  ASSUME NEW i, NEW a, DOMAIN i = ItemFields
  PROVE  /\ DOMAIN Remember(i, a) = ItemFields
         /\ Remember(i, a).id = i.id /\ Remember(i, a).form = i.form
         /\ Remember(i, a).user = i.user /\ Remember(i, a).data = i.data
<1>1. CASE a.says \in {"check", "stored"}
  BY <1>1 DEF Remember, ItemFields
<1>2. CASE a.says = "refused"
  BY <1>2 DEF Remember, ItemFields
<1>3. CASE a.says \notin {"check", "stored", "refused"}
  BY <1>3 DEF Remember
<1> QED BY <1>1, <1>2, <1>3

\* The items of the queue and what becomes of them when one is answered.
LEMMA AnsweredItems ==
  ASSUME OfflineInv, NEW a,
         queue' = IF a.says = "saved" THEN Del(a.id)
                  ELSE {IF i.id = a.id THEN Remember(i, a) ELSE i : i \in queue}
  PROVE  /\ \A i \in queue' : \E j \in queue : SameItem(i, j) /\ i.data = j.data
         /\ \A i, j \in queue' : i.id = j.id => i = j
         /\ \A j \in queue : j.id # a.id => j \in queue'
<1>0. \A j \in queue : DOMAIN j = ItemFields /\ Formed(j)
  BY DEF OfflineInv, ItemsHeld, Held
<1>1. ASSUME NEW j \in queue
      PROVE  SameItem(j, j) /\ SameItem(Remember(j, a), j) /\ Remember(j, a).data = j.data
  BY <1>0, RememberKeeps DEF SameItem, Formed
<1>2. \A i, j \in queue : i.id = j.id => i = j
  BY DEF OfflineInv, ItemsApart
<1>3. CASE a.says = "saved"
  BY <1>1, <1>2, <1>3 DEF Del
<1>4. CASE a.says # "saved"
  <2>1. queue' = {IF i.id = a.id THEN Remember(i, a) ELSE i : i \in queue}
    BY <1>4
  <2>2. ASSUME NEW i \in queue'
        PROVE  \E j \in queue : SameItem(i, j) /\ i.data = j.data
                                /\ i = IF j.id = a.id THEN Remember(j, a) ELSE j
    BY <1>1, <2>1
  <2>3. ASSUME NEW i \in queue', NEW j \in queue', i.id = j.id PROVE i = j
    <3>1. PICK x \in queue : i.id = x.id /\ i = IF x.id = a.id THEN Remember(x, a) ELSE x
      BY <2>2 DEF SameItem
    <3>2. PICK y \in queue : j.id = y.id /\ j = IF y.id = a.id THEN Remember(y, a) ELSE y
      BY <2>2 DEF SameItem
    <3> QED BY <1>2, <2>3, <3>1, <3>2
  <2>4. \A j \in queue : j.id # a.id => j \in queue'
    BY <2>1
  <2> QED BY <2>2, <2>3, <2>4
<1> QED BY <1>3, <1>4

LEMMA AnswerStep ==
  ASSUME OfflineInv, NEW t \in Tabs, Send(t)
  PROVE  OfflineInv'
<1> DEFINE row == [sender[t] EXCEPT !.pc = "next", !.item = {}]
<1>1. PICK a \in replies :
        /\ a.tab = t /\ a.from = "flush" /\ sender[t].pc = "sent" /\ a.id = sender[t].item
        /\ replies' = replies \ {a}
        /\ queue' = IF a.says = "saved" THEN Del(a.id)
                    ELSE {IF i.id = a.id THEN Remember(i, a) ELSE i : i \in queue}
        /\ sender' = [sender EXCEPT ![t].pc = "next", ![t].item = {}]
        /\ UNCHANGED <<pages, form, requests, author, entries, booked>>
  BY DEF Send, server
<1>2. DOMAIN sender = Tabs /\ DOMAIN sender[t] = SenderFields /\ DOMAIN form = Tabs
  BY DEF OfflineInv, Tables
<1>3. sender' = [sender EXCEPT ![t] = row]
  BY <1>1, <1>2
<1>4. DOMAIN row = SenderFields /\ row.pc = "next" /\ row.item = {}
  BY <1>2 DEF SenderFields
<1> HIDE DEF row
<1>5. sender'[t] = row /\ \A u \in Tabs \ {t} : sender'[u] = sender[u]
  BY <1>2, <1>3
<1>6. /\ \A i \in queue' : \E j \in queue : SameItem(i, j) /\ i.data = j.data
      /\ \A i, j \in queue' : i.id = j.id => i = j
      /\ \A j \in queue : j.id # a.id => j \in queue'
  BY <1>1, AnsweredItems
<1>7. Tables'
  BY <1>1, <1>3, <1>4, <1>5 DEF OfflineInv, Tables
<1>8. \A u \in Tabs \ {t} : sender[u].pc = "idle"
  BY <1>1 DEF OfflineInv, OneFlush, Busy
<1>9. OneFlush' /\ SentQueued'
  BY <1>4, <1>5, <1>8 DEF OfflineInv, OneFlush, SentQueued, Busy
<1>10. ItemsApart'
  <2>1. \A i \in queue' : \E j \in queue : i.id = j.id
    BY <1>6 DEF SameItem
  <2> QED BY <1>1, <1>6, <2>1 DEF OfflineInv, ItemsApart
<1>11. /\ ItemsHeld' /\ RequestsHeld' /\ SameBooking'
       /\ BookedHeld' /\ StoredBooked' /\ HelpersBooked' /\ RowsSettled'
  <2>1. \A j \in Held : SameItem(j, j)
    BY DEF OfflineInv, ItemsHeld, SameItem
  <2>2. ASSUME NEW i \in Held' PROVE \E j \in Held : SameItem(i, j)
    <3>1. i \in queue' \/ i \in Held
      BY <1>1 DEF Held
    <3>2. \A j \in queue : j \in Held
      BY DEF Held
    <3> QED BY <1>6, <2>1, <3>1, <3>2
  <2>3. \E f, u : Drawn({}, u) /\ ItemsFrom({}, f, u) /\ RequestsFrom({}, f, u)
    <3>1. Drawn({}, Nobody) /\ ItemsFrom({}, "old", Nobody) /\ RequestsFrom({}, "old", Nobody)
      BY <1>1, <2>2, NothingDrawn, SameRequests DEF ItemsFrom
    <3> QED BY <3>1
  <2> QED BY <1>1, <2>3, ClientRows
<1>12. /\ \A r \in requests : ~Awaited(r)
       /\ \A b \in replies' : b.from # "flush"
  <2>1. ASSUME NEW r \in requests, Awaited(r) PROVE FALSE
    <3>1. r.tab = t
      BY <1>8, <2>1 DEF OfflineInv, RequestsSent, Sent
    <3> QED BY <1>1, <2>1, <3>1 DEF OfflineInv, OneAnswer
  <2>2. ASSUME NEW b \in replies', b.from = "flush" PROVE FALSE
    <3>1. b \in replies /\ b # a
      BY <1>1, <2>2
    <3>2. b.tab = t
      BY <1>8, <2>2, <3>1 DEF OfflineInv, RepliesSent, Sent
    <3> QED BY <1>1, <2>2, <3>1, <3>2 DEF OfflineInv, OneAnswer
  <2> QED BY <2>1, <2>2
<1>13. RequestsSent' /\ RepliesSent' /\ OneAnswer'
  BY <1>1, <1>12 DEF OfflineInv, RequestsSent, RepliesSent, OneAnswer, Awaited
<1> QED BY <1>7, <1>9, <1>10, <1>11, <1>13 DEF OfflineInv


\* A form, or a sender, stops waiting: an answer shows, or nothing came.
LEMMA FormAnsweredStep ==
  ASSUME OfflineInv, NEW t \in Tabs, FormAnswered(t)
  PROVE  OfflineInv'
<1>1. PICK a \in replies : a.from = "form" /\ replies' = replies \ {a}
  BY DEF FormAnswered
<1>2. /\ form' = [form EXCEPT ![t] = {}]
      /\ UNCHANGED <<queue, pages, sender, requests, author, entries, booked>>
  BY DEF FormAnswered, server
<1>3. DOMAIN form = Tabs /\ form'[t] = {} /\ \A u \in Tabs \ {t} : form'[u] = form[u]
  BY <1>2 DEF OfflineInv, Tables
<1>4. Held' \subseteq Held
  BY <1>2, <1>3 DEF Held
<1>5. Tables' /\ OneFlush' /\ SentQueued'
  BY <1>2 DEF OfflineInv, Tables, OneFlush, Busy, SentQueued, InQueue
<1>6. ItemsApart'
  BY <1>2, <1>3 DEF OfflineInv, ItemsApart
<1>7. ASSUME NEW j, Acknowledged(j) PROVE Acknowledged(j)'
  BY <1>2, <1>7 DEF Acknowledged
<1>8. RequestsSent' /\ RepliesSent' /\ OneAnswer'
  BY <1>1, <1>2, <1>7 DEF OfflineInv, RequestsSent, RepliesSent, OneAnswer, Awaited, Sent
<1> QED BY <1>2, <1>4, <1>5, <1>6, <1>8, RowsKept DEF OfflineInv

\* The requests a page gives up go on without it; their answers are gone.
LEMMA Forgotten ==
  ASSUME OfflineInv, NEW t, NEW from, Forget(t, from)
  PROVE  /\ \A r \in requests' : \E s \in requests :
              /\ SameRequest(r, s) /\ r.id = s.id /\ r.form = s.form /\ r.data = s.data /\ r.from = s.from
              /\ r = s \/ r.tab = Nobody
              /\ s.tab = t /\ s.from = from => r.tab = Nobody
         /\ \A a \in replies' : a \in replies /\ ~(a.tab = t /\ a.from = from)
<1>1. ASSUME NEW s \in requests
      PROVE  /\ DOMAIN s = RequestFields /\ SameRequest(s, s)
             /\ SameRequest([s EXCEPT !.tab = Nobody], s)
             /\ [s EXCEPT !.tab = Nobody].tab = Nobody
             /\ [s EXCEPT !.tab = Nobody].from = s.from /\ [s EXCEPT !.tab = Nobody].id = s.id
             /\ [s EXCEPT !.tab = Nobody].form = s.form /\ [s EXCEPT !.tab = Nobody].data = s.data
  <2>1. DOMAIN s = RequestFields
    BY DEF OfflineInv, RequestsHeld
  <2> QED BY <2>1 DEF SameRequest, RequestFields
<1>2. ASSUME NEW r \in requests'
      PROVE  \E s \in requests :
              /\ SameRequest(r, s) /\ r.id = s.id /\ r.form = s.form /\ r.data = s.data /\ r.from = s.from
              /\ r = s \/ r.tab = Nobody
              /\ s.tab = t /\ s.from = from => r.tab = Nobody
  <2>1. PICK s \in requests : r = IF s.tab = t /\ s.from = from THEN [s EXCEPT !.tab = Nobody] ELSE s
    BY DEF Forget
  <2> QED BY <1>1, <2>1
<1>3. \A a \in replies' : a \in replies /\ ~(a.tab = t /\ a.from = from)
  BY DEF Forget
<1> QED BY <1>2, <1>3

LEMMA ForgottenRequests ==
  ASSUME OfflineInv, NEW t, NEW from, Forget(t, from), NEW S, NEW f, NEW u
  PROVE  RequestsFrom(S, f, u)
BY Forgotten DEF RequestsFrom

LEMMA ForgottenAnswers ==
  ASSUME OfflineInv, NEW t, NEW from, Forget(t, from)
  PROVE  OneAnswer'
<1>1. ASSUME NEW r \in requests', Awaited(r) PROVE r \in requests
  BY <1>1, Forgotten DEF Awaited
<1>2. \A a \in replies' : a \in replies
  BY Forgotten
<1> QED BY <1>1, <1>2 DEF OfflineInv, OneAnswer, Awaited

LEMMA FormFailsStep ==
  ASSUME OfflineInv, NEW t \in Tabs, form[t] # {}, Forget(t, "form"), FormFails(t),
         UNCHANGED <<pages, sender, author, entries, booked>>
  PROVE  OfflineInv'
<1>1. queue' = queue \cup form[t] /\ form' = [form EXCEPT ![t] = {}]
  BY DEF FormFails
<1>2. DOMAIN form = Tabs /\ form'[t] = {} /\ \A u \in Tabs \ {t} : form'[u] = form[u]
  BY <1>1 DEF OfflineInv, Tables
<1>3. Held' \subseteq Held
  BY <1>1, <1>2 DEF Held
<1>4. Tables' /\ OneFlush' /\ SentQueued'
  BY <1>1 DEF OfflineInv, Tables, OneFlush, Busy, SentQueued, InQueue
<1>5. ItemsApart'
  BY <1>1, <1>2 DEF OfflineInv, ItemsApart
<1>6. /\ ItemsHeld' /\ RequestsHeld' /\ SameBooking'
      /\ BookedHeld' /\ StoredBooked' /\ HelpersBooked' /\ RowsSettled'
  <2>1. Drawn({}, Nobody) /\ ItemsFrom({}, "old", Nobody) /\ RequestsFrom({}, "old", Nobody)
    BY <1>3, NothingDrawn, SameItems, ForgottenRequests
  <2>2. \E f, u : Drawn({}, u) /\ ItemsFrom({}, f, u) /\ RequestsFrom({}, f, u)
    BY <2>1
  <2> QED BY <2>2, ClientRows
<1>7. ASSUME NEW x, Sent(x), NEW i \in queue', i.id = x.id PROVE i \in queue
  <2>1. PICK j \in queue : j.id = x.id
    BY <1>7 DEF Sent, OfflineInv, SentQueued, InQueue
  <2>2. i \notin form[t]
    BY <1>7, <2>1 DEF OfflineInv, ItemsApart
  <2> QED BY <1>1, <1>7, <2>2
<1>8. RequestsSent'
  <2>1. ASSUME NEW r \in requests', Awaited(r)
        PROVE  Sent(r) /\ \A i \in queue' : i.id = r.id => i.form = r.form /\ i.data = r.data
    <3>1. r \in requests
      BY <2>1, Forgotten DEF Awaited
    <3> QED BY <1>7, <2>1, <3>1 DEF OfflineInv, RequestsSent
  <2> QED BY <2>1 DEF RequestsSent, Awaited, Sent
<1>9. RepliesSent'
  <2>1. ASSUME NEW j, Acknowledged(j) PROVE Acknowledged(j)'
    BY <2>1 DEF Acknowledged
  <2>2. \A a \in replies' : a \in replies
    BY Forgotten
  <2> QED BY <1>7, <2>1, <2>2 DEF OfflineInv, RepliesSent, Sent
<1>10. OneAnswer'
  BY ForgottenAnswers
<1> QED BY <1>4, <1>5, <1>6, <1>8, <1>9, <1>10 DEF OfflineInv

\* The sender of t forgets what it sent; it rests or takes the next item.
LEMMA GiveUpStep ==
  ASSUME OfflineInv, NEW t \in Tabs, Forget(t, "flush"), DOMAIN pages' = Tabs,
         UNCHANGED <<queue, form, author, entries, booked>>,
         NEW row, sender' = [sender EXCEPT ![t] = row],
         DOMAIN row = SenderFields, row.pc \in {"next", "idle"}, row.item = {},
         sender[t].pc # "idle" \/ row.pc = "idle"
  PROVE  OfflineInv'
<1>1. DOMAIN sender = Tabs /\ sender'[t] = row /\ \A u \in Tabs \ {t} : sender'[u] = sender[u]
  BY DEF OfflineInv, Tables
<1>2. Tables' /\ ItemsApart' /\ Held' = Held
  BY <1>1 DEF OfflineInv, Tables, ItemsApart, Held
<1>3. OneFlush' /\ SentQueued'
  BY <1>1 DEF OfflineInv, OneFlush, SentQueued, Busy, InQueue
<1>4. /\ ItemsHeld' /\ RequestsHeld' /\ SameBooking'
      /\ BookedHeld' /\ StoredBooked' /\ HelpersBooked' /\ RowsSettled'
  <2>1. Drawn({}, Nobody) /\ ItemsFrom({}, "old", Nobody) /\ RequestsFrom({}, "old", Nobody)
    BY <1>2, NothingDrawn, SameItems, ForgottenRequests
  <2>2. \E f, u : Drawn({}, u) /\ ItemsFrom({}, f, u) /\ RequestsFrom({}, f, u)
    BY <2>1
  <2> QED BY <2>2, ClientRows
<1>5. ASSUME NEW x, Sent(x), x.tab # t PROVE Sent(x)'
  BY <1>1, <1>5 DEF Sent
<1>6. RequestsSent'
  <2>1. ASSUME NEW r \in requests', Awaited(r) PROVE r \in requests /\ r.tab # t
    BY <2>1, Forgotten DEF Awaited
  <2> QED BY <1>5, <2>1 DEF OfflineInv, RequestsSent, Awaited
<1>7. RepliesSent'
  <2>1. ASSUME NEW j, Acknowledged(j) PROVE Acknowledged(j)'
    BY <2>1 DEF Acknowledged
  <2>2. \A a \in replies' : a \in replies /\ (a.from = "flush" => a.tab # t)
    BY Forgotten
  <2> QED BY <1>5, <2>1, <2>2 DEF OfflineInv, RepliesSent
<1>8. OneAnswer'
  BY ForgottenAnswers
<1> QED BY <1>2, <1>3, <1>4, <1>6, <1>7, <1>8 DEF OfflineInv

LEMMA TimedFetchStep ==
  ASSUME OfflineInv, NEW t \in Tabs, TimedFetch(t)
  PROVE  OfflineInv'
<1>1. UNCHANGED <<pages, author, entries, booked>> /\ DOMAIN sender = Tabs /\ DOMAIN pages = Tabs
  BY DEF TimedFetch, server, OfflineInv, Tables
<1>2. CASE form[t] # {} /\ Forget(t, "form") /\ FormFails(t) /\ UNCHANGED sender
  BY <1>1, <1>2, FormFailsStep
<1>3. CASE /\ sender[t].pc = "sent" /\ Forget(t, "flush") /\ UNCHANGED <<queue, form>>
           /\ sender' = [sender EXCEPT ![t].pc = "next", ![t].item = {}]
  <2> DEFINE row == [sender[t] EXCEPT !.pc = "next", !.item = {}]
  <2>1. sender' = [sender EXCEPT ![t] = row]
    BY <1>1, <1>3
  <2>2. DOMAIN sender[t] = SenderFields
    BY DEF OfflineInv, Tables
  <2>3. DOMAIN row = SenderFields /\ row.pc = "next" /\ row.item = {}
    BY <2>2 DEF SenderFields
  <2> HIDE DEF row
  <2>4. sender[t].pc # "idle" /\ Forget(t, "flush") /\ DOMAIN pages' = Tabs
    BY <1>1, <1>3
  <2>5. UNCHANGED <<queue, form, author, entries, booked>>
    BY <1>1, <1>3
  <2> QED BY ONLY OfflineInv, <2>1, <2>3, <2>4, <2>5, GiveUpStep
<1> QED BY <1>2, <1>3 DEF TimedFetch

LEMMA CloseTabStep ==
  ASSUME OfflineInv, NEW t \in Tabs, CloseTab(t)
  PROVE  OfflineInv'
<1>1. DOMAIN Resting = SenderFields /\ Resting.pc = "idle" /\ Resting.item = {}
  BY DEF Resting, SenderFields
<1>2. Forget(t, "flush") /\ DOMAIN pages' = Tabs /\ sender' = [sender EXCEPT ![t] = Resting]
  BY DEF CloseTab, OfflineInv, Tables
<1>3. UNCHANGED <<queue, form, author, entries, booked>>
  BY DEF CloseTab, server
<1> QED BY ONLY OfflineInv, <1>1, <1>2, <1>3, GiveUpStep


\* Pages and sessions come and go; a queue nobody sends from is edited.
LEMMA PagesStep ==
  ASSUME OfflineInv, DOMAIN pages' = Tabs,
         UNCHANGED <<queue, form, sender, author, requests, replies, entries, booked>>
  PROVE  OfflineInv'
<1>1. Tables' /\ ItemsApart' /\ Held' = Held /\ OneFlush' /\ SentQueued'
  BY DEF OfflineInv, Tables, ItemsApart, Held, OneFlush, Busy, SentQueued, InQueue
<1>2. ASSUME NEW j, Acknowledged(j) PROVE Acknowledged(j)'
  BY <1>2 DEF Acknowledged
<1>3. RequestsSent' /\ RepliesSent' /\ OneAnswer'
  BY <1>2 DEF OfflineInv, RequestsSent, RepliesSent, OneAnswer, Awaited, Sent
<1> QED BY <1>1, <1>3, RowsKept DEF OfflineInv

LEMMA EditStep ==
  ASSUME OfflineInv, LockFree, DOMAIN pages' = Tabs,
         UNCHANGED <<form, sender, author, requests, replies, entries, booked>>,
         \A i \in queue' : \E j \in queue : SameItem(i, j),
         \A i, j \in queue' : i.id = j.id => i = j
  PROVE  OfflineInv'
<1>1. \A t \in Tabs : sender[t].pc = "idle"
  BY DEF LockFree, Busy
<1>2. Tables' /\ OneFlush' /\ SentQueued'
  BY <1>1 DEF OfflineInv, Tables, OneFlush, Busy, SentQueued
<1>3. ItemsApart'
  BY DEF OfflineInv, ItemsApart, SameItem
<1>4. /\ ItemsHeld' /\ RequestsHeld' /\ SameBooking'
      /\ BookedHeld' /\ StoredBooked' /\ HelpersBooked' /\ RowsSettled'
  <2>1. ASSUME NEW i \in Held' PROVE \E j \in Held : SameItem(i, j)
    <3>1. i \in queue' \/ i \in Held
      BY DEF Held
    <3>2. \A j \in queue : j \in Held
      BY DEF Held
    <3>3. \A j \in Held : SameItem(j, j)
      BY DEF OfflineInv, ItemsHeld, SameItem
    <3> QED BY <3>1, <3>2, <3>3
  <2>2. \E f, u : Drawn({}, u) /\ ItemsFrom({}, f, u) /\ RequestsFrom({}, f, u)
    <3>1. Drawn({}, Nobody) /\ ItemsFrom({}, "old", Nobody) /\ RequestsFrom({}, "old", Nobody)
      BY <2>1, NothingDrawn, SameRequests DEF ItemsFrom
    <3> QED BY <3>1
  <2> QED BY <2>2, ClientRows
<1>5. (\A r \in requests : ~Awaited(r)) /\ (\A a \in replies : a.from # "flush")
  BY <1>1 DEF OfflineInv, RequestsSent, RepliesSent, Sent
<1>6. RequestsSent' /\ RepliesSent' /\ OneAnswer'
  BY <1>5 DEF OfflineInv, RequestsSent, RepliesSent, OneAnswer, Awaited
<1> QED BY <1>2, <1>3, <1>4, <1>6 DEF OfflineInv

LEMMA FewerItems ==
  ASSUME OfflineInv, queue' \subseteq queue
  PROVE  /\ \A i \in queue' : \E j \in queue : SameItem(i, j)
         /\ \A i, j \in queue' : i.id = j.id => i = j
<1>1. \A i \in queue : SameItem(i, i)
  BY DEF OfflineInv, ItemsHeld, Held, SameItem
<1>2. \A i, j \in queue : i.id = j.id => i = j
  BY DEF OfflineInv, ItemsApart
<1> QED BY <1>1, <1>2

LEMMA CorrectStep ==
  ASSUME OfflineInv, NEW t \in Tabs, NEW S, NEW d, CorrectRejected(t, S, d), d \in [S -> Contents]
  PROVE  OfflineInv'
<1> DEFINE i == Stored(S)
           row == [i EXCEPT !.data = d]
<1>1. i \in queue /\ i.id = S
  BY StoredIs DEF CorrectRejected
<1>2. /\ LockFree /\ \A k \in S : Offered(i.form, d[k])
      /\ queue' = {j \in queue : j.id # row.id} \cup {row}
      /\ UNCHANGED <<pages, form, sender, author, requests, replies, entries, booked>>
  BY DEF CorrectRejected, Put, wire, server
<1> HIDE DEF i
<1>3. DOMAIN i = ItemFields /\ Formed(i) /\ DOMAIN pages = Tabs
  BY <1>1 DEF OfflineInv, ItemsHeld, Held, Tables
<1>4. /\ DOMAIN row = ItemFields /\ row.id = i.id /\ row.form = i.form /\ row.user = i.user
      /\ row.data = d
  BY <1>3 DEF ItemFields
<1> HIDE DEF row
<1>5. SameItem(row, i)
  BY <1>1, <1>2, <1>3, <1>4 DEF SameItem, Formed
<1>6. \A j \in queue : SameItem(j, j)
  BY DEF OfflineInv, ItemsHeld, Held, SameItem
<1>7. \A x \in queue' : \E j \in queue : SameItem(x, j)
  BY <1>1, <1>2, <1>5, <1>6
<1>8. \A x, y \in queue' : x.id = y.id => x = y
  BY <1>2 DEF OfflineInv, ItemsApart
<1>9. DOMAIN pages' = Tabs
  BY <1>2, <1>3
<1> QED BY <1>2, <1>7, <1>8, <1>9, EditStep

LEMMA DiscardStep ==
  ASSUME OfflineInv, NEW t \in Tabs, NEW S, Discard(t, S)
  PROVE  OfflineInv'
<1>1. /\ LockFree /\ queue' \subseteq queue /\ DOMAIN pages' = Tabs
      /\ UNCHANGED <<form, sender, author, requests, replies, entries, booked>>
  BY DEF Discard, Del, wire, server, OfflineInv, Tables
<1> QED BY <1>1, FewerItems, EditStep

LEMMA LogoutStep ==
  ASSUME OfflineInv, NEW t \in Tabs, NEW export \in BOOLEAN, Logout(t, export)
  PROVE  OfflineInv'
<1>1. /\ DOMAIN pages' = Tabs
      /\ UNCHANGED <<form, sender, author, requests, replies, entries, booked>>
  BY DEF Logout, wire, server, OfflineInv, Tables
<1>2. CASE export
  <2>1. LockFree /\ queue' \subseteq queue
    BY <1>2 DEF Logout
  <2> QED BY <1>1, <2>1, FewerItems, EditStep
<1>3. CASE ~export
  <2>1. queue' = queue
    BY <1>3 DEF Logout
  <2> QED BY <1>1, <2>1, PagesStep
<1> QED BY <1>2, <1>3

LEMMA OpenPageStep ==
  ASSUME OfflineInv, NEW t \in Tabs, NEW u \in Users, OpenPage(t, u)
  PROVE  OfflineInv'
<1>1. /\ DOMAIN pages' = Tabs
      /\ UNCHANGED <<queue, form, sender, author, requests, replies, entries, booked>>
  BY DEF OpenPage, wire, server, OfflineInv, Tables
<1> QED BY <1>1, PagesStep

-----------------------------------------------------------------------------
(* The account page and the settings take no row of a booking further.     *)
LEMMA AccountStep ==
  ASSUME OfflineInv, UNCHANGED <<queue, pages, form, sender, author, requests, replies, booked>>,
         \A e \in entries' : \E x \in entries :
           DOMAIN e = DOMAIN x /\ e.key = x.key /\ e.half = x.half /\ e.fp = x.fp
  PROVE  OfflineInv'
<1>1. /\ \A x \in entries : DOMAIN x = EntryFields /\ BookedAs(x.key, x.half, x.fp)
      /\ \A k, half, fp : BookedAs(k, half, fp) => BookedAs(k, half, fp)'
  BY BookedGrows DEF OfflineInv, Tables, StoredBooked
<1>2. Tables' /\ StoredBooked'
  BY <1>1 DEF OfflineInv, Tables, StoredBooked
<1>3. Held' = Held /\ Carriers' = Carriers
  BY DEF Held, Carriers
<1>4. ItemsHeld' /\ RequestsHeld' /\ SameBooking' /\ ItemsApart'
  BY <1>3 DEF OfflineInv, ItemsHeld, RequestsHeld, SameBooking, ItemsApart, Formed
<1>5. BookedHeld' /\ HelpersBooked' /\ RowsSettled'
  BY <1>1, <1>3, BookedGrows DEF OfflineInv, BookedHeld, HelpersBooked, RowsSettled, HelperHalf
<1>6. OneFlush' /\ SentQueued' /\ OneAnswer'
  BY DEF OfflineInv, OneFlush, SentQueued, OneAnswer, Busy, InQueue
<1>7. ASSUME NEW j, Acknowledged(j) PROVE Acknowledged(j)'
  BY <1>7 DEF Acknowledged
<1>8. RequestsSent' /\ RepliesSent'
  BY <1>7 DEF OfflineInv, RequestsSent, RepliesSent, Awaited, Sent
<1> QED BY <1>2, <1>4, <1>5, <1>6, <1>8 DEF OfflineInv

LEMMA DeleteStep ==
  ASSUME OfflineInv, NEW e \in entries, NEW cascade \in BOOLEAN, DeleteEntry(e, cascade)
  PROVE  OfflineInv'
<1>1. UNCHANGED <<queue, pages, form, sender, author, requests, replies, booked>>
  BY DEF DeleteEntry, Account_, wire
<1>2. \A x \in entries : DOMAIN x = EntryFields
  BY DEF OfflineInv, Tables
<1>3. ASSUME NEW y \in entries'
      PROVE  \E x \in entries :
               DOMAIN y = DOMAIN x /\ y.key = x.key /\ y.half = x.half /\ y.fp = x.fp
  <2>1. PICK x \in entries : y = x \/ y = [x EXCEPT !.linked = FALSE]
    BY DEF DeleteEntry
  <2> QED BY <1>2, <2>1 DEF EntryFields
<1> QED BY <1>1, <1>3, AccountStep

LEMMA InvoiceStep ==
  ASSUME OfflineInv, InvoiceEntries
  PROVE  OfflineInv'
<1>1. UNCHANGED <<queue, pages, form, sender, author, requests, replies, booked>>
  BY DEF InvoiceEntries, Account_, wire
<1>2. \A x \in entries : DOMAIN x = EntryFields
  BY DEF OfflineInv, Tables
<1>3. ASSUME NEW y \in entries'
      PROVE  \E x \in entries :
               DOMAIN y = DOMAIN x /\ y.key = x.key /\ y.half = x.half /\ y.fp = x.fp
  <2>1. PICK x \in entries : y = x \/ y = [x EXCEPT !.invoiced = TRUE]
    BY DEF InvoiceEntries
  <2> QED BY <1>2, <2>1 DEF EntryFields
<1> QED BY <1>1, <1>3, AccountStep

LEMMA SettingsStep ==
  ASSUME OfflineInv, SetYearStatus \/ (\E w \in Works : SetCatalog(w)) \/ (\E u \in Users : SetWriters(u))
  PROVE  OfflineInv'
<1>1. UNCHANGED <<queue, pages, form, sender, author, requests, replies, entries, booked>>
  BY DEF SetYearStatus, SetCatalog, SetWriters, Account_, wire
<1> QED BY <1>1, AccountStep

LEMMA OfflineStep ==
  ASSUME OfflineInv, [ReplayNext]_replayVars
  PROVE  OfflineInv'
<1>1. CASE UNCHANGED replayVars
  BY <1>1, AccountStep DEF replayVars
<1>2. ASSUME NEW t \in Tabs, NEW f \in Forms, NEW S \in SUBSET Keys, NEW d \in [S -> Contents],
             Capture(t, f, S, d) \/ SendOnline(t, f, S, d)
      PROVE  OfflineInv'
  BY <1>2, CaptureStep, SendOnlineStep
<1>3. ASSUME NEW t \in Tabs,
             \/ \E retry \in BOOLEAN : Flush(t, retry)
             \/ SendAll(t) \/ Send(t) \/ FormAnswered(t) \/ TimedFetch(t) \/ CloseTab(t)
      PROVE  OfflineInv'
  BY <1>3, FlushStep, SendAllStep, AnswerStep, FormAnsweredStep, TimedFetchStep, CloseTabStep
<1>4. ASSUME NEW t \in Tabs,
             \/ \E i \in queue : Discard(t, i.id)
             \/ \E i \in queue : \E d \in [i.id -> Contents] : CorrectRejected(t, i.id, d)
             \/ \E export \in BOOLEAN : Logout(t, export)
             \/ \E u \in Users : OpenPage(t, u)
      PROVE  OfflineInv'
  BY <1>4, DiscardStep, CorrectStep, LogoutStep, OpenPageStep
<1>5. ASSUME NEW r \in requests,
             \/ Admit(r) \/ ProbeBookingReplay(r) \/ ProbeRows(r) \/ QuickGate(r) \/ QuickAnswer(r)
             \/ \E k \in r.id : CreateBooking(r, k) \/ CreateLedgerBooking(r, k) \/ CreateQuickRows(r, k)
      PROVE  OfflineInv'
  BY <1>5, AdmitServes, ProbeServes, ProbeRowsServes, GateServes, QuickAnswerServes,
     BookingServes, LedgerServes, QuickRowServes
<1>6. ASSUME NEW e \in entries, NEW cascade \in BOOLEAN, DeleteEntry(e, cascade)
      PROVE  OfflineInv'
  BY <1>6, DeleteStep
<1> QED BY <1>1, <1>2, <1>3, <1>4, <1>5, <1>6, InvoiceStep, SettingsStep DEF ReplayNext

LEMMA OfflineStart == ReplayInit => OfflineInv
<1> SUFFICES ASSUME ReplayInit PROVE OfflineInv
  OBVIOUS
<1>1. /\ queue = {} /\ requests = {} /\ replies = {} /\ entries = {} /\ booked = {}
      /\ DOMAIN pages = Tabs
      /\ form = [t \in Tabs |-> {}] /\ sender = [t \in Tabs |-> Resting]
  BY DEF ReplayInit
<1>2. Held = {} /\ Carriers = {}
  BY <1>1 DEF Held, Carriers
<1>3. DOMAIN Resting = SenderFields /\ Resting.pc = "idle" /\ Resting.item = {}
  BY DEF Resting, SenderFields
<1>4. Tables /\ OneFlush /\ SentQueued
  BY <1>1, <1>3 DEF Tables, OneFlush, SentQueued, Busy
<1>5. ItemsHeld /\ RequestsHeld /\ SameBooking /\ ItemsApart
  BY <1>1, <1>2 DEF ItemsHeld, RequestsHeld, SameBooking, ItemsApart
<1>6. BookedHeld /\ StoredBooked /\ HelpersBooked /\ RowsSettled
  BY <1>1 DEF BookedHeld, StoredBooked, HelpersBooked, RowsSettled
<1>7. RequestsSent /\ RepliesSent /\ OneAnswer
  BY <1>1 DEF RequestsSent, RepliesSent, OneAnswer
<1> QED BY <1>4, <1>5, <1>6, <1>7 DEF OfflineInv

LEMMA OfflineInvariant == ReplaySpec => []OfflineInv
<1>1. OfflineInv /\ [ReplayNext]_replayVars => OfflineInv'
  BY OfflineStep
<1> QED BY <1>1, OfflineStart, PTL DEF ReplaySpec

-----------------------------------------------------------------------------
(* Whatever pages of several users hold and whoever is signed in when a    *)
(* request comes in, a row is booked under the user who captured it: the   *)
(* page's token must fit the cookie, and an item goes out of its own       *)
(* user's pages only (ownedByCurrentUser).                                 *)
THEOREM BookedUnderAuthor == ReplaySpec => []BookedByAuthor
<1>1. OfflineInv => BookedByAuthor
  BY DEF OfflineInv, BookedHeld, BookedByAuthor
<1> QED BY <1>1, OfflineInvariant, PTL

(* While an item is being sent it leaves the queue only once each of its   *)
(* rows, with the content the item holds now, has been stored - whatever   *)
(* was corrected, retried, answered late or sent before (send, sendAll).   *)
THEOREM QueueLosesNothing == ReplaySpec => NothingLost
<1>1. ASSUME OfflineInv, [ReplayNext]_replayVars, NEW i \in queue, ~InQueue(i.id)',
             \E t \in Tabs : sender[t].item = i.id
      PROVE  Acknowledged(i)
  <2>0. i.id # {}
    BY <1>1 DEF OfflineInv, ItemsHeld, Held, Formed
  <2>1. ~LockFree
    BY <1>1, <2>0 DEF LockFree, Busy, OfflineInv, SentQueued
  <2>2. queue' # queue /\ ~\E j \in queue' : j.id = i.id
    BY <1>1 DEF InQueue
  <2>3. ASSUME NEW t \in Tabs, Send(t) PROVE Acknowledged(i)
    <3>1. PICK a \in replies :
            /\ a.tab = t /\ a.from = "flush"
            /\ queue' = IF a.says = "saved" THEN Del(a.id)
                        ELSE {IF j.id = a.id THEN Remember(j, a) ELSE j : j \in queue}
      BY <2>3 DEF Send
    <3>2. CASE a.says # "saved"
      <4>1. DOMAIN i = ItemFields
        BY <1>1 DEF OfflineInv, ItemsHeld, Held
      <4>2. Remember(i, a).id = i.id
        BY <4>1, RememberKeeps
      <4> QED BY <2>2, <3>1, <3>2, <4>2
    <3>3. CASE a.says = "saved"
      <4>1. i.id = a.id
        BY <2>2, <3>1, <3>3 DEF Del
      <4> QED BY <1>1, <3>1, <3>3, <4>1 DEF OfflineInv, RepliesSent
    <3> QED BY <3>2, <3>3
  <2>4. \A t \in Tabs : TimedFetch(t) => queue \subseteq queue'
    BY DEF TimedFetch, FormFails
  <2>5. ASSUME NEW t \in Tabs, NEW f \in Forms, NEW S \in SUBSET Keys, NEW d \in [S -> Contents],
               Capture(t, f, S, d)
        PROVE  FALSE
    <3>1. Item(S, f, pages[t], d).id = S
      BY DEF Item
    <3> QED BY <2>2, <2>5, <3>1 DEF Capture, Put
  <2>6. ~\E t \in Tabs : \/ \E S, d : CorrectRejected(t, S, d)
                         \/ \E S : Discard(t, S)
    BY <2>1 DEF CorrectRejected, Discard
  <2>7. ASSUME NEW t \in Tabs, NEW export \in BOOLEAN, Logout(t, export) PROVE FALSE
    BY <2>1, <2>2, <2>7 DEF Logout
  <2>8. ASSUME NEW t \in Tabs,
               \/ \E retry \in BOOLEAN : Flush(t, retry)
               \/ SendAll(t) \/ FormAnswered(t) \/ CloseTab(t) \/ \E u \in Users : OpenPage(t, u)
        PROVE  FALSE
    BY <2>2, <2>8 DEF Flush, SendAll, FormAnswered, CloseTab, OpenPage
  <2>9. ASSUME NEW t \in Tabs, NEW f \in Forms, NEW S \in SUBSET Keys, NEW d \in [S -> Contents],
               SendOnline(t, f, S, d)
        PROVE  FALSE
    BY <2>2, <2>9 DEF SendOnline
  <2>10. ASSUME NEW r \in requests,
               \/ Admit(r) \/ ProbeBookingReplay(r) \/ ProbeRows(r) \/ QuickGate(r) \/ QuickAnswer(r)
               \/ \E k \in r.id : CreateBooking(r, k) \/ CreateLedgerBooking(r, k) \/ CreateQuickRows(r, k)
         PROVE  FALSE
    BY <2>2, <2>10 DEF Admit, ProbeBookingReplay, ProbeRows, QuickGate, QuickAnswer, CreateBooking,
                       CreateLedgerBooking, CreateQuickRows, client
  <2>11. ~\/ \E e \in entries, cascade \in BOOLEAN : DeleteEntry(e, cascade)
          \/ InvoiceEntries \/ SetYearStatus
          \/ \E w \in Works : SetCatalog(w)
          \/ \E u \in Users : SetWriters(u)
    BY <2>2 DEF DeleteEntry, InvoiceEntries, SetYearStatus, SetCatalog, SetWriters, Account_
  <2>12. ReplayNext
    BY <1>1, <2>2 DEF replayVars
  <2> QED BY <2>2, <2>3, <2>4, <2>5, <2>6, <2>7, <2>8, <2>9, <2>10, <2>11, <2>12 DEF ReplayNext
<1>2. OfflineInv /\ [ReplayNext]_replayVars
        => [\A i \in queue : ~InQueue(i.id)' /\ (\E t \in Tabs : sender[t].item = i.id)
              => Acknowledged(i)]_replayVars
  BY <1>1
<1> QED BY <1>2, OfflineInvariant, PTL DEF ReplaySpec, NothingLost
=============================================================================
