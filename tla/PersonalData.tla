---------------------------- MODULE PersonalData ----------------------------
(***************************************************************************)
(* What the books hold about one neighbor beside the amounts: the master   *)
(* record, texts, photos, signatures, fields, shared links and the answers *)
(* given through them; and the erasure that removes it.  A transaction     *)
(* that locks the neighbor's row is one step, a handler that reads first   *)
(* and writes later is two.                                                *)
(***************************************************************************)
EXTENDS Naturals, FiniteSets

CONSTANTS Worker,        \* requests under way at once
          Entry,         \* bookings of work done
          Posting,       \* structured bookings of the ledger
          Image,
          Field,         \* rows of neighbor_fields, all of one name
          Link,          \* rows of beleg_shares and statement_shares
          Invoice,
          None,
          FeedbackPerDay, \* statementFeedbackPerDay
          MaxText,        \* bound: versions of a booking
          MaxRequests     \* bound: requests of more than one step

ASSUME AllowanceNat == FeedbackPerDay \in Nat
ASSUME TextBound == MaxText \in Nat \ {0}

Booking == Entry \cup Posting

VARIABLES
  person,    \* the row of neighbors: address and the like are filled in, archived, erased
  open,      \* the billing year takes bookings
  bookings,  \* rows of entries and neighbor_ledger
  photos,    \* entry_photos and ledger_photos
  signature, \* entry_signatures: per entry the text it confirms
  fields,    \* neighbor_fields
  invoices,
  links,
  events,    \* beleg_share_events: what was done through which link
  feedback,  \* beleg_feedback: about which invoice, through which link
  answers,   \* links with rows in statement_feedback
  recent,    \* per link its statement_feedback of the last 24 hours
  work,      \* per worker the request it serves
  begun      \* requests so far

vars == <<person, open, bookings, photos, signature, fields, invoices, links, events, feedback,
          answers, recent, work, begun>>
busy == <<work, begun>>
evidence == <<photos, signature>>
portal == <<events, feedback, answers, recent>>

(* Text 0 is the empty text erasure leaves.                                *)
Scrubbed == 0
Texts == Scrubbed..MaxText
NoBooking == [kept |-> FALSE, text |-> Scrubbed, field |-> None, label |-> FALSE, claim |-> None]
NoLink == [kind |-> "none", invoice |-> None, age |-> "live"]
Idle == [op |-> "idle", link |-> None, invoice |-> None, booking |-> None, text |-> Scrubbed,
         field |-> None, images |-> {}]

Steps == {"idle", "field", "book", "photos", "sign", "share", "portal", "validate", "respond",
          "reading", "answer", "count", "allowed"}
Request == [op : Steps, link : Link \cup {None}, invoice : Invoice \cup {None},
            booking : Booking \cup {None}, text : Texts, field : Field \cup {None, "other"},
            images : SUBSET Image]

TypeOK ==
  /\ person \in [details : BOOLEAN, archived : BOOLEAN, anonymized : BOOLEAN] /\ open \in BOOLEAN
  /\ bookings \in [Booking -> [kept : BOOLEAN, text : Texts, field : Field \cup {None},
                               label : BOOLEAN, claim : Invoice \cup {None}]]
  /\ photos \subseteq Booking \X Image /\ signature \in [Entry -> Texts \cup {None}]
  /\ fields \in [Field -> {"none", "active", "archived", "deleted"}]
  /\ invoices \in [Invoice -> {"none", "issued", "cancelled"}]
  /\ links \in [Link -> [kind : {"none", "invoice", "statement", "deleted"},
                         invoice : Invoice \cup {None}, age : {"live", "expired", "old"}]]
  /\ answers \subseteq Link \cup {None} /\ recent \in [Link -> Nat]
  /\ work \in [Worker -> Request] /\ begun \in Nat

Init ==
  /\ person = [details |-> FALSE, archived |-> FALSE, anonymized |-> FALSE] /\ open = TRUE
  /\ bookings = [b \in Booking |-> IF b \in Posting THEN [NoBooking EXCEPT !.kept = TRUE, !.text = 1]
                                   ELSE NoBooking]
  /\ photos = {} /\ signature = [e \in Entry |-> None]
  /\ fields = [f \in Field |-> "none"] /\ invoices = [k \in Invoice |-> "none"]
  /\ links = [l \in Link |-> NoLink]
  /\ events = {} /\ feedback = {} /\ answers = {} /\ recent = [l \in Link |-> 0]
  /\ work = [w \in Worker |-> Idle] /\ begun = 0

(* ------------------------------- the locks ------------------------------ *)

LockPersonalDataNeighbor == ~person.anonymized

LockOpenAccount == open /\ ~person.anonymized

LockUninvoicedEntry(b) == bookings[b].kept /\ bookings[b].claim = None

Free(w) == work[w].op = "idle"
Turns(w, r) == work' = [work EXCEPT ![w] = r] /\ UNCHANGED begun
Ends(w) == Turns(w, Idle)

(* A request goes on to its next step, or ends here.                       *)
GoesOn(w, allowed, op) == Turns(w, IF allowed THEN [work[w] EXCEPT !.op = op] ELSE Idle)

Begins(w, r) ==
  /\ Free(w) /\ begun < MaxRequests
  /\ work' = [work EXCEPT ![w] = r] /\ begun' = begun + 1

(* ------------------------------ the neighbor ---------------------------- *)

(* The condition of the UPDATE is judged again once a lock was waited for. *)
UpdateNeighbor == IF person.anonymized THEN person ELSE [person EXCEPT !.details = TRUE]

HandleNeighborUpdate ==
  /\ person' = UpdateNeighbor
  /\ UNCHANGED <<open, bookings, evidence, fields, invoices, links, portal, busy>>

SetNeighborArchived(archived) ==
  /\ archived \/ LockPersonalDataNeighbor
  /\ person' = [person EXCEPT !.archived = archived]

HandleNeighborArchive(archived) ==
  /\ SetNeighborArchived(archived)
  /\ UNCHANGED <<open, bookings, evidence, fields, invoices, links, portal, busy>>

(* One transaction.  Of the requests it waits for, one that holds the lock *)
(* of a statement link waits for it in turn, and is aborted.               *)
AnonymizeNeighbor ==
  /\ person' = [details |-> FALSE, archived |-> TRUE, anonymized |-> TRUE]
  /\ bookings' = [b \in Booking |->
       [bookings[b] EXCEPT !.text = Scrubbed, !.field = None, !.label = FALSE]]
  /\ photos' = {} /\ signature' = [e \in Entry |-> None]
  /\ fields' = [f \in Field |-> IF fields[f] = "none" THEN "none" ELSE "deleted"]
  /\ links' = [l \in Link |-> IF links[l].kind = "none" THEN NoLink
                              ELSE [NoLink EXCEPT !.kind = "deleted"]]
  /\ events' = {} /\ feedback' = {} /\ answers' = {} /\ recent' = [l \in Link |-> 0]
  /\ work' = [w \in Worker |-> IF work[w].op \in {"count", "allowed"} THEN Idle ELSE work[w]]

HandleNeighborAnonymize == AnonymizeNeighbor /\ UNCHANGED <<open, invoices, begun>>

CompleteYear ==
  /\ open /\ open' = FALSE
  /\ UNCHANGED <<person, bookings, evidence, fields, invoices, links, portal, busy>>

(* ------------------------- bookings and their fields -------------------- *)

HandleFieldCreate(w) ==
  /\ ~person.anonymized
  /\ Begins(w, [Idle EXCEPT !.op = "field"])
  /\ UNCHANGED <<person, open, bookings, evidence, fields, invoices, links, portal>>

NameFree == \A f \in Field : fields[f] # "active"

CreateField(w) ==
  /\ work[w].op = "field" /\ Ends(w)
  /\ \/ /\ NameFree
        /\ \E f \in Field : fields[f] = "none" /\ fields' = [fields EXCEPT ![f] = "active"]
     \/ ~NameFree /\ UNCHANGED fields
  /\ UNCHANGED <<person, open, bookings, evidence, invoices, links, portal>>

SetFieldArchived(f, archived) ==
  /\ fields[f] \in {"active", "archived"}
  /\ archived \/ fields[f] = "active" \/ NameFree
  /\ fields' = [fields EXCEPT ![f] = IF archived THEN "archived" ELSE "active"]

HandleFieldArchive(f, archived) ==
  /\ SetFieldArchived(f, archived)
  /\ UNCHANGED <<person, open, bookings, evidence, invoices, links, portal, busy>>

DeleteField(f) ==
  /\ fields[f] \in {"active", "archived"}
  /\ \A b \in Booking : bookings[b].field # f
  /\ fields' = [fields EXCEPT ![f] = "deleted"]

HandleFieldDelete(f) ==
  /\ DeleteField(f)
  /\ UNCHANGED <<person, open, bookings, evidence, invoices, links, portal, busy>>

(* The form names a field of the list, another one in words, or none.      *)
BookingFieldFromForm(w, f) ==
  /\ f \in Field => fields[f] = "active"
  /\ Begins(w, [Idle EXCEPT !.op = "book", !.field = f])
  /\ UNCHANGED <<person, open, bookings, evidence, fields, invoices, links, portal>>

(* A new booking may bring the signature that confirms it.                 *)
SignatureFromForm(e, signed) ==
  signature' = [signature EXCEPT ![e] = IF signed THEN 1 ELSE None]

(* The booking and a signature given with it are one transaction.          *)
CreateEntry(w, e, signed) ==
  /\ work[w].op = "book" /\ ~bookings[e].kept /\ Ends(w)
  /\ \/ /\ LockOpenAccount
        /\ work[w].field \in Field => fields[work[w].field] \in {"active", "archived"}
        /\ bookings' = [bookings EXCEPT ![e] =
             [NoBooking EXCEPT !.kept = TRUE, !.text = 1, !.label = work[w].field # None,
                               !.field = IF work[w].field \in Field THEN work[w].field ELSE None]]
        /\ SignatureFromForm(e, signed)
     \/ ~LockOpenAccount /\ UNCHANGED <<bookings, signature>>
  /\ UNCHANGED <<person, open, photos, fields, invoices, links, portal>>

UpdateEntry(e) ==
  /\ LockOpenAccount /\ LockUninvoicedEntry(e)
  /\ bookings[e].text < MaxText
  /\ bookings' = [bookings EXCEPT ![e].text = @ + 1]
  /\ UNCHANGED <<person, open, evidence, fields, invoices, links, portal, busy>>

(* -------------------------- photos and signatures ----------------------- *)

HandleBookingPhotoUpload(w, b, images) ==
  /\ bookings[b].kept /\ open
  /\ Begins(w, [Idle EXCEPT !.op = "photos", !.booking = b, !.images = images])
  /\ UNCHANGED <<person, open, bookings, evidence, fields, invoices, links, portal>>

LockLedgerPhotoBooking(b) == bookings[b].kept /\ LockOpenAccount

AddLedgerPhoto(b, i) == LockLedgerPhotoBooking(b) /\ photos' = photos \cup {<<b, i>>}

AddEntryPhoto(b, i) ==
  LockOpenAccount /\ LockUninvoicedEntry(b) /\ photos' = photos \cup {<<b, i>>}

(* Every image is a transaction of its own; the first refusal ends the     *)
(* request, an image that cannot be decoded is passed over.                *)
NextPhoto(w, i) ==
  LET b == work[w].booking IN
  /\ work[w].op = "photos" /\ i \in work[w].images
  /\ \/ /\ IF b \in Posting THEN AddLedgerPhoto(b, i) ELSE AddEntryPhoto(b, i)
        /\ Turns(w, IF work[w].images = {i} THEN Idle ELSE [work[w] EXCEPT !.images = @ \ {i}])
     \/ /\ UNCHANGED photos
        /\ Ends(w)
  /\ UNCHANGED <<person, open, bookings, signature, fields, invoices, links, portal>>

DeleteLedgerPhoto(b, i) ==
  b \in Posting /\ LockLedgerPhotoBooking(b) /\ photos' = photos \ {<<b, i>>}

DeleteEntryPhoto(b, i) ==
  b \in Entry /\ LockOpenAccount /\ LockUninvoicedEntry(b) /\ photos' = photos \ {<<b, i>>}

HandleBookingPhotoDelete(b, i) ==
  /\ <<b, i>> \in photos
  /\ DeleteLedgerPhoto(b, i) \/ DeleteEntryPhoto(b, i)
  /\ UNCHANGED <<person, open, bookings, signature, fields, invoices, links, portal, busy>>

(* The summary it will confirm is that of the booking as it is read here.  *)
HandleEntrySignatureAdd(w, e) ==
  /\ bookings[e].kept /\ open
  /\ Begins(w, [Idle EXCEPT !.op = "sign", !.booking = e, !.text = bookings[e].text])
  /\ UNCHANGED <<person, open, bookings, evidence, fields, invoices, links, portal>>

InsertSignatureTx(e, text) == signature' = [signature EXCEPT ![e] = text]

AddEntrySignature(w) ==
  LET e == work[w].booking IN
  /\ work[w].op = "sign" /\ Ends(w)
  /\ \/ /\ LockOpenAccount /\ LockUninvoicedEntry(e) /\ signature[e] = None
        /\ InsertSignatureTx(e, work[w].text)
     \/ /\ ~(LockOpenAccount /\ LockUninvoicedEntry(e)) \/ signature[e] # None
        /\ UNCHANGED signature
  /\ UNCHANGED <<person, open, bookings, photos, fields, invoices, links, portal>>

DeleteEntrySignature(e) ==
  /\ LockOpenAccount /\ LockUninvoicedEntry(e) /\ signature[e] # None
  /\ signature' = [signature EXCEPT ![e] = None]

HandleEntrySignatureDelete(e) ==
  /\ DeleteEntrySignature(e)
  /\ UNCHANGED <<person, open, bookings, photos, fields, invoices, links, portal, busy>>

(* ------------------------------- the links ------------------------------ *)

(* Issuing and storno as far as links and evidence depend on them.         *)
IssueInvoice(k) ==
  /\ LockOpenAccount /\ invoices[k] = "none"
  /\ \E e \in Entry : LockUninvoicedEntry(e)
  /\ invoices' = [invoices EXCEPT ![k] = "issued"]
  /\ bookings' = [b \in Booking |-> IF b \in Entry /\ LockUninvoicedEntry(b)
                                    THEN [bookings[b] EXCEPT !.claim = k] ELSE bookings[b]]
  /\ UNCHANGED <<person, open, evidence, fields, links, portal, busy>>

CancelInvoice(k) ==
  /\ open /\ invoices[k] = "issued"
  /\ invoices' = [invoices EXCEPT ![k] = "cancelled"]
  /\ bookings' = [b \in Booking |-> IF bookings[b].claim = k
                                    THEN [bookings[b] EXCEPT !.claim = None] ELSE bookings[b]]
  /\ UNCHANGED <<person, open, evidence, fields, links, portal, busy>>

LinkAges(l) ==
  /\ links[l].kind \in {"invoice", "statement"} /\ links[l].age # "old"
  /\ links' = [links EXCEPT ![l].age = IF @ = "live" THEN "expired" ELSE "old"]
  /\ UNCHANGED <<person, open, bookings, evidence, fields, invoices, portal, busy>>

(* A request takes far less than a day.                                    *)
DayPasses ==
  /\ \A w \in Worker : work[w].op \notin {"count", "allowed"}
  /\ \E l \in Link : recent[l] > 0
  /\ recent' = [l \in Link |-> 0]
  /\ UNCHANGED <<person, open, bookings, evidence, fields, invoices, links, events, feedback,
                 answers, busy>>

(* (NoForeignKey: rows may name a link that is gone.)                      *)
NoForeignKey(l) == TRUE

(* The foreign key of the rows that name a link.                           *)
LinkKept(l) == links[l].kind \in {"invoice", "statement"}

Past(kind) == {l \in Link : links[l].kind = kind /\ links[l].age = "old"}

(* ON DELETE SET NULL                                                      *)
Unlinked(S, l) == IF l \in S THEN None ELSE l

Removed(S, rest) ==
  /\ links' = [l \in Link |-> IF l \in S THEN [NoLink EXCEPT !.kind = "deleted"] ELSE rest[l]]
  /\ events' = {[x EXCEPT !.link = Unlinked(S, @)] : x \in events}
  /\ feedback' = {[x EXCEPT !.link = Unlinked(S, @)] : x \in feedback}
  /\ answers' = {Unlinked(S, l) : l \in answers}
  /\ recent' = [l \in Link |-> IF l \in S THEN 0 ELSE recent[l]]

(* The lock of one statement link.  (LinkUnlocked: without it.)            *)
LinkUnlocked(l) == TRUE

LinkLockFree(l) ==
  \A w \in Worker : work[w].op \in {"count", "allowed"} => work[w].link # l

Deletable(S) == \A l \in S : LinkLockFree(l)

CreateInvoiceBelegShare(l, k) ==
  /\ LockPersonalDataNeighbor
  /\ links[l].kind = "none" /\ invoices[k] = "issued" /\ Deletable(Past("invoice"))
  /\ Removed(Past("invoice"),
             [links EXCEPT ![l] = [kind |-> "invoice", invoice |-> k, age |-> "live"]])

(* The invoice the request chose still stands.                             *)
HandleBelegShareCreate(l, k) ==
  /\ CreateInvoiceBelegShare(l, k)
  /\ UNCHANGED <<person, open, bookings, evidence, fields, invoices, busy>>

(* One statement, yet it locks nothing: what it read of the neighbor may   *)
(* be past once it inserts.                                                *)
HandleStatementShareCreate(w) ==
  /\ LockPersonalDataNeighbor
  /\ Begins(w, [Idle EXCEPT !.op = "share"])
  /\ UNCHANGED <<person, open, bookings, evidence, fields, invoices, links, portal>>

CreateStatementShare(w, l) ==
  /\ work[w].op = "share" /\ Ends(w)
  /\ links[l].kind = "none" /\ Deletable(Past("statement"))
  /\ Removed(Past("statement"), [links EXCEPT ![l] = [NoLink EXCEPT !.kind = "statement"]])
  /\ UNCHANGED <<person, open, bookings, evidence, fields, invoices>>

RevokeInvoiceBelegShare(l) == links[l].kind = "invoice" /\ Removed({l}, links)

HandleBelegShareRevoke(l) ==
  /\ RevokeInvoiceBelegShare(l)
  /\ UNCHANGED <<person, open, bookings, evidence, fields, invoices, busy>>

RevokeStatementShare(l) ==
  links[l].kind = "statement" /\ LinkLockFree(l) /\ Removed({l}, links)

HandleStatementShareRevoke(l) ==
  /\ RevokeStatementShare(l)
  /\ UNCHANGED <<person, open, bookings, evidence, fields, invoices, busy>>

(* --------------------- what a visitor does with a link ------------------ *)

ResolveInvoiceBelegShare(l) ==
  /\ links[l].kind = "invoice" /\ links[l].age = "live"
  /\ invoices[links[l].invoice] = "issued"

ResolvePortalShare(w, l) ==
  /\ ResolveInvoiceBelegShare(l)
  /\ Begins(w, [Idle EXCEPT !.op = "portal", !.link = l, !.invoice = links[l].invoice])
  /\ UNCHANGED <<person, open, bookings, evidence, fields, invoices, links, portal>>

Shown(w) == work[w].invoice

RecordBelegShareEvent(l, event) ==
  events' = IF LinkKept(l) THEN events \cup {[link |-> l, event |-> event]} ELSE events

Visits(w, event) ==
  /\ work[w].op = "portal" /\ Ends(w)
  /\ IF invoices[Shown(w)] = "issued" THEN RecordBelegShareEvent(work[w].link, event)
     ELSE UNCHANGED events
  /\ UNCHANGED <<person, open, bookings, evidence, fields, invoices, links, feedback, answers, recent>>

HandleSharedBeleg(w) == Visits(w, "access")

HandleSharedInvoicePDF(w) == Visits(w, "download")

HandlePortalFeedback(w) ==
  /\ work[w].op = "portal"
  /\ GoesOn(w, invoices[Shown(w)] = "issued", "validate")
  /\ UNCHANGED <<person, open, bookings, evidence, fields, invoices, links, portal>>

ValidateFeedback(w) ==
  /\ work[w].op = "validate"
  /\ GoesOn(w, ResolveInvoiceBelegShare(work[w].link), "respond")
  /\ UNCHANGED <<person, open, bookings, evidence, fields, invoices, links, portal>>

(* The statement before it locked nothing.                                 *)
CreateBelegFeedback(w, status) ==
  LET l == work[w].link IN
  /\ work[w].op = "respond" /\ Ends(w)
  /\ \/ /\ LinkKept(l)
        /\ feedback' = feedback \cup {[link |-> l, invoice |-> Shown(w)]}
        /\ events' = events \cup {[link |-> l, event |-> status]}
     \/ ~LinkKept(l) /\ UNCHANGED <<events, feedback>>
  /\ UNCHANGED <<person, open, bookings, evidence, fields, invoices, links, answers, recent>>

ResolveStatementShare(l) ==
  links[l].kind = "statement" /\ links[l].age = "live" /\ ~person.anonymized

(* The lines the page shows: work not invoiced yet, or None for the        *)
(* statement as a whole.                                                   *)
StatementShareView == {e \in Entry : LockUninvoicedEntry(e)} \cup {None}

(* What every public request asks first, whichever link it names.          *)
StatementShareOf(w) == ResolveStatementShare(work[w].link)

HandleSharedStatement(w, l, e) ==
  /\ ResolveStatementShare(l) /\ e \in StatementShareView
  /\ Begins(w, [Idle EXCEPT !.op = "reading", !.link = l, !.booking = e,
                            !.text = IF e \in Entry THEN bookings[e].text ELSE Scrubbed])
  /\ UNCHANGED <<person, open, bookings, evidence, fields, invoices, links, portal>>

LineStands(w) ==
  work[w].booking \in Entry =>
    LockUninvoicedEntry(work[w].booking) /\ bookings[work[w].booking].text = work[w].text

HandleStatementFeedback(w) ==
  /\ work[w].op = "reading"
  /\ GoesOn(w, StatementShareOf(w) /\ LineStands(w), "answer")
  /\ UNCHANGED <<person, open, bookings, evidence, fields, invoices, links, portal>>

LockStatementShare(w) ==
  LET l == work[w].link IN
  /\ work[w].op = "answer" /\ LinkLockFree(l)
  /\ GoesOn(w, links[l].kind = "statement" /\ links[l].age = "live", "count")
  /\ UNCHANGED <<person, open, bookings, evidence, fields, invoices, links, portal>>

CountRecent(w) ==
  /\ work[w].op = "count"
  /\ GoesOn(w, recent[work[w].link] < FeedbackPerDay, "allowed")
  /\ UNCHANGED <<person, open, bookings, evidence, fields, invoices, links, portal>>

CreateStatementFeedback(w) ==
  /\ work[w].op = "allowed" /\ Ends(w)
  /\ answers' = answers \cup {work[w].link}
  /\ recent' = [recent EXCEPT ![work[w].link] = @ + 1]
  /\ UNCHANGED <<person, open, bookings, evidence, fields, invoices, links, events, feedback>>

(* A request ends early: the client is gone, the connection, the process.  *)
Abandons(w) ==
  /\ ~Free(w) /\ Ends(w)
  /\ UNCHANGED <<person, open, bookings, evidence, fields, invoices, links, portal>>

Next ==
  \/ HandleNeighborUpdate \/ HandleNeighborAnonymize \/ CompleteYear \/ DayPasses
  \/ \E a \in BOOLEAN : HandleNeighborArchive(a) \/ \E f \in Field : HandleFieldArchive(f, a)
  \/ \E f \in Field : HandleFieldDelete(f)
  \/ \E e \in Entry : UpdateEntry(e) \/ HandleEntrySignatureDelete(e)
  \/ \E b \in Booking, i \in Image : HandleBookingPhotoDelete(b, i)
  \/ \E k \in Invoice : IssueInvoice(k) \/ CancelInvoice(k)
                        \/ \E l \in Link : HandleBelegShareCreate(l, k)
  \/ \E l \in Link : LinkAges(l) \/ HandleBelegShareRevoke(l) \/ HandleStatementShareRevoke(l)
  \/ \E w \in Worker :
       \/ HandleFieldCreate(w) \/ CreateField(w) \/ Abandons(w)
       \/ \E f \in Field \cup {None, "other"} : BookingFieldFromForm(w, f)
       \/ \E e \in Entry, signed \in BOOLEAN : CreateEntry(w, e, signed)
       \/ \E b \in Booking, images \in SUBSET Image \ {{}} : HandleBookingPhotoUpload(w, b, images)
       \/ \E i \in Image : NextPhoto(w, i)
       \/ \E e \in Entry : HandleEntrySignatureAdd(w, e)
       \/ AddEntrySignature(w)
       \/ HandleStatementShareCreate(w)
       \/ \E l \in Link : \/ CreateStatementShare(w, l) \/ ResolvePortalShare(w, l)
                          \/ \E e \in Entry \cup {None} : HandleSharedStatement(w, l, e)
       \/ HandleSharedBeleg(w) \/ HandleSharedInvoicePDF(w)
       \/ HandlePortalFeedback(w) \/ ValidateFeedback(w)
       \/ \E status \in {"confirm", "dispute"} : CreateBelegFeedback(w, status)
       \/ HandleStatementFeedback(w) \/ LockStatementShare(w) \/ CountRecent(w)
       \/ CreateStatementFeedback(w)

Spec == Init /\ [][Next]_vars

-----------------------------------------------------------------------------
(* Once a neighbor is erased nothing personal stands beside the amounts,   *)
(* and nothing a request had under way at the time brings any of it back:  *)
(* no name, text, photo, signature, invoice link, visit or answer.  (Rows  *)
(* of neighbor_fields: FieldsErased.)                                      *)
ErasedHoldsNothing ==
  person.anonymized =>
    /\ ~person.details /\ person.archived
    /\ photos = {} /\ \A e \in Entry : signature[e] = None
    /\ \A b \in Booking : bookings[b].text = Scrubbed /\ ~bookings[b].label
    /\ \A l \in Link : links[l].kind # "invoice"
    /\ events = {} /\ feedback = {} /\ answers = {}

(* No link ever sends more than its allowance within a day, however many   *)
(* visitors answer through it at once (ErrFeedbackLimit).                  *)
AnswersWithinAllowance == \A l \in Link : recent[l] <= FeedbackPerDay

(* The fields of an erased neighbor are gone as well: "serializes live     *)
(* personal-data writes with erasure" (privacy_guard.go).                  *)
FieldsErased == person.anonymized => \A f \in Field : fields[f] \in {"none", "deleted"}
=============================================================================
