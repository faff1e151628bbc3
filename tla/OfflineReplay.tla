----------------------------- MODULE OfflineReplay -----------------------------
(***************************************************************************)
(* Bookings that reach the server twice, late or not at all: the pages of  *)
(* one browser and its queue, the requests they have under way, and the    *)
(* rows the booking handlers create from them.  A page may give a request  *)
(* up; the server finishes it all the same.  One neighbor, one year.       *)
(***************************************************************************)
EXTENDS Naturals, FiniteSets

CONSTANTS Tabs,             \* pages open in the browser
          Users,
          Keys,             \* retry keys the browser may draw
          Nobody,
          Works,            \* the task, hours, machine of a booking
          Contents,         \* what a form may hold
          SoftFailureLimit, \* refusals of another kind before an item asks for attention
          MaxSubmissions,   \* bound: bookings entered
          MaxPosts,      \* bound: requests sent
          MaxEvents         \* bound: pages closed, items discarded, changes at the server

\* A browser draws finitely many keys.
ASSUME KeysFinite == IsFiniteSet(Keys)

ASSUME ContentsShape ==
  /\ Contents \subseteq [work : Works, helper : {"none", "one", "more"}, way : {"out", "in"}]
  /\ \A c \in Contents : c.way = "in" => c.helper = "none"

VARIABLES
  queue,    \* the object store "queue" of IndexedDB
  pages,    \* per tab: the user it was rendered for, Nobody when closed
  form,     \* per tab: the submission its form waits for
  sender,   \* per tab: its flush, the holder of the queue lock
  session,  \* the user signed in: the session cookie
  requests, \* requests the server has not finished
  replies,  \* answers on their way
  entries,  \* rows of entries and, half "ledger", of neighbor_ledger
  books,    \* the year is open; the works whose catalog rows and prices exist; users who may write
  author,   \* per key: the user who captured it
  booked,   \* every row that was ever inserted
  spent     \* bookings entered, requests sent and events so far

replayVars == <<queue, pages, form, sender, session, requests, replies, entries, books, author,
          booked, spent>>
client == <<queue, pages, form, sender, author>>
server == <<entries, books, booked>>
wire == <<requests, replies>>

(* The rows one key stands for are halves: "main" the machine's, "helper"  *)
(* its helpers', "ledger" a posting; a helper row without a key of its own *)
(* is "unkeyed".                                                           *)
Forms == {"shared", "old", "quick"}
Resting == [pc |-> "idle", todo |-> {}, item |-> {}, retry |-> FALSE]
Busy(t) == sender[t].pc # "idle"

(* A queued item: its id is the set of its keys, one per row of a quick    *)
(* batch, one for every other booking.                                     *)
Item(S, f, u, d) == [id |-> S, form |-> f, user |-> u, data |-> d, rejection |-> "none",
                     states |-> [k \in S |-> "none"], soft |-> 0]
Stored(S) == CHOOSE i \in queue : i.id = S
InQueue(S) == \E i \in queue : i.id = S
Put(i) == {j \in queue : j.id # i.id} \cup {i}
Del(S) == {j \in queue : j.id # S}

ReplayInit ==
  /\ queue = {} /\ requests = {} /\ replies = {} /\ entries = {} /\ booked = {}
  /\ \E u \in Users : session = u /\ pages = [t \in Tabs |-> u]
  /\ form = [t \in Tabs |-> {}] /\ sender = [t \in Tabs |-> Resting]
  /\ \E W \in SUBSET Works : books = [open |-> TRUE, works |-> W, writers |-> Users]
  /\ author = [k \in Keys |-> Nobody]
  /\ spent = [submissions |-> 0, requests |-> 0, events |-> 0]

Event == spent.events < MaxEvents /\ spent' = [spent EXCEPT !.events = @ + 1]

(* -------------------------- the queue of a browser ---------------------- *)

(* (Unstamped: whose items they are does not matter.)                      *)
Unstamped(i, t) == TRUE

OwnedByCurrentUser(i, t) == i.user = pages[t]

(* A flush holds the Web Lock of the queue; so does every edit of an item. *)
(* (AnyTime: without the lock.)                                            *)
AnyTime == TRUE

LockFree == \A t \in Tabs : ~Busy(t)

(* A request carries the cookie of its time and the token of its page.     *)
Post(t, from, i) ==
  /\ spent.requests < MaxPosts
  /\ spent' = [spent EXCEPT !.requests = @ + 1, !.submissions = IF from = "form" THEN @ + 1 ELSE @]
  /\ requests' = requests \cup
       {[n |-> spent.requests, tab |-> t, from |-> from, id |-> i.id, form |-> i.form,
         data |-> i.data, cookie |-> session, token |-> pages[t], pc |-> "admit",
         left |-> i.id, states |-> [k \in i.id |-> "none"]]}

(* Only the shared form books a counterclaim or more than one helper.      *)
Offered(f, c) ==
  \/ f = "shared"
  \/ c.way = "out" /\ c.helper # "more"

Fills(t, f, S, d) ==
  /\ spent.submissions < MaxSubmissions
  /\ pages[t] # Nobody /\ form[t] = {}
  /\ S # {} /\ \A k \in S : author[k] = Nobody
  /\ f # "quick" => Cardinality(S) = 1
  /\ \A k \in S : Offered(f, d[k])
  /\ author' = [k \in Keys |-> IF k \in S THEN pages[t] ELSE author[k]]

Capture(t, f, S, d) ==
  /\ Fills(t, f, S, d)
  /\ queue' = Put(Item(S, f, pages[t], d))
  /\ spent' = [spent EXCEPT !.submissions = @ + 1]
  /\ UNCHANGED <<pages, form, sender, session, wire, server>>

SendOnline(t, f, S, d) ==
  /\ Fills(t, f, S, d)
  /\ Post(t, "form", Item(S, f, pages[t], d))
  /\ form' = [form EXCEPT ![t] = {Item(S, f, pages[t], d)}]
  /\ UNCHANGED <<queue, pages, sender, session, replies, server>>

FormFails(t) ==
  /\ queue' = queue \cup form[t] /\ form' = [form EXCEPT ![t] = {}]

Flush(t, retry) ==
  /\ pages[t] # Nobody /\ LockFree
  /\ \E i \in queue : OwnedByCurrentUser(i, t)
  /\ sender' = [sender EXCEPT ![t] =
       [Resting EXCEPT !.pc = "next", !.retry = retry,
                    !.todo = {i.id : i \in {j \in queue : OwnedByCurrentUser(j, t)}}]]
  /\ UNCHANGED <<queue, pages, form, session, wire, server, author, spent>>

Skipped(S, t) ==
  \/ ~InQueue(S)
  \/ ~OwnedByCurrentUser(Stored(S), t)
  \/ Stored(S).rejection # "none" /\ ~sender[t].retry

SendAll(t) ==
  /\ sender[t].pc = "next"
  /\ \/ /\ sender[t].todo = {}
        /\ sender' = [sender EXCEPT ![t] = Resting] /\ UNCHANGED <<requests, spent>>
     \/ \E S \in sender[t].todo :
          IF Skipped(S, t)
          THEN /\ sender' = [sender EXCEPT ![t].todo = @ \ {S}]
               /\ UNCHANGED <<requests, spent>>
          ELSE /\ Post(t, "flush", Stored(S))
               /\ sender' = [sender EXCEPT ![t].todo = @ \ {S}, ![t].item = S,
                                           ![t].pc = "sent"]
  /\ UNCHANGED <<queue, pages, form, session, replies, server, author>>

(* What one answer does to the item that was sent, if it is still there.   *)
Remember(i, a) ==
  CASE a.says \in {"check", "stored"} -> [i EXCEPT !.rejection = a.says, !.states = a.states]
    [] a.says = "refused" ->
         [i EXCEPT !.soft = IF @ < SoftFailureLimit THEN @ + 1 ELSE @,
                   !.rejection = IF i.soft + 1 >= SoftFailureLimit /\ @ = "none" THEN "refused" ELSE @]
    [] OTHER -> i

Send(t) == \E a \in replies :
  /\ a.tab = t /\ a.from = "flush" /\ sender[t].pc = "sent" /\ a.id = sender[t].item
  /\ replies' = replies \ {a}
  /\ queue' = IF a.says = "saved" THEN Del(a.id)
              ELSE {IF i.id = a.id THEN Remember(i, a) ELSE i : i \in queue}
  /\ sender' = [sender EXCEPT ![t].pc = "next", ![t].item = {}]
  /\ UNCHANGED <<pages, form, session, requests, server, author, spent>>

(* The page of an online submission shows whatever arrived; only a dead    *)
(* connection queues it.                                                   *)
FormAnswered(t) == \E a \in replies :
  /\ a.tab = t /\ a.from = "form" /\ form[t] # {}
  /\ replies' = replies \ {a} /\ form' = [form EXCEPT ![t] = {}]
  /\ UNCHANGED <<queue, pages, sender, session, requests, server, author, spent>>

(* No answer in time: the request may still be on its way or at work.      *)
Forget(t, from) ==
  /\ requests' = {IF r.tab = t /\ r.from = from THEN [r EXCEPT !.tab = Nobody] ELSE r : r \in requests}
  /\ replies' = {a \in replies : ~(a.tab = t /\ a.from = from)}

TimedFetch(t) ==
  /\ \/ /\ form[t] # {} /\ Forget(t, "form") /\ FormFails(t) /\ UNCHANGED sender
     \/ /\ sender[t].pc = "sent" /\ Forget(t, "flush")
        /\ sender' = [sender EXCEPT ![t].pc = "next", ![t].item = {}]
        /\ UNCHANGED <<queue, form>>
  /\ UNCHANGED <<pages, session, server, author, spent>>

(* A page that closes takes its flush along: the lock is free again.       *)
CloseTab(t) ==
  /\ Event /\ pages[t] # Nobody /\ form[t] = {}
  /\ pages' = [pages EXCEPT ![t] = Nobody] /\ sender' = [sender EXCEPT ![t] = Resting]
  /\ Forget(t, "flush")
  /\ UNCHANGED <<queue, form, session, server, author>>

Correctable(i) == i.rejection = "check"
Locked(i, k) == i.states[k] \in {"saved", "conflict"}

CorrectRejected(t, S, d) ==
  /\ pages[t] # Nobody /\ LockFree
  /\ InQueue(S) /\ OwnedByCurrentUser(Stored(S), t) /\ Correctable(Stored(S))
  /\ d # Stored(S).data
  /\ \A k \in S : Locked(Stored(S), k) => d[k] = Stored(S).data[k]
  /\ \A k \in S : Offered(Stored(S).form, d[k])
  /\ queue' = Put([Stored(S) EXCEPT !.data = d])
  /\ UNCHANGED <<pages, form, sender, session, wire, server, author, spent>>

Discard(t, S) ==
  /\ Event /\ pages[t] # Nobody /\ LockFree
  /\ InQueue(S) /\ OwnedByCurrentUser(Stored(S), t)
  /\ queue' = Del(S)
  /\ UNCHANGED <<pages, form, sender, session, wire, server, author>>

(* Signing out keeps the queue or exports and deletes the user's items.    *)
Logout(t, export) ==
  /\ Event /\ session # Nobody /\ pages[t] = session /\ form[t] = {} /\ ~Busy(t)
  /\ export => LockFree
  /\ queue' = IF export THEN {i \in queue : ~OwnedByCurrentUser(i, t)} ELSE queue
  /\ session' = Nobody /\ pages' = [pages EXCEPT ![t] = Nobody]
  /\ UNCHANGED <<form, sender, wire, server, author>>

OpenPage(t, u) ==
  /\ form[t] = {} /\ ~Busy(t) /\ pages[t] # u
  /\ session \in {Nobody, u}
  /\ session' = u /\ pages' = [pages EXCEPT ![t] = u]
  /\ UNCHANGED <<queue, form, sender, wire, server, author, spent>>

(* ------------------------------ the server ------------------------------ *)

Reply(r, says, states) ==
  /\ requests' = requests \ {r}
  /\ replies' = IF r.tab = Nobody THEN replies
                ELSE replies \cup {[tab |-> r.tab, from |-> r.from, id |-> r.id,
                                    says |-> says, states |-> states]}
Goto(r, pc) == requests' = (requests \ {r}) \cup {[r EXCEPT !.pc = pc]} /\ UNCHANGED replies

CSRF(r) == r.token = r.cookie

Admit(r) ==
  /\ r.pc = "admit"
  /\ IF r.cookie # session \/ ~CSRF(r) THEN Reply(r, "later", r.states)
     ELSE IF r.cookie \notin books.writers THEN Reply(r, "refused", r.states)
     ELSE Goto(r, "probe")
  /\ UNCHANGED <<client, session, server, spent>>

(* The retry identity of a row: a quick row's machine half leaves the      *)
(* helper out.                                                             *)
Fingerprint(f, c, half) == IF f = "quick" /\ half = "main" THEN [c EXCEPT !.helper = "none"] ELSE c

Row(k, half) == {e \in entries : e.key = k /\ e.half = half}
Has(k, half) == Row(k, half) # {}
Account(k) == {e \in entries : e.key = k}

ReplayFingerprintMatches(stored, incoming) == stored = incoming

(* What the key of one row already stands for.                             *)
ReplayState(f, c, k, half) ==
  IF Has(k, half)
  THEN IF \A e \in Row(k, half) : ReplayFingerprintMatches(e.fp, Fingerprint(f, c, half))
       THEN "recorded" ELSE "differs"
  ELSE IF half = "main" /\ Has(k, "ledger") THEN "ledger" ELSE "new"

(* The shared form asks for the booking's own key only.                    *)
ProbedHalves(f, c) == IF f # "shared" /\ c.helper # "none" THEN {"main", "helper"} ELSE {"main"}
Probes(f, c, k) == {ReplayState(f, c, k, half) : half \in ProbedHalves(f, c)}

ProbeBookingReplay(r) == \E k \in r.id :
  /\ r.pc = "probe" /\ r.form # "quick"
  /\ LET found == Probes(r.form, r.data[k], k) IN
     IF "differs" \in found THEN Reply(r, "stored", r.states)
     ELSE IF found = {"recorded"} THEN Reply(r, "saved", r.states)
     ELSE Goto(r, IF "ledger" \in found THEN "ledger" ELSE "create")
  /\ UNCHANGED <<client, session, server, spent>>

Priced(c) == c.work \in books.works

(* ----------------------------- the transactions ------------------------- *)

(* The rows a booking consists of.  A single helper of the shared form     *)
(* comes without a key; several get keys derived from the booking's.       *)
HelperHalf(f, c) == IF f = "shared" /\ c.helper = "one" THEN "unkeyed" ELSE "helper"
HalvesOf(f, c) == {"main"} \cup (IF c.helper = "none" THEN {} ELSE {HelperHalf(f, c)})

Insert(r, k, c, half) ==
  [key |-> k, half |-> half, fp |-> Fingerprint(r.form, c, half), by |-> r.cookie,
   linked |-> half \in {"helper", "unkeyed"}, invoiced |-> FALSE,
   n |-> IF half = "unkeyed" THEN r.n ELSE 0]

(* What the stored rows of its own keys are to a booking: nothing matches  *)
(* a row without a key.                                                    *)
Known(r, k, c) == {e \in Account(k) : e.half \in HalvesOf(r.form, c) \ {"unkeyed"}}

Conflict(r, k, c) ==
  Has(k, "ledger") \/ \E e \in Known(r, k, c) :
    ~ReplayFingerprintMatches(e.fp, Fingerprint(r.form, c, e.half))

Whole(r, k, c) ==
  \A half \in HalvesOf(r.form, c) : \E e \in Known(r, k, c) :
    e.half = half /\ (half = "helper" => e.linked)

(* A surviving row that an invoice has frozen is not completed any more.   *)
RowsUninvoiced(r, k, c) == \A e \in Known(r, k, c) : ~e.invoiced

Missing(r, k, c) ==
  {Insert(r, k, c, half) :
     half \in {h \in HalvesOf(r.form, c) : \A e \in Known(r, k, c) : e.half # h}}

(* Create the missing rows of a booking and link a surviving helper.       *)
Relinked(k) == {IF e.key = k /\ e.half = "helper" THEN [e EXCEPT !.linked = TRUE] ELSE e : e \in entries}

CreateEntryPair(r, k, c) ==
  /\ entries' = (IF c.helper = "none" THEN entries ELSE Relinked(k)) \cup Missing(r, k, c)
  /\ booked' = booked \cup Missing(r, k, c)

(* A key that stands for a counterclaim is not asked to be corrected.      *)
Refusal(r) == IF r.pc = "ledger" THEN "stored" ELSE "check"

CreateBooking(r, k) == LET c == r.data[k] IN
  /\ r.pc \in {"create", "ledger"} /\ r.form # "quick" /\ c.way = "out"
  /\ \/ /\ ~Priced(c) \/ Conflict(r, k, c)
        /\ Reply(r, Refusal(r), r.states)
        /\ UNCHANGED <<entries, booked>>
     \/ /\ Priced(c) /\ ~Conflict(r, k, c) /\ Whole(r, k, c)
        /\ Reply(r, "saved", r.states) /\ UNCHANGED <<entries, booked>>
     \/ /\ Priced(c) /\ ~Conflict(r, k, c) /\ ~Whole(r, k, c)
        /\ IF books.open /\ RowsUninvoiced(r, k, c)
           THEN CreateEntryPair(r, k, c) /\ Reply(r, "saved", r.states)
           ELSE Reply(r, "check", r.states) /\ UNCHANGED <<entries, booked>>
  /\ UNCHANGED <<client, session, books, spent>>

(* A counterclaim is compared by content, in the transaction.              *)
CreateLedgerBooking(r, k) == LET c == r.data[k]  row == Insert(r, k, c, "ledger") IN
  /\ r.pc \in {"create", "ledger"} /\ c.way = "in"
  /\ IF ~Priced(c) \/ Has(k, "main") \/ \E e \in Row(k, "ledger") : e.fp # c
     THEN /\ Reply(r, Refusal(r), r.states)
          /\ UNCHANGED <<entries, booked>>
     ELSE IF Has(k, "ledger") THEN Reply(r, "saved", r.states) /\ UNCHANGED <<entries, booked>>
     ELSE IF books.open
     THEN /\ entries' = entries \cup {row} /\ booked' = booked \cup {row}
          /\ Reply(r, "saved", r.states)
     ELSE Reply(r, "check", r.states) /\ UNCHANGED <<entries, booked>>
  /\ UNCHANGED <<client, session, books, spent>>

(* ---------------------------- a quick batch ----------------------------- *)

Marked(found) == IF found \cap {"differs", "ledger"} # {} THEN "conflict"
                 ELSE IF found = {"recorded"} THEN "saved" ELSE "none"
Pending(r) == {k \in r.left : r.states[k] = "none"}

ProbeRows(r) ==
  /\ r.pc = "probe" /\ r.form = "quick"
  /\ requests' = (requests \ {r}) \cup
       {[r EXCEPT !.pc = "gate", !.states = [k \in r.id |-> Marked(Probes("quick", r.data[k], k))]]}
  /\ UNCHANGED <<replies, client, session, server, spent>>

QuickSays(states) == IF \A k \in DOMAIN states : states[k] = "saved" THEN "saved" ELSE "check"

QuickGate(r) ==
  /\ r.pc = "gate"
  /\ IF Pending(r) # {} /\ ~books.open
     THEN Reply(r, "check", [k \in r.id |-> IF r.states[k] = "none" THEN "invalid" ELSE r.states[k]])
     ELSE Goto(r, "rows")
  /\ UNCHANGED <<client, session, server, spent>>

RowDone(r, k, state) ==
  requests' = (requests \ {r}) \cup {[r EXCEPT !.states[k] = state]} /\ UNCHANGED replies

(* Each row in a transaction of its own; a row that cannot be stored for   *)
(* another reason than its own ends the request with an error.             *)
CreateQuickRows(r, k) == LET c == r.data[k] IN
  /\ r.pc = "rows" /\ k \in Pending(r)
  /\ IF ~Priced(c) THEN RowDone(r, k, "invalid") /\ UNCHANGED <<entries, booked>>
     ELSE IF Conflict(r, k, c) THEN RowDone(r, k, "conflict") /\ UNCHANGED <<entries, booked>>
     ELSE IF Whole(r, k, c) THEN RowDone(r, k, "saved") /\ UNCHANGED <<entries, booked>>
     ELSE IF books.open /\ RowsUninvoiced(r, k, c)
     THEN CreateEntryPair(r, k, c) /\ RowDone(r, k, "saved")
     ELSE RowDone(r, k, "failed") /\ UNCHANGED <<entries, booked>>
  /\ UNCHANGED <<client, session, books, spent>>

QuickAnswer(r) ==
  /\ r.pc = "rows" /\ Pending(r) = {}
  /\ IF \E k \in r.id : r.states[k] = "failed" THEN Reply(r, "later", r.states)
     ELSE Reply(r, QuickSays(r.states), r.states)
  /\ UNCHANGED <<client, session, server, spent>>

(* --------------------- meanwhile, in the account page ------------------- *)

Account_ == <<queue, pages, form, sender, author, session, wire>>

DeleteEntry(e, cascade) == LET gone == {e} \cup (IF cascade THEN Account(e.key) ELSE {}) IN
  /\ books.open /\ e \in entries
  /\ \A g \in gone : ~g.invoiced
  /\ \A h \in Account(e.key) \ gone : h.linked => ~h.invoiced
  /\ entries' = {IF h.key = e.key THEN [h EXCEPT !.linked = FALSE] ELSE h : h \in entries \ gone}
  /\ UNCHANGED <<Account_, books, booked, spent>>

InvoiceEntries ==
  /\ books.open /\ \E e \in entries : e.half # "ledger" /\ ~e.invoiced
  /\ entries' = {IF e.half = "ledger" THEN e ELSE [e EXCEPT !.invoiced = TRUE] : e \in entries}
  /\ UNCHANGED <<Account_, books, booked, spent>>

SetYearStatus ==
  /\ Event /\ books' = [books EXCEPT !.open = ~@]
  /\ UNCHANGED <<Account_, entries, booked>>

SetCatalog(w) ==
  /\ Event
  /\ books' = [books EXCEPT !.works = IF w \in @ THEN @ \ {w} ELSE @ \cup {w}]
  /\ UNCHANGED <<Account_, entries, booked>>

SetWriters(u) ==
  /\ Event
  /\ books' = [books EXCEPT !.writers = IF u \in @ THEN @ \ {u} ELSE @ \cup {u}]
  /\ UNCHANGED <<Account_, entries, booked>>

ReplayNext ==
  \/ \E t \in Tabs, f \in Forms, S \in SUBSET Keys : \E d \in [S -> Contents] :
       Capture(t, f, S, d) \/ SendOnline(t, f, S, d)
  \/ \E t \in Tabs : \/ \E retry \in BOOLEAN : Flush(t, retry)
                     \/ SendAll(t) \/ Send(t) \/ FormAnswered(t) \/ TimedFetch(t) \/ CloseTab(t)
                     \/ \E i \in queue : Discard(t, i.id)
                     \/ \E i \in queue : \E d \in [i.id -> Contents] : CorrectRejected(t, i.id, d)
                     \/ \E export \in BOOLEAN : Logout(t, export)
                     \/ \E u \in Users : OpenPage(t, u)
  \/ \E r \in requests : \/ Admit(r) \/ ProbeBookingReplay(r) \/ ProbeRows(r) \/ QuickGate(r)
                         \/ QuickAnswer(r)
                         \/ \E k \in r.id : \/ CreateBooking(r, k) \/ CreateLedgerBooking(r, k)
                                            \/ CreateQuickRows(r, k)
  \/ \E e \in entries, cascade \in BOOLEAN : DeleteEntry(e, cascade)
  \/ InvoiceEntries \/ SetYearStatus
  \/ \E w \in Works : SetCatalog(w)
  \/ \E u \in Users : SetWriters(u)

ReplaySpec == ReplayInit /\ [][ReplayNext]_replayVars

(* ------------------------------ properties ------------------------------ *)

(* Nothing captured gets lost (capture, send): an item leaves the queue    *)
(* while it is being sent only after every row of it was stored, with the  *)
(* content it holds now - whatever was corrected, retried or answered late *)
(* in between.                                                             *)
Acknowledged(i) == \A k \in i.id :
  IF i.data[k].way = "in" THEN \E b \in booked : b.key = k /\ b.half = "ledger" /\ b.fp = i.data[k]
  ELSE \A half \in HalvesOf(i.form, i.data[k]) : \E b \in booked :
         b.key = k /\ b.half = half /\ b.fp = Fingerprint(i.form, i.data[k], half)
NothingLost ==
  [][\A i \in queue : ~InQueue(i.id)' /\ (\E t \in Tabs : sender[t].item = i.id)
       => Acknowledged(i)]_replayVars

(* A booking is stored under the user who captured it, on a device several *)
(* users share and whoever is signed in when it is sent                    *)
(* (ownedByCurrentUser).                                                   *)
BookedByAuthor == \A b \in booked : b.by = author[b.key]

(* "The retry keys make a queued copy of a POST that did reach the server  *)
(* harmless" (offline.js): the helpers of one submission are stored once.  *)
HelperBookedOnce == \A k \in Keys :
  Cardinality({e \in entries : e.key = k /\ e.half \in {"helper", "unkeyed"}}) <= 1

=============================================================================
