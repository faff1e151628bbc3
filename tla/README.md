# Treckrr in TLA+

Treckrr is the accounting of a machinery ring: farmers book work they do for
their neighbors, each neighbor has one account per year, accounts are invoiced,
credited, paid, dunned and carried into the next year. It is one Go service
(several instances may run) over one PostgreSQL database, with a browser client
that can queue bookings offline. This directory holds a TLA+ model of it, TLC
runs on small instances and TLAPS proofs. `PROJECT.json` lists components, runs,
hazards, theorems and, for every definition, the source lines it models.

Contents: [the system](#the-system) · [modules](#modules) · [runs](#runs) ·
[proofs](#proofs) · [findings](#findings) · [plan](#plan) · [not modelled](#not-modelled)

## The system

| Part | State | Operations | What is hard | What makes it correct |
|---|---|---|---|---|
| Account documents | `billing_years`, `billing_year_neighbors`, `entries`, `invoices`, `invoice_entries`, `company` | book, edit, void, delete; preview, issue, storno; attached and free credits, part payments | a preview goes stale; credits and reversals chain; numbers and dates of a year are shared by its accounts | an invoice freezes what was confirmed; credits stay within it; numbers unique and gapless; dates in order, but for a wait over midnight; closed years frozen |
| Settlement | `payments`, `neighbor_ledger` | pay (with Skonto), edit, undo; post; settle; pay out; carry forward | the amount is derived from a balance others change | each derived operation ends at exactly zero; transfers are whole; a carry-forward moves what was confirmed |
| Mail outbox | `mail_outbox`, `mail_outbox_attempts` | create, claim, announce DATA, transmit, settle, sweep, retry, hold, purge | a sender dies or an answer is lost at any step; two senders; reminders go out of date | no second copy without an explicit decision; outdated reminders stay in; everything is decided in the end |
| Recurring bookings | `recurring_entries`, `recurring_exceptions` | run due rules, run now, skip, reschedule, pause | progress is stored after the bookings; schedule changes in between | each occurrence booked once, none passed over, closed accounts untouched |
| Restore, gate and lease | application lease (session lock), maintenance flag, drain lock, task registry | admit, drain, restore, reconcile, reopen; lose the lease; boot, stop, crash | requests and workers around the swap; lease loss at the same time | nothing touches a half-restored database; a lost lease is final |
| Backups, rehearsal | status files, archives, S3 objects, keys | run, retry, prune, mirror, verify, rotate, rehearse | several processes; interrupted attempts; partial mirrors | the last good archive is kept, here and off site; attempts stay spaced |
| Audit chains | `audit_log`, `audit_chain_heads` | append, seal, purge, verify, rehearse, restore | rows commit out of id order; history is discarded by a restore | the log never accuses itself; its own backups pass |
| Payment import, allocation | `payment_import_*`, payments and invoices | park, match, confirm row by row, resume, reverse; plan allocations | repeated uploads, requests that die between rows | a statement line is paid in once; every cent is allocated once |
| Sign-in | `users`, `sessions`, codes, passkeys, ceremonies, throttles | sign in, prove a factor, revoke, change roles, deactivate, delete | concurrent use of one code; two admins at once; sign-ins under way | single use; a deactivated account holds nothing; an admin remains |
| Offline queue and replay | IndexedDB queue; idempotency keys of `entries` and `neighbor_ledger` | capture, flush, correct, discard; replay | lost answers, two tabs, partial batches, foreign items | stored for its author, and lost by nobody's retry |
| Prices and recalculation | price bases, items, terms | edit, clone, uplift, switch; price a form, insert; preview, apply | previews go stale; a revision that triggers keep; invoices between preview and write | no recalculation applies an overtaken preview; invoiced prices are frozen |
| Personal data, shares | `neighbors`, texts, photos, signatures, fields, links, feedback | write, sign, share, answer through a link; anonymize | a writer that read before the erasure and writes after it | an erased neighbor holds nothing; a link's visitors keep their allowance |
| Lock order, rollover, notifications, output, pages | see `PROJECT.json` | mostly single statements, reads and formatting | | |

The parts share the database. An account transaction first takes the advisory
lock of its year, then the rows of year, neighbor and membership
(`lockAccountBoundary`), which serializes everything documents and settlement do
in a year. Settlement issues documents (a Skonto credit) and documents read the
ledger (a free credit's cap). Recurring rules and replays end in the booking
operations of the documents. The outbox runs without that lock: its claims and
settlements are single conditional statements, and only the amount a reminder
demands ties it to the accounts. A restore stops all of it: the gate drains
requests and background tasks, the lease keeps other processes out, and what
comes back is reconciled (mails held, audit chain taken up again) before traffic
reopens. Erasure of a neighbor meets every writer of personal data.

## Modules

Each component is a module of its own (state, `Init`, an action per operation or
step, `Next`, specification, properties). A theorem about it is in a module that
extends it.

| Component | Theorems | Run |
|---|---|---|
| `AccountDocuments` | `AccountDocumentsProofs` | Accounts |
| `Settlement`, extends `AccountDocuments` | `SettlementProofs` | Accounts, PhantomCredit |
| `MailOutbox`, abstract specification `MailPromise` | `MailOutboxProofs` | Operations, Progress |
| `Recurring` | `OperationsProofs` | Operations, Progress, SkippedBooked |
| `PaymentImport` | `OperationsProofs` | Operations |
| `RestoreGate` | `RestoreGateProofs` | Restore, RestoredMail |
| `Backups` | `RestoreGateProofs` | Restore |
| `PersonalData` | `BookingsProofs` | Bookings, LateField |
| `OfflineReplay` | `BookingsProofs` | Bookings, HelperTwice |
| `SignIn` | `AccessProofs` | Access |
| `AuditChain` | `AccessProofs` | Access |
| `PriceBase` | `AccessProofs` | Access, DroppedTractor |

`SumProofs` holds lemmas about sums over finite sets and induction that several
of the proof modules cite. The other modules are instances for TLC:
`MCSettlement`, `MCRecurring`, `MCRestoreGate`, `MCOfflineReplay` and
`MCPriceBase` give one component its values; `MCAccounts`, `MCOperations`,
`MCProgress`, `MCRestore`, `MCBookings` and `MCAccess` put components side by
side that share no state. There a variable `question`, chosen initially, says
which of them a behaviour is about; the others rest in an initial state. One run
thus asks several questions without multiplying their state spaces.

**AccountDocuments.** `docs` is the table `invoices` without the reversing rows,
in id order; `stornos` are those rows, each named by the document it reverses
(its amounts are the negated amounts of that document, `reverseContent`);
`claims` are the active rows of `invoice_entries`. An action is one store method,
i.e. one transaction. `BuildPendingInvoiceContent` is the page that shows a
preview, in a transaction of its own: `preview` holds the content whose hash the
form carries, so anything may happen until `IssueInvoice` compares. A hash is
modelled by what it covers: the source bookings, their costs and the VAT rate. A
document number keeps its class, sequence and suffix because `docSeqNumber` reads
numbers back with a pattern (`TrailingSeq`). Amounts are whole cents; VAT rounds
half up once per invoice, as the code does. A standalone credit and a part payment
are dated by the day their request began (`DayBegun`), which a wait for the year's
lock may leave behind: one midnight is modelled. The other documents are dated under
the lock.

**Settlement.** Adds `payments` and `neighbor_ledger` and the balance
(`remainingSQL`): gross of standing invoices, net of unclaimed bookings, standing
credits, postings, payments. `carryPreview` is the page before a carry-forward.
Every step of the documents is also a step of this module (`DocumentStep`), with
the free credit's cap reading the real ledger and the membership kept by payments
and postings as well. `AccountDocuments` is its abstract specification as far as
documents go: whatever the money does, the documents obey it (proved).

**MailOutbox.** A row per delivery key with status, attempt counter, SMTP phase
and attempt log; a `sender` is a goroutine (worker tick or request) with the row
as it read it and a program counter between its database statements and SMTP
steps. `Crash` ends a sender anywhere. `Transmit` is the DATA phase: the server
takes the message or not, and its answer may be lost either way. `copies` counts
what the server accepted since a request that accepts duplicates (the creation of
the mail or a forced resend of an ambiguous one). `ReopenMailIntent` covers every
caller that sets `RetryFailed` or `ForceResend`. `owed` is what the reminder's
invoice leaves open, changed by any payment or credit. The requests that create
mails differ in what they check first: a reminder recomputes what it demands
before it is rendered (`Demands`, `DeliverMahnung`), the dunning page sends one
or a batch of them, documents and year overviews go out as they are
(`RequestMail` is their union).

`MailPromise` is what the outbox promises about each mail, without senders,
attempts, phases or sweeps: a mail waits, leaves, and is then delivered, failed or
unclear; the server takes a mail once while it leaves; it comes back or is called
failed only if the server does not have it, is called delivered only if it has,
and what is unclear is sent again only by someone who accepts a duplicate.
`KeepsPromise` is that specification under a refinement mapping: the stage of a
mail is read off its row (`RowStage`, where a claim that was not announced is
still waiting, and `StageOf`), the copies are the model's own.

**Recurring.** `rule` is the row of `recurring_entries`, `skipped` the rows of
`recurring_exceptions`, `booked` how many bookings carry an occurrence's key. A
`job` is a goroutine: a tick with the snapshot of due rules it took and the
variables of `runDueRule`'s loop, or a request to run a rule now. Looking up the
year, booking, saving the progress and saving the reason for waiting are steps of
their own; between them the operator skips, reschedules, pauses, deletes or runs a
rule, years close, neighbors are anonymized, other ticks run, statements fail and
processes die. `CreateBooking`'s replay check is `Accepted`: a known key answers
for an entry, while a counterclaim that was edited since conflicts, which makes
the series wait. Dates are day numbers of a calendar given by its month starts,
so `AdvanceDate` clamps to the end of a shorter month as the code does; `Rhythm`
is the set of dates reached from a start by advancing. The table's check
constraint on end dates is `BoundsHold`: an update it refuses leaves the row and
the tick turns to the next rule.

**PaymentImport.** A statement is parked by its preview; a commit (`commits`)
reads which credits were seen, matches the rest, records a batch with a row per
credit and books row by row. `hashes` is `payment_imports`, whose unique key
decides between two imports; a request may die between any two rows and be
resumed. `Parse` says what the import keeps of a camt, CSV or MT940 line. The
planner of `invoice_allocation_plan.go` is a set of operators over the account,
evaluated in every reached state against the sums it must conserve.

**RestoreGate.** Per instance the atomic flags, the activity lock and the task
registry; per goroutine a program counter: a request passes the gate, is
admitted, works; a task passes the check, registers, works; the request that
restores drains, locks, upgrades the lease, loads, migrates, reconciles, and
finishes in the code's order (release, reopen, unlock). `shared` and `exclusive`
are PostgreSQL sessions holding the lease; a lost session drops it without
the process noticing until it looks. `cli` is an offline restore or upgrade.
`db` says whether the schema is the program's and what the restored outbox holds.

**Backups.** Tickers (scheduler loops) and operators make archives, mirror them
to the bucket, prune both, verify, rotate keys, rehearse. The status file,
attempt markers and back-off clocks are the code's; each file or object operation
is a step, may fail, and the process may die after it. Archives are numbered by
their timestamp. A file is intact, cut short or rotten (`Contents`), when it is
written or later; a run `holds` what it read or made, and the drill before the
promotion tells the three apart. A stored copy that HEAD or GET cannot read is
removed and put again like one that differs. A run is marked before it starts and has
`RunLimit` from then on; `since` is when the last scheduled run of a destination
that brought no success started, whatever the tick's own `t` says. Writing the status
of an interrupted attempt and clearing its marker are two steps.

**AuditChain.** A row is a number, its hash the sequence of rows the chain
consists of up to it, which is what a hash over predecessor and content stands
for. Rows commit out of id order, the tick seals in batches, purges a sealed
prefix and verifies over several reads; dumps are snapshots of any age, which a
rehearsal compares with the recorded heads and a restore puts back.

**SignIn.** Accounts with password, factors, passkeys, recovery codes and sessions;
workers are requests whose database statements are steps. Steps of the time-based code,
recovery codes and passkey counters are what a proof consumes: a proof is an account, a
secret and a step of it, whoever presents it and whenever. Confirming the second factor,
again too, or removing it sets the last step anew, so steps after it are unused as far
as the row knows (`StepsReopen`). Sign-ins and ceremonies already begun are initial
states. Throttles are counters. Role changes, deactivation, deletion and the factor
policy are operators' requests, subject to the same interleavings.

**OfflineReplay.** `queue` is the IndexedDB store, `pages` the open tabs with the
user they were rendered for, `sender` a tab's flush under the queue lock,
`requests` and `replies` what is on the wire in either direction, both of which
may be lost. Server rows carry the keys the code derives from an item's key: for
the machine's half, the helper's half, a posting. Three forms differ in how they
key their rows (`shared`, `old`, `quick`).

**PriceBase.** Bases with their items, rigs, billing rule, additions and terms;
a booking is priced by its form (`draft`) and stored later, a recalculation is
previewed (`recalc`) and applied later: it notes the basis's revision, previews, takes
the locks, compares, writes. `clock` numbers the catalog changes, and a basis's `rev`
(`items_updated_at`) tells one from another. The triggers write the start of the
changing transaction there, which is no order of commits; equality is all the
recalculation asks of it, and the comparison with `priced_at` behind the badge
(`CountPotentiallyStale`) is left out.

**PersonalData.** What the books hold about one neighbor beside amounts. A
transaction that locks the neighbor's row is a step; a handler that reads first
and writes later is two, with `work` in between. `texts` count versions, 0 is the
empty text erasure leaves. Links expire, are withdrawn, and count the answers
given through them in 24 hours.

## Runs

Every property of a run is about a hazard of `PROJECT.json`, and every one is
broken by a small mutation of a definition of the model (listed there). Distinct
states in parentheses; each run takes less than five minutes.

| Run | Instance | Shows |
|---|---|---|
| Accounts (1.68M) | six questions: claims, amounts, credits, numbering, carry, skonto (`MCAccounts`) | documents: `FrozenSourcesIntact`, `ConfirmedIssue`, `ClosedYearFrozen`, `CreditsWithinInvoice`, `JournalBalances`, `SequencesGapless`, `NumbersUnique`, `DatedInOrder`; money: `TransfersPaired`, `SettlesExactly`, `InvoiceAddsOnlyItsTax` |
| Operations (1.22M) | one rule, 2 workers, 3 days in 2 months and years; 2 mails, 2 senders, queue of 1; 2 statements, 2 commits, 3 invoices | `BookedOnce`, `BooksOpenAccountsOnly`, `NeverPassesUnbooked`; `AttemptsClosed`, `QueueBounded`, `KeepsPromise`; `ImportedOnce`, `AllocationAddsUp` |
| Progress (70k) | 1 reminder, 2 senders; 2 rules, 1 worker; fairness | `EveryMailSettles`, `OutdatedNeverSent`, `DueIsBookedOrExplained` |
| Restore (2.64M) | 2 instances of 2 goroutines and an offline restore; a scheduler and an operator, 3 archives | `DrainedWhileRestoring`, `RestoreExcludesOthers`, `FailClosedIsFinal`; `RecoveryPointKept`, `OffsiteKept`, `AttemptsSpaced` |
| Bookings (1.29M) | 2 tabs, users and keys, 1 booking, 2 posts; 2 requests at a time about 1 neighbor, 2 links | `BookedByAuthor`, `NothingLost`; `ErasedHoldsNothing`, `AnswersWithinAllowance` |
| Access (1.04M) | 2 accounts, 2 requests; 3 audit rows, 2 dumps; 2 bases, 1 booking | `AdminRemains`, `DeactivatedHoldsNothing`, `ProofUsedOnce`; `NoFalseAlarm`, `OwnBackupsPass`; `PreviewHolds`, `FrozenPrices` |
| PhantomCredit, SkippedBooked, RestoredMail, HelperTwice, DroppedTractor, LateField | smallest instance that shows it | violations, see [findings](#findings) |

Why these bounds suffice. A frozen booking needs a second writer, not a third
booking; two bookings give an invoice of one and of two lines, and a second
invoice beside the first. Two costs and two rates are what a preview can be stale
about. Four documents are needed for the longest chain that matters: an invoice,
two attached credits (so that `-G2` exists) and a standalone one. Credits of 70
against 120 make the second credit exceed the cap. Two accounts and two days
suffice for shared numbers and dates. The second of two years is the target of a
carry-forward and there is no operation on three; that question is bounded to
three records of money and starts in a season in progress (`SeasonInit`), a state
the first steps of the specification reach. Two senders and two attempts give
every race on a claim, one retry and the last attempt; a queue of one is at its
limit with the first mail. Two workers give every pair of a tick with another
tick or a request; a catch-up cap of two with three days due makes a rule need a
second tick, and the second month begins a year that may be closed while the
first is open. Two bank statements overlap in one credit and each holds one of
its own; one of the two equal amounts names its invoice, the other is known by
its IBAN alone. Two instances are what a lease can separate, two goroutines what
a gate can. Three archives are one more than retention keeps. Two requests are
what a single-use proof, the last admin or an erasure can be raced by; sign-ins begun
beforehand let both present the same code, recovery code or passkey value, at once or
one after the other, and at two attempts the throttle does not stop the second;
where passkeys exist from the start, the policy asks administrators for a factor.

Bounds that couple counters are in the MC modules: operator actions and faults of
`Recurring` together at most two (Operations), lost sessions and stopped
processes together at most one (Restore). Access has a state constraint,
`CalmAll`: two changes or events of the catalog in all, a rate list in the browser
only while no booking is at stake, a change of basis beside at most the first
booking, a form in flight beside a recalculation or another event, not both; and
of the audit log one row in flight at a time once there is a backup, none between
a second backup and the restore. DroppedTractor has the part of it about prices.
A constraint cuts behaviours, so both runs check
safety only. Where values are interchangeable (instances, goroutines, workers,
accounts, tabs) runs that check only safety use symmetry. TLC's deadlock check is
off where a bound or the last day stops the instance (Operations, Progress,
Restore, Bookings, Access, SkippedBooked, HelperTwice, DroppedTractor).

### Fairness

Only Progress assumes any. Workers' ticks begin and go on (weak fairness of
`Tick` in `Recurring`): `purgeLoop` runs for as long as the process, and a dead
process is restarted; faults are bounded, days and operators are not forced.

`Fairness` of `MailOutbox`: the maintenance tick runs every 15 minutes
(`cmd/treckrr/main.go`), so what is due is listed and stale claims are swept
(weak fairness of `ListDue` and of the sweep); time passes (`ClaimExpires`,
`BackoffElapses`); a sender that started goes on or dies. Death before the claim
may not happen for ever (strong fairness of the check and of the claim), or
nothing could ever be promised. A claim counts as stale after twice
`perMailBudget`, and a delivery is cut off after one, so `ClaimExpires` requires
that its sender is gone. Operators and money are never forced to act.


## Proofs

A theorem holds for every value of the constants that satisfies the named
assumptions of its module, so for any number of accounts, mails, workers,
instances, days. TLC has checked each property first, on the run above.

| Theorems | Say |
|---|---|
| `AccountDocumentsProofs`: TypeCorrect, SourcesStayFrozen, IssuedAsConfirmed, NumbersNeverMeet, NumbersWithoutGap, DatesRunForward, ClosedYearsKeep, ReversedOnce, RecordsKeepMembership, CreditsStayWithin, JournalAlwaysBalances | every property of the documents: `TypeOK`, `FrozenSourcesIntact`, `ConfirmedIssue`, `NumbersUnique`, `SequencesGapless`, `DatedInOrder`, `ClosedYearFrozen`, `OneReversal`, `NoOrphans`, `CreditsWithinInvoice`, `JournalBalances` |
| `SettlementProofs`: ImplementsDocuments, DocumentsUndisturbed, MoneyTyped, CarryForwardsStayWhole, SettlementIsExact, InvoicesAddTheirTax, ClosedYearsOnlySettle | `SettlementSpec => Spec` of the documents, and with it every theorem above while money moves; `SettlementTypeOK`, `TransfersPaired`, `SettlesExactly`, `InvoiceAddsOnlyItsTax`, `ClosedLedgerOnlySettles` |
| `MailOutboxProofs`: TypeCorrect, AcceptedStaysDelivered, OneCopyEach, HistoryClosed, OneSenderEach, QueueStaysBounded, OutboxKeepsPromise, PromiseMeans | `TypeOK`, `NeverResendsAccepted`, `OneCopyPerRequest`, `AttemptsClosed`, exclusive claims, `QueueBounded`; `KeepsPromise`, and what `MailPromise` is worth |
| `OperationsProofs`: TypeCorrect, OccurrenceBookedOnce, OpenAccountsOnly, NothingPassedOver; CreditsBookedOnce | `SeriesTypeOK`, `BookedOnce`, `BooksOpenAccountsOnly`, `NeverPassesUnbooked`; `ImportedOnce` |
| `RestoreGateProofs`: TypeCorrect, DrainedBeforeRestoring, LostLeaseIsFinal, RestoresAlone, NobodyWorksOnOldSchema; RecoveryPointHolds, OffsiteHolds, AttemptsHold | `TypeOK`, `DrainedWhileRestoring`, `FailClosedIsFinal`, `RestoreExcludesOthers`, `ServesCurrentSchema`; `RecoveryPointKept`, `OffsiteKept`, `AttemptsSpaced` |
| `BookingsProofs`: TypeCorrect, ErasedForGood, AllowanceKept; BookedUnderAuthor, QueueLosesNothing | `TypeOK`, `ErasedHoldsNothing`, `AnswersWithinAllowance`; `BookedByAuthor`, `NothingLost` |
| `AccessProofs`: TypeCorrect, AdministratorRemains, RetiredHoldsNothing, NothingAcceptedTwice; InvoicedPricesStand, PreviewsHold; NeverAFalseAlarm, BackupsOfThisLinePass | `TypeOK`, `AdminRemains`, `DeactivatedHoldsNothing`, `ProofUsedOnce`; `FrozenPrices`, `PreviewHolds`; `NoFalseAlarm`, `OwnBackupsPass` |

### Arguments

An invariant is seldom inductive as it stands. What is added, and why:

* **Documents.** `TypeInv` is `TypeOK` with `NumbersBounded` and `StornosOfDocs`:
  a number built by `AttachedSuffix` or `ClassSeq` is a natural number only if the
  maxima and cardinalities it is built from are of finite sets of naturals, and a
  reversal's row needs the document it names. `FrozenSourcesIntact` is inductive
  beside it: writers keep it because `EditableEntry` excludes claimed rows,
  issuance because it claims exactly the pending ones, storno because it releases
  a document's claims with its status. `NumberInv` adds the shape of numbers
  (`NumbersShaped`), without which an attached credit could look like a standalone
  one. `DatesPast` says that nothing is dated after the server's day, which never runs
  back; so what is dated under the lock comes after everything, and what is dated by
  its request's begin at most a midnight before it.
* **Amounts.** `AmountInv` (finitely many live bookings, finitely many lines,
  negative credits) makes every sum of the journal a number. `CapInv` says of the
  invoice that its attached credits stay within its gross and that a credit stands
  only on a standing invoice: a storno cancels the credits with it. The journal
  balances because a storno adds, for each document it cancels, the row that
  negates it, and `ReversedOnce` says it does so once.
* **Settlement.** `DocumentsInv` is `TypeInv` and `AmountInv` of the documents,
  `MoneyInv` that postings are finite in number and have ids already given out,
  hence a new transfer's id names no older posting. Exactness is arithmetic on the
  balance: a new payment or posting changes exactly one of its five sums, by its
  amount. A carry-forward is exact about the preview too: it posts only what the
  confirmed `carryPreview` says, compared under the lock with the balance of then
  (`CarryConfirmed`). Issuing moves bookings from one sum to another; the difference is the tax.
  Every step of `SettlementSpec` is a step of `Spec` or leaves `vars` alone.
* **Outbox.** `OutboxInv`: while a sender is beyond its claim the row is still the
  one it claimed, attempt number included, unless the mail was erased
  (`ClaimsStand`); no mail has two such senders (`OneClaimant`); and row and
  sender say how many copies can be out (`RowsKnow`, `SenderKnows`). `QueueInv`
  counts undelivered payloads: of all steps only an admitted or reopened intent
  adds one, and it looks first.
* **The promise of the outbox.** A step of `MailOutbox` touches one mail, or with the
  sweep many at once, each by a condition on its own row; so a step is described by
  a relation per mail, which is shown to be one of `MailMoves`, and the abstract
  `PromiseNext` asks for no more than that of every mail. That a mail taken back was not
  accepted, and that one called delivered was, is what `OutboxInv` knows of rows and
  senders. `NeverResendsAccepted` and `OneCopyPerRequest`, stated on the rows, are theorems
  beside it; `PromiseMeans` says the same of anyone who keeps the promise.
* **Payment import.** `ImportInv`: payments are numbered and a counter-entry names an
  earlier one (`PaymentsNumbered`); a hash and its one payment are recorded together
  (`HashesBooked`); what a request saw is still recorded when it matches
  (`SeenBooked`); a row's status is true of the payment it names (`RowsRight`), and
  no two rows name the same (`RowsApart`). A credit is thus booked once although
  the check that shows it in the preview is long out of date. That no line is
  booked in part rests on `FilesAreWhole`: the credits `Parse` makes of a line add up
  to the line's amount, or there is none.
* **Recurring.** `SeriesInv`: rows are of their table's shape and obey its check
  constraint, a key is booked at most once, and a job's loop over its snapshot
  stands at a date of that snapshot's rhythm with every earlier date of the rhythm
  booked (`Counted`). `Rhythm` is a least set closed under advancing; that no date
  of it lies strictly between one and its successor follows from the order of the
  month starts.
* **Restore.** `GateInv` is local to a process: one owner of the restore, its flag
  up, the lock held during the swap and exclusive to it, whoever is inside holds
  the lock shared, and a drain still waits for every task there is. `LeaseInv`
  relates processes: while no session was lost and no drain overran, an attached
  process shares the lease and a swapping one has it alone. `SchemaInv` adds that
  on an old schema every serving process is shut.
* **Personal data.** `PersonInv`: photos and links name their bookings and invoices, and
  after erasure no invoice link is left and no answer is half given. `LockHeld` and
  `AllowedRoom` say that a statement link has one answer being counted and that there was
  room for it.
* **Offline queue.** `OfflineInv` follows an item through its four places: the
  queue, the flush that copied it, the request on the wire, the rows. Copies in
  requests and flushes agree with the item of their key (`SameBooking`), keys are
  drawn once (`ItemsApart`), and what the rows of a key say is what its item says
  (`BookedHeld`). That an answer which removes an item finds its rows stored
  (`RowsSettled`, `StoredBooked`, `HelpersBooked`) holds because a flush waits for
  its own answer (`OneFlush`, `OneAnswer`) and only sends what is queued.
* **Sign-in.** `TypeInv` relates a request's program counter to its fields,
  `AdminInv` says that under the administrators' lock one request decides, and
  that after its count another administrator is left; `RetiredInv` that a
  deactivated account got nothing back from a sign-in that was under way;
  `ProofInv` that what was spent lies in the past of its account's counters, and
  that the codes and numbers requests draw are their own. A step either leaves an
  account's last step no smaller, or sets it anew and reopens the steps after it
  (`Reopened`), which are then not counted as spent.
* **Prices.** `PriceInv` is about shapes: bookings and catalogs have their fields,
  the year's basis exists, revisions are of the past, and a recalculation holding the
  year's lock found the year open. A step on the year's basis either gives it a
  revision that no preview has seen (`Touches`) or leaves all that its prices are made
  of (`Keeps`). `PreviewInv`: while the revision a recalculation noted is the basis's,
  its preview is what the catalog gives, because a price is a function of what is
  kept (`SamePrice`, `KeptPrice`).
* **Backups.** `FileInv`: no archive on the volume is cut short (a dump is promoted
  only after its drill, a rotated one likewise); whoever is inside a run
  holds the lease for heavy work (`HoldsWork`), so there is one; and who verifies
  or repairs a copy does so with an own object and a dump that is there
  (`Copying`): since only retention removes a dump, and a run of retention needs
  the same lease, the dump cannot go meanwhile. `ClockInv`: an attempt's marker and
  the last heavy run have their retry clock in the row (`RetryHeld`), which a crash
  leaves behind; who is inside a tick holds the scheduler's lease (`OneScheduler`);
  and what a tick found due, or set out to run, is a backoff from the last heavy run,
  less the deadlines of the runs its tick made first (`TickOK`, `Spaced`, `Lag`).
  `PointInv`: a reported success has its archive (`Reported`), and an actor on
  its way to report one counts on an archive newer than all others, on the volume
  (`VolumeOK`) or, where that is empty, in the bucket (`CopyOK`); other actors' steps
  leave it that (`Keeping`), as retention spares the newest.
* **Audit log.** `LogInv`: a chain is its head's hash, that is, behind the anchor each
  number of it is the number of exactly one stored row, whose predecessor hash is the
  part of the head's hash before it (`Chained`); every recorded head is such a
  beginning (`History`), unless a restore discarded it, which takes the record along; rows
  in flight are unsealed; and every dump is a log of that kind (`DumpsSound`). Sealing
  appends the batch's rows of a chain, each at the place its id has among them
  (`Rank`), purging moves the anchor, a restore swaps in a dump. A verification
  reads heads and rows at different times, but locks the heads, so that nothing is
  sealed or purged in between; rows that are only written are not in a chain yet.

`SumProofs` proves, with no induction rule that takes an operator, what the sums
need: a fold over a finite set is the sum of a chosen element and the sum without
it (`SumUnfolds`, `SumWithout`, `SumWith`, `SumOfUnion`, `SumRenamed`,
`SumNegated`). Induction over naturals (`CountUp`) and finite sets (`BuildUp`) is
by least counterexample, on a set as parameter; `LeastOf` and `GreatestOf` give a
set of naturals its least, and if bounded its greatest, element.

### Assumptions

Each is named where its constants are declared, is evaluated by TLC, and is true
of the code: ids are distinct and drawn from a finite or countable set, amounts
are natural numbers of cents above zero (`AmountAssumption`, the tables' checks
and the forms), an entry belongs to one account for good (`AccountOfAssumption`),
years are numbers (`SettlementAssumption`), the catalogs a
year starts with have the columns every basis has (`OpeningShaped`), month starts rise
(`RecurringAssumption`), limits are natural numbers (`BoundAssumption`,
`OutboxAssumption`, `BoundsNat`, `AllowanceNat`, `TextBound`), and markers for
nothing or nobody are none of the values (`NamesDistinct`, `NoneIsNoSlot`,
`NobodyDistinct`, `NothingIsNoFile`); a browser draws finitely many keys
(`KeysFinite`), and a file's lines and a form's content have their fields
(`EntriesShaped`, `ContentsShape`). Retention keeps at least one dump: a setting of
zero, which prunes nothing, is left out. No theorem has a hypothesis of its own.

### Only model-checked

Liveness (`EveryMailSettles`, `OutdatedNeverSent`, `DueIsBookedOrExplained`): the
provers here have no rule for fairness and `ENABLED`. `AllocationAddsUp`: what the
planner allocates is a recursive computation over data.

## Findings

Each is a disagreement between the code and what a comment, a test or the code
elsewhere says; the run named shows it, `PROJECT.json` quotes it.

* **PhantomCredit.** `FreeGutschrift` caps a credit granted before any invoice by
  the bookings of that moment, and its comment concludes that such a credit can
  turn the account negative only through real payments
  (`internal/store/invoice_partial.go:160`). Voiding, deleting or cheapening a
  booking afterwards consults no credit.
* **SkippedBooked.** A tick books from the snapshot it took and
  `saveRuleProgress` updates the row by its id alone
  (`internal/store/recurring.go:383`, `:418`): an occurrence skipped after the
  snapshot is booked all the same. For the same reason a tick overwrites a schedule
  the operator sets while it runs and may end a series whose end was postponed.
* **RestoredMail.** Holding the restored queue is a step of the reconciliation
  (`internal/store/restore.go:31`), after the restore's commit. An offline restore
  that ends between the two leaves mails that the next start sends.
* **HelperTwice.** The shared form stores one helper without a retry key
  (`internal/server/booking_application.go:36`): a timed-out post and its queued
  copy, both past the probe, book the helper twice.
* **DroppedTractor.** A booking whose tractor and load level were both deleted is
  recalculated as one of machines alone (`internal/store/recalc.go:144`).
* **LateField.** A field created by a request that read the neighbor before its
  erasure is inserted after it (`internal/server/fields.go:105`).

Smaller oddities met while modelling, with no run of their own: after a fresh
install a failed first mirror is not retried before the next cron slot, because
the failure is recorded where the next load of the scheduler looks for a success
(`backup.go:1432-1435`, `scheduler.go:59-60`); a conflict answered concurrently
lacks the header that tells the client it is a replay; a reversal of an imported
payment of an anonymized account cannot be booked; identical credits of two
separate statements share a hash, while one credit read from camt and from CSV has
two; a signature confirms the text read when it is posted, not the one its page
showed.

Of dates and times: a standalone credit or part payment that waited for the year's lock
over midnight gets a number after, and a date before, a document of the new day
(`invoice_partial.go:116`, `:229`; `company.go:577-579` dates invoices under the lock);
a tick's `now` is taken once, so a rehearsal may begin after its own retry time
when the runs before it took long (`backup.go:1428`, `rehearse_schedule.go:41-43`).
The badge is no exact negative (`0040_pricing_freshness.sql:18`, `recalc.go:368`): a
form priced before an edit of its basis and inserted after it is stamped newer than the
edit, and so is a booking inserted while the edit's transaction runs, since `now()` is
the transaction's start; a booking left under another basis by a change of basis that
raced it is outside it too. An edit committed between a recalculation's comparison
of revisions and its commit is not seen by it.

Of copies and codes: any failed read of a stored copy removes it before it is put again
(`backup.go:983-987`, `:1813-1841`), so the off-site copy is gone if the upload then
fails; `pruneS3` counts own objects whether or not they are whole, so newer uploads
that were cut short may displace a verified copy; confirming the second factor again
sets `totp_last_step` to the step of the confirming code, whatever it was before
(`two_factor.go:78-82`), so single use of a step (`auth.go:235-238`) is kept from one
confirmation to the next.

## Plan

Done: the components above, their runs, the theorems listed. Next: the lock order of
account transactions as a module of its own, the reason why the transactions above
are atomic, with freedom from deadlock; then dunning and rollover.

## Not modelled

Formatting and reading (PDF, e-invoice, spreadsheets, pages, search, statistics),
migrations, configuration, rollover, notifications, dunning levels and instalment plans,
and the parts marked so in `PROJECT.json`. Inside modelled parts: issuance without a
confirmed preview (no handler calls it), rows of the outbox from before delivery keys,
the byte part of the queue limit (rows stand for both), postings booked in bulk, helpers
beside an occurrence of a recurring rule, counters of an import batch, the parsing of
bank formats below what `Parse` says, browsers without Web Locks, the throttle on
starting a sign-in ceremony, cookies and QR codes, tampering with the audit log,
renaming a price base, and everything about a booking except its account, cost and life
cycle. The times the badge of stale bookings compares are not modelled either. The
database is assumed to give the isolation its locks ask for, and the accounts'
transactions are atomic because of the year lock; the order in which a transaction takes
several locks is not modelled.
