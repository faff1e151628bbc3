----------------------------- MODULE Recurring -----------------------------
(***************************************************************************)
(* Recurring bookings: rules that hold a booking template and a cadence,   *)
(* the maintenance tick that books what is due, and the operator, who may  *)
(* skip, reschedule, pause, delete or run a rule at any moment of a tick.  *)
(* Sources: internal/store/recurring.go, recurring_booking.go,             *)
(* booking_command.go, entries.go, internal/server/recurring.go.           *)
(*                                                                         *)
(* A tick reads all due rules once.  It then works through that snapshot,  *)
(* one transaction per occurrence, and writes each rule's progress when    *)
(* its loop ends: every such statement is a step, and between two steps    *)
(* the operator, another instance's tick or a crash may act.  Dates are    *)
(* day numbers of a small calendar.                                        *)
(***************************************************************************)
EXTENDS Integers, Sequences, FiniteSets

CONSTANTS
  Rules,        \* ids of recurring_entries, each of a neighbor of its own
  LedgerRules,  \* those whose template is a counterclaim or labor posting
  Workers,      \* goroutines: ticks of the instances and requests to run now
  MonthStarts,  \* the first day of each month, and the day after the last one
  Week,         \* days in a week
  YearOf,       \* the billing year each day falls into
  CatchUp,      \* occurrences of one rule that a tick books at most
  Starts,       \* next runs an operator enters
  Ends,         \* inclusive end dates an operator enters; Never for none
  MaxOps,       \* bound: operator actions in a behaviour
  MaxFaults     \* bound: failed statements and crashes in a behaviour

\* The first day past the calendar: it is never due and ends nothing.
Never == MonthStarts[Len(MonthStarts)]
Days == 1 .. Never - 1
Dates == 1 .. Never
Years == {YearOf[d] : d \in Days}
Kinds == {"weekly", "monthly"}

ASSUME RecurringAssumption ==
  /\ LedgerRules \subseteq Rules /\ Rules \subseteq Nat /\ IsFiniteSet(Rules)
  /\ MonthStarts \in Seq(Nat) /\ Len(MonthStarts) > 1 /\ MonthStarts[1] = 1
  /\ \A m, n \in 1 .. Len(MonthStarts) : m < n => MonthStarts[m] < MonthStarts[n]
  /\ Week \in Nat \ {0} /\ CatchUp \in Nat \ {0}
  /\ MaxOps \in Nat /\ MaxFaults \in Nat
  /\ Starts \subseteq Days /\ Ends \subseteq Dates

VARIABLES
  rule,     \* each rule's row of recurring_entries
  skipped,  \* its rows of recurring_exceptions
  booked,   \* how many bookings carry the key "recur:<rule>:<date>"
  edited,   \* those that the operator has changed since
  years,    \* which billing years are open, the neighbors being members
  erasedRules, \* rules whose neighbor was anonymized
  job,      \* what each worker is doing
  today, ops, faults

operator == <<ops, faults>>
accounts == <<years, erasedRules>>
seriesVars == <<rule, skipped, booked, edited, years, erasedRules, job, today, ops, faults>>

-----------------------------------------------------------------------------
(* Calendar *)

Least(a, b) == IF a < b THEN a ELSE b

MonthOf(d) ==
  CHOOSE m \in 1 .. Len(MonthStarts) - 1 : MonthStarts[m] <= d /\ d < MonthStarts[m + 1]

\* The same day of the next month, or that month's last day.
NextMonth(d) ==
  LET m == MonthOf(d) IN
  IF MonthStarts[m + 1] = Never THEN Never
  ELSE Least(MonthStarts[m + 1] + (d - MonthStarts[m]), MonthStarts[m + 2] - 1)

AdvanceDate(d, kind) ==
  IF kind = "monthly" THEN NextMonth(d) ELSE Least(d + Week, Never)

\* The dates a rhythm visits from d on: d, and with a date the one after it.
Rhythm(d, kind) ==
  {x \in Dates : \A visited \in SUBSET Dates :
     d \in visited /\ (\A y \in visited \ {Never} : AdvanceDate(y, kind) \in visited)
       => x \in visited}

-----------------------------------------------------------------------------
(* Rows and jobs *)

Absent == [state |-> "none", kind |-> "weekly", next |-> Never, ends |-> Never,
           active |-> FALSE, waits |-> FALSE]

RuleRow == [state : {"none", "live", "deleted"}, kind : Kinds, next : Dates, ends : Dates,
            active : BOOLEAN, waits : BOOLEAN]

\* recurring_entries_schedule_bounds_chk
BoundsHold(row) == row.active => row.next <= row.ends

\* What a tick remembers of a rule.
DueRule(r) == [rule |-> r, kind |-> rule[r].kind, next |-> rule[r].next,
                ends |-> rule[r].ends]

\* list holds the rules still to do, the current one first; next, count, ran,
\* waits and known are the loop's variables in runDueRule.
NoJob == [pc |-> "idle", now |-> FALSE, list |-> <<>>, today |-> 0, next |-> 0,
         count |-> 0, ran |-> FALSE, waits |-> FALSE, known |-> TRUE]

Current(w) == Head(job[w].list)

\* Deleting the rule removes the row: later updates by its id find nothing.
SetRule(r, row) ==
  rule' = [rule EXCEPT ![r] = IF rule[r].state = "live" THEN row ELSE @]

\* Starts the loop over one rule of a tick.
Begin(list, day) ==
  IF list = <<>> THEN NoJob
  ELSE [NoJob EXCEPT !.pc = "year", !.list = list, !.today = day, !.next = Head(list).next]

\* Faulty variant: a rule that waits ends the tick.
AbandonTick(w) ==
  job' = [job EXCEPT ![w] = IF @.waits THEN NoJob ELSE Begin(Tail(@.list), @.today)]

NextRule(w) == job' = [job EXCEPT ![w] = Begin(Tail(@.list), @.today)]

-----------------------------------------------------------------------------
SeriesInit ==
  /\ rule = [r \in Rules |-> Absent]
  /\ skipped = [r \in Rules |-> {}]
  /\ booked = [r \in Rules |-> [d \in Days |-> 0]]
  /\ edited = [r \in Rules |-> {}]
  /\ years = Years
  /\ erasedRules = {}
  /\ job = [w \in Workers |-> NoJob]
  /\ today = 1 /\ ops = 0 /\ faults = 0

(* The tick *)

Due(r) == rule[r].active /\ rule[r].next <= today

\* ORDER BY next_run, id
Earlier(r, s) ==
  \/ rule[r].next < rule[s].next
  \/ rule[r].next = rule[s].next /\ r < s

\* The due rules in that order: there is one such list.
DueLists ==
  LET due == {r \in Rules : Due(r)}
      places == 1 .. Cardinality(due)
      sorted == {f \in [places -> due] :
                   \A m, n \in places : m < n => Earlier(f[m], f[n])}
  IN  {[n \in places |-> DueRule(f[n])] : f \in sorted}

RunDueRecurring(w) ==
  /\ job[w].pc = "idle"
  /\ \E list \in DueLists : list # <<>> /\ job' = [job EXCEPT ![w] = Begin(list, today)]
  /\ UNCHANGED <<rule, skipped, booked, edited, today, accounts, operator>>

\* A missing year makes the rule wait where it is.
NeighborYearForDate(w) ==
  /\ job[w].pc = "year"
  /\ job' = [job EXCEPT ![w] =
       IF YearOf[@.next] \in years THEN [@ EXCEPT !.pc = "book"]
       ELSE IF @.now THEN NoJob ELSE [@ EXCEPT !.pc = "save", !.waits = TRUE]]
  /\ UNCHANGED <<rule, skipped, booked, edited, today, accounts, operator>>

\* Faulty variant: the account is not looked at again under its locks.
AccountAsRead(r, d) == TRUE

\* lockMutableBookingAccount
AccountTakesBookings(r, d) == YearOf[d] \in years /\ r \notin erasedRules

\* Faulty variant: every request inserts.
AlwaysInserts(r, d) == AccountTakesBookings(r, d)

\* What the request adds: only an unknown key, and only to an open account.
Inserts(r, d) == booked[r][d] = 0 /\ AccountTakesBookings(r, d)

\* Faulty variant: a refused occurrence is passed over.
AcceptedOrDropped(r, d) == TRUE

\* A known key answers for the request, unless the stored counterclaim differs
\* from it: that is a conflict.
Accepted(r, d) == Inserts(r, d) \/ (booked[r][d] > 0 /\ d \notin edited[r])

\* runDueRule's loop after an occurrence: the next one, if it is due.
AfterOccurrence(j) ==
  LET next == AdvanceDate(j.next, Head(j.list).kind)
      more == j.count + 1 < CatchUp /\ next <= j.today /\ next <= Head(j.list).ends
  IN  [j EXCEPT !.next = next, !.count = @ + 1, !.ran = TRUE,
                !.pc = IF more THEN "year" ELSE "save"]

MaterializeRecurring(w) ==
  LET r == Current(w).rule
      d == job[w].next
  IN
  /\ job[w].pc = "book"
  /\ booked' = IF Inserts(r, d) THEN [booked EXCEPT ![r][d] = @ + 1] ELSE booked
  /\ job' = [job EXCEPT ![w] =
       IF @.now THEN NoJob
       ELSE IF Accepted(r, d) THEN AfterOccurrence(@)
       ELSE [@ EXCEPT !.pc = "save", !.waits = TRUE]]
  /\ UNCHANGED <<rule, skipped, edited, today, accounts, operator>>

\* The UPDATE goes by the rule's id alone, whatever the row says by now.
SaveRuleProgress(w) ==
  LET r == Current(w).rule
      ended == job[w].next > Current(w).ends
      row == [rule[r] EXCEPT !.next = job[w].next, !.active = @ /\ ~ended]
      refused == rule[r].state = "live" /\ ~BoundsHold(row)
  IN
  /\ job[w].pc = "save"
  /\ \/ /\ (job[w].ran \/ ended) /\ ~refused
        /\ SetRule(r, row)
        /\ job' = [job EXCEPT ![w].pc = "reason"]
     \/ /\ (job[w].ran \/ ended) /\ refused
        /\ NextRule(w)
        /\ UNCHANGED rule
     \/ /\ ~(job[w].ran \/ ended)
        /\ job' = [job EXCEPT ![w].pc = "reason"]
        /\ UNCHANGED rule
  /\ UNCHANGED <<skipped, booked, edited, today, accounts, operator>>

\* Written unless the loop stopped at a failure of its own.
SaveWaitReason(w) ==
  LET r == Current(w).rule IN
  /\ job[w].pc = "reason"
  /\ SetRule(r, IF job[w].known THEN [rule[r] EXCEPT !.waits = job[w].waits] ELSE rule[r])
  /\ NextRule(w)
  /\ UNCHANGED <<skipped, booked, edited, today, accounts, operator>>

(* Failures *)

Fault == faults < MaxFaults /\ faults' = faults + 1 /\ UNCHANGED ops

\* A statement of the loop fails: the progress so far is saved all the same.
OccurrenceFails(w) ==
  /\ job[w].pc \in {"year", "book"} /\ Fault
  /\ job' = [job EXCEPT ![w] = IF @.now THEN NoJob ELSE [@ EXCEPT !.pc = "save", !.known = FALSE]]
  /\ UNCHANGED <<rule, skipped, booked, edited, today, accounts>>

\* A statement around the loop fails: the tick turns to the next rule.
RuleFails(w) ==
  /\ ~job[w].now /\ job[w].pc \in {"year", "save", "reason"}
  /\ job[w].pc = "year" => job[w].count = 0
  /\ Fault /\ NextRule(w)
  /\ UNCHANGED <<rule, skipped, booked, edited, today, accounts>>

\* The process dies, or the tick's minute is over.
WorkerDies(w) ==
  /\ job[w].pc # "idle" /\ Fault
  /\ job' = [job EXCEPT ![w] = NoJob]
  /\ UNCHANGED <<rule, skipped, booked, edited, today, accounts>>

-----------------------------------------------------------------------------
(* The operator *)

Operates == ops < MaxOps /\ ops' = ops + 1 /\ UNCHANGED faults

\* Only from a booking of an account that takes bookings.
CreateRecurringUntil(r, kind, next, ends) ==
  /\ rule[r].state = "none" /\ next <= ends
  /\ r \notin erasedRules /\ years # {}
  /\ rule' = [rule EXCEPT ![r] = [Absent EXCEPT !.state = "live", !.kind = kind,
                                    !.next = next, !.ends = ends, !.active = TRUE]]
  /\ UNCHANGED <<skipped, booked, edited, job, today, accounts, operator>>

UpdateRecurringSchedule(r, kind, next, ends) ==
  /\ rule[r].state = "live" /\ next <= ends /\ Operates
  /\ SetRule(r, [rule[r] EXCEPT !.kind = kind, !.next = next, !.ends = ends])
  /\ UNCHANGED <<skipped, booked, edited, job, today, accounts>>

\* Bound: a rule is not skipped past the calendar.
SkipNextRecurring(r) ==
  LET next == AdvanceDate(rule[r].next, rule[r].kind) IN
  /\ rule[r].active /\ rule[r].next # Never /\ Operates
  /\ skipped' = [skipped EXCEPT ![r] = @ \cup {rule[r].next}]
  /\ SetRule(r, [rule[r] EXCEPT !.next = next, !.active = next <= rule[r].ends,
                               !.waits = FALSE])
  /\ UNCHANGED <<booked, edited, job, today, accounts>>

\* A rule that has ended is not resumed.
ToggleRecurring(r) ==
  /\ rule[r].state = "live" /\ Operates
  /\ ~rule[r].active => rule[r].next <= rule[r].ends /\ today <= rule[r].ends
  /\ SetRule(r, [rule[r] EXCEPT !.active = ~@])
  /\ UNCHANGED <<skipped, booked, edited, job, today, accounts>>

\* The exceptions go with the row (ON DELETE CASCADE).
RemoveRule(r) ==
  /\ SetRule(r, [Absent EXCEPT !.state = "deleted"])
  /\ skipped' = [skipped EXCEPT ![r] = {}]

DeleteRecurring(r) ==
  /\ rule[r].state = "live" /\ Operates
  /\ RemoveRule(r)
  /\ UNCHANGED <<booked, edited, job, today, accounts>>

\* An extra occurrence today, outside the rhythm but under the same key.
RunRecurringNow(w, r) ==
  /\ job[w].pc = "idle" /\ rule[r].active /\ Operates
  /\ \/ /\ today <= rule[r].ends
        /\ job' = [job EXCEPT ![w] = [NoJob EXCEPT !.pc = "year", !.now = TRUE, !.today = today,
                                        !.list = <<DueRule(r)>>, !.next = today]]
        /\ UNCHANGED rule
     \/ /\ today > rule[r].ends
        /\ SetRule(r, [rule[r] EXCEPT !.active = FALSE])
        /\ UNCHANGED job
  /\ UNCHANGED <<skipped, booked, edited, today, accounts>>

UpdateLedgerBooking(r, d) ==
  /\ r \in LedgerRules /\ booked[r][d] > 0 /\ d \notin edited[r]
  /\ AccountTakesBookings(r, d) /\ Operates
  /\ edited' = [edited EXCEPT ![r] = @ \cup {d}]
  /\ UNCHANGED <<rule, skipped, booked, job, today, accounts>>

SetYearStatus(y) ==
  /\ Operates
  /\ years' = IF y \in years THEN years \ {y} ELSE years \cup {y}
  /\ UNCHANGED <<rule, skipped, booked, edited, erasedRules, job, today>>

\* The neighbor's rules go with the personal data.
AnonymizeNeighbor(r) ==
  /\ r \notin erasedRules /\ Operates
  /\ erasedRules' = erasedRules \cup {r}
  /\ RemoveRule(r)
  /\ UNCHANGED <<booked, edited, years, job, today>>

NewDay ==
  /\ today < Never - 1 /\ today' = today + 1
  /\ UNCHANGED <<rule, skipped, booked, edited, job, accounts, operator>>

-----------------------------------------------------------------------------
Tick(w) ==
  \/ RunDueRecurring(w) \/ NeighborYearForDate(w) \/ MaterializeRecurring(w)
  \/ SaveRuleProgress(w) \/ SaveWaitReason(w)

SeriesNext ==
  \/ NewDay
  \/ \E w \in Workers :
       \/ Tick(w)
       \/ OccurrenceFails(w) \/ RuleFails(w) \/ WorkerDies(w)
       \/ \E r \in Rules : RunRecurringNow(w, r)
  \/ \E r \in Rules :
       \/ \E kind \in Kinds, next \in Starts, ends \in Ends :
            \/ CreateRecurringUntil(r, kind, next, ends)
            \/ UpdateRecurringSchedule(r, kind, next, ends)
       \/ SkipNextRecurring(r) \/ ToggleRecurring(r) \/ DeleteRecurring(r)
       \/ AnonymizeNeighbor(r)
       \/ \E d \in Days : UpdateLedgerBooking(r, d)
  \/ \E y \in Years : SetYearStatus(y)

SeriesSpec == SeriesInit /\ [][SeriesNext]_seriesVars

\* purgeLoop runs for as long as the process does, and the process is restarted.
SeriesFairSpec == SeriesSpec /\ \A w \in Workers : WF_seriesVars(Tick(w))

-----------------------------------------------------------------------------
(* Properties *)

Job == [pc : {"idle", "year", "book", "save", "reason"}, now : BOOLEAN,
        list : Seq([rule : Rules, kind : Kinds, next : Dates, ends : Dates]),
        today : Nat, next : Nat, count : 0 .. CatchUp, ran : BOOLEAN,
        waits : BOOLEAN, known : BOOLEAN]

\* Every row is well formed and within its bounds, only a live rule is active,
\* and a job that is under way has a rule to work on and a day to book.
SeriesTypeOK ==
  /\ rule \in [Rules -> RuleRow]
  /\ \A r \in Rules : BoundsHold(rule[r]) /\ (rule[r].active => rule[r].state = "live")
  /\ skipped \in [Rules -> SUBSET Days]
  /\ booked \in [Rules -> [Days -> Nat]]
  /\ edited \in [Rules -> SUBSET Days]
  /\ years \subseteq Years /\ erasedRules \subseteq Rules
  /\ job \in [Workers -> Job]
  /\ \A w \in Workers :
       /\ job[w].pc # "idle" => job[w].list # <<>>
       /\ job[w].pc \in {"year", "book"} => job[w].next \in Days
  /\ today \in Days /\ ops \in 0 .. MaxOps /\ faults \in 0 .. MaxFaults

\* However ticks overlap, die or repeat what a request to run now did, an
\* occurrence is booked at most once (RunDueRecurring's idempotency key).
BookedOnce == \A r \in Rules, d \in Days : booked[r][d] <= 1

\* An occurrence found an open year and then waited for its transaction: it is
\* still never booked into a completed year or for an anonymized neighbor.
BooksOpenAccountsOnly ==
  [][\A r \in Rules, d \in Days :
       booked'[r][d] > booked[r][d] => YearOf[d] \in years /\ r \notin erasedRules]_seriesVars

\* Saving a tick's progress moves a rule over no date, of the rhythm the tick
\* read, that is not booked, whatever failed, was booked by others or happened to
\* the rule meanwhile (runDueRule: a waiting occurrence is retried, not lost).
NeverPassesUnbooked ==
  [][\A w \in Workers : job[w].list # <<>> =>
       LET s == Current(w)
           old == rule[s.rule].next
       IN  SaveRuleProgress(w) =>
             \A d \in Rhythm(s.next, s.kind) :
               old <= d /\ d < rule'[s.rule].next => booked[s.rule][d] > 0]_seriesVars

\* A rule does not stay due in silence: its occurrences are booked, or the rule
\* says why it waits, whatever the other rules of the tick run into.
DueIsBookedOrExplained ==
  \A r \in Rules : Due(r) ~> (~Due(r) \/ rule[r].waits)

\* An occurrence recorded as skipped is not booked by a tick afterwards.
SkippedNeverBooked ==
  [][\A w \in Workers : MaterializeRecurring(w) /\ ~job[w].now /\ booked' # booked =>
       job[w].next \notin skipped[Current(w).rule]]_seriesVars
=============================================================================
