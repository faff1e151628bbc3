-------------------------- MODULE OperationsProofs --------------------------
(***************************************************************************)
(* What holds of the operations beside the accounts.                       *)
(*                                                                         *)
(* Recurring bookings, for any number of rules and workers, any calendar   *)
(* and any bound: an occurrence is booked once, only into an open account, *)
(* and a series moves over none that is not booked.  A rhythm is the       *)
(* smallest set of dates closed under AdvanceDate; an induction over it    *)
(* names the set of dates the claim holds of.                              *)
(*                                                                         *)
(* Payment import, for any files, requests and documents: a credit becomes *)
(* one payment, whole, and what a batch says of it is so.                  *)
(***************************************************************************)
EXTENDS Recurring, PaymentImport, SumProofs, TLAPS

\* Only a transaction of materializeRecurring adds bookings, and it adds at
\* most one, of one occurrence, when the key is unknown and the account open.
Adds(r, d) ==
  /\ Inserts(r, d)
  /\ booked' = [booked EXCEPT ![r][d] = @ + 1]

BookedInv ==
  /\ booked \in [Rules -> [Days -> Nat]]
  /\ BookedOnce

\* Every step leaves the bookings alone or is such a transaction.
LEMMA StepOfBookings ==
  ASSUME [SeriesNext]_seriesVars
  PROVE  booked' = booked \/ \E r, d : Adds(r, d)
<1>1. CASE seriesVars' = seriesVars
  BY <1>1 DEF seriesVars
<1>2. ASSUME NEW w \in Workers, MaterializeRecurring(w)
      PROVE  booked' = booked \/ \E r, d : Adds(r, d)
  BY <1>2 DEF MaterializeRecurring, Adds
<1>3. ASSUME NEW w \in Workers, Tick(w)
      PROVE  booked' = booked \/ \E r, d : Adds(r, d)
  BY <1>2, <1>3 DEF Tick, RunDueRecurring, NeighborYearForDate, SaveRuleProgress,
                    SaveWaitReason
<1>4. ASSUME NEW w \in Workers,
             OccurrenceFails(w) \/ RuleFails(w) \/ WorkerDies(w)
               \/ \E r \in Rules : RunRecurringNow(w, r)
      PROVE  booked' = booked
  BY <1>4 DEF OccurrenceFails, RuleFails, WorkerDies, RunRecurringNow
<1>5. ASSUME NEW r \in Rules, NEW kind, NEW next, NEW ends,
             CreateRecurringUntil(r, kind, next, ends)
               \/ UpdateRecurringSchedule(r, kind, next, ends)
      PROVE  booked' = booked
  BY <1>5 DEF CreateRecurringUntil, UpdateRecurringSchedule
<1>6. ASSUME NEW r \in Rules,
             SkipNextRecurring(r) \/ ToggleRecurring(r) \/ DeleteRecurring(r)
               \/ AnonymizeNeighbor(r) \/ \E d \in Days : UpdateLedgerBooking(r, d)
      PROVE  booked' = booked
  BY <1>6 DEF SkipNextRecurring, ToggleRecurring, DeleteRecurring, AnonymizeNeighbor,
              UpdateLedgerBooking
<1>7. ASSUME NewDay \/ \E y \in Years : SetYearStatus(y)
      PROVE  booked' = booked
  BY <1>7 DEF NewDay, SetYearStatus
<1> QED
  BY <1>1, <1>3, <1>4, <1>5, <1>6, <1>7 DEF SeriesNext

\* Such a transaction leaves every other occurrence alone.
LEMMA AddsOne ==
  ASSUME BookedInv, NEW r, NEW d, Adds(r, d)
  PROVE  /\ booked' \in [Rules -> [Days -> Nat]]
         /\ \A s \in Rules, e \in Days :
              booked'[s][e] = IF s = r /\ e = d THEN 1 ELSE booked[s][e]
<1>1. CASE r \in Rules /\ d \in Days
  <2>1. booked[r] \in [Days -> Nat] /\ booked[r][d] = 0
    BY <1>1 DEF BookedInv, Adds, Inserts
  <2>2. booked' = [booked EXCEPT ![r] = [booked[r] EXCEPT ![d] = 1]]
    BY <1>1, <2>1 DEF BookedInv, Adds
  <2> QED
    BY <1>1, <2>1, <2>2 DEF BookedInv
<1>2. CASE r \in Rules /\ d \notin Days
  <2>1. booked[r] \in [Days -> Nat]
    BY <1>2 DEF BookedInv
  <2>2. booked' = booked
    BY <1>2, <2>1 DEF BookedInv, Adds
  <2> QED
    BY <1>2, <2>2 DEF BookedInv
<1>3. CASE r \notin Rules
  BY <1>3 DEF BookedInv, Adds
<1> QED
  BY <1>1, <1>2, <1>3

\* The bookings keep their invariant over every step.
LEMMA BookedInvPreserved ==
  ASSUME BookedInv, [SeriesNext]_seriesVars
  PROVE  BookedInv'
<1>1. CASE booked' = booked
  BY <1>1 DEF BookedInv, BookedOnce
<1>2. ASSUME NEW r, NEW d, Adds(r, d)
      PROVE  BookedInv'
  BY <1>2, AddsOne DEF BookedInv, BookedOnce
<1> QED
  BY <1>1, <1>2, StepOfBookings

\* An occurrence of a rule is booked at most once, however many ticks and
\* requests to run now overlap, fail or die (the idempotency key of
\* RunDueRecurring and RunRecurringNow).
THEOREM OccurrenceBookedOnce == SeriesSpec => []BookedOnce
<1>1. SeriesInit => BookedInv
  BY DEF SeriesInit, BookedInv, BookedOnce
<1>2. BookedInv /\ [SeriesNext]_seriesVars => BookedInv'
  BY BookedInvPreserved
<1>3. BookedInv => BookedOnce
  BY DEF BookedInv
<1> QED
  BY <1>1, <1>2, <1>3, PTL DEF SeriesSpec

\* A booking is added only to an open year of a neighbor that is not
\* anonymized, whatever was true when the tick looked the year up
\* (lockMutableBookingAccount inside CreateBooking's transaction).
THEOREM OpenAccountsOnly == SeriesSpec => BooksOpenAccountsOnly
<1>1. SeriesInit => BookedInv
  BY DEF SeriesInit, BookedInv, BookedOnce
<1>2. BookedInv /\ [SeriesNext]_seriesVars => BookedInv'
  BY BookedInvPreserved
<1>3. ASSUME BookedInv, [SeriesNext]_seriesVars
      PROVE  [\A r \in Rules, d \in Days :
                booked'[r][d] > booked[r][d] => YearOf[d] \in years /\ r \notin erasedRules]_seriesVars
  <2>1. SUFFICES ASSUME NEW r \in Rules, NEW d \in Days, booked'[r][d] > booked[r][d]
                 PROVE  YearOf[d] \in years /\ r \notin erasedRules
    OBVIOUS
  <2>2. booked[r][d] \in Nat
    BY <1>3 DEF BookedInv
  <2>3. booked' # booked
    BY <2>1, <2>2
  <2>4. PICK s, e : Adds(s, e)
    BY <1>3, <2>3, StepOfBookings
  <2>5. s = r /\ e = d
    BY <1>3, <2>1, <2>4, AddsOne DEF BookedInv
  <2> QED
    BY <2>4, <2>5 DEF Adds, Inserts, AccountTakesBookings
<1> QED
  BY <1>1, <1>2, <1>3, PTL DEF SeriesSpec, BooksOpenAccountsOnly
-----------------------------------------------------------------------------
(* The calendar *)

\* The calendar's months are numbers in order, and end with Never.
LEMMA Calendar ==
  /\ Len(MonthStarts) \in Nat /\ Len(MonthStarts) > 1
  /\ \A m \in 1 .. Len(MonthStarts) : MonthStarts[m] \in Nat
  /\ \A m, n \in 1 .. Len(MonthStarts) : m < n => MonthStarts[m] < MonthStarts[n]
  /\ MonthStarts[1] = 1 /\ Never = MonthStarts[Len(MonthStarts)]
  /\ Never \in Nat /\ Never > 1
BY RecurringAssumption DEF Never

\* Every day lies in one of them.
LEMMA DayHasMonth ==
  ASSUME NEW x \in Days
  PROVE  /\ MonthOf(x) \in 1 .. Len(MonthStarts) - 1
         /\ MonthStarts[MonthOf(x)] <= x /\ x < MonthStarts[MonthOf(x) + 1]
<1> DEFINE T == {k \in Nat : k + 1 <= Len(MonthStarts) => MonthStarts[k + 1] <= x}
<1>1. x \in Nat /\ 1 <= x /\ x < Never
  BY Calendar DEF Days
<1>2. SUFFICES ASSUME ~\E m \in 1 .. Len(MonthStarts) - 1 :
                          MonthStarts[m] <= x /\ x < MonthStarts[m + 1]
               PROVE  FALSE
  BY DEF MonthOf
<1>3. 0 \in T
  BY <1>1, Calendar
<1>4. ASSUME NEW n \in T PROVE n + 1 \in T
  <2>1. SUFFICES ASSUME n + 2 <= Len(MonthStarts) PROVE MonthStarts[n + 2] <= x
    OBVIOUS
  <2>2. n + 1 \in 1 .. Len(MonthStarts) - 1 /\ MonthStarts[n + 1] <= x
    BY <2>1, Calendar
  <2>3. n + 2 \in 1 .. Len(MonthStarts) /\ (n + 1) + 1 = n + 2
    BY <2>1, Calendar
  <2> QED
    BY <1>1, <1>2, <2>2, <2>3, Calendar
<1>5. T = Nat
  <2>1. T \in SUBSET Nat
    OBVIOUS
  <2> HIDE DEF T
  <2> QED
    BY <1>3, <1>4, <2>1, CountUp
<1>6. PICK k \in Nat : k = Len(MonthStarts) - 1
  BY Calendar
<1>7. k \in T
  BY <1>5
<1>8. k + 1 = Len(MonthStarts)
  BY <1>6, Calendar
<1>9. Never <= x
  BY <1>7, <1>8, Calendar
<1> QED
  BY <1>1, <1>9, Calendar

\* A series moves on: the date after a day is a later date.
LEMMA DatesAdvance ==
  ASSUME NEW x \in Days, NEW kind
  PROVE  AdvanceDate(x, kind) \in Dates /\ x < AdvanceDate(x, kind)
<1>1. x \in Nat /\ 1 <= x /\ x < Never
  BY Calendar DEF Days
<1>2. CASE kind # "monthly"
  <2>1. Week \in Nat /\ Week > 0
    BY RecurringAssumption
  <2> QED
    BY <1>1, <1>2, <2>1, Calendar DEF AdvanceDate, Least, Dates
<1>3. CASE kind = "monthly"
  <2> DEFINE m == MonthOf(x)
  <2>1. /\ m \in 1 .. Len(MonthStarts) - 1
        /\ MonthStarts[m] <= x /\ x < MonthStarts[m + 1]
    BY DayHasMonth
  <2> HIDE DEF m
  <2>2. CASE MonthStarts[m + 1] = Never
    <3>1. AdvanceDate(x, kind) = Never
      BY <1>3, <2>2 DEF AdvanceDate, NextMonth, m
    <3> QED
      BY <1>1, <3>1, Calendar DEF Dates
  <2>3. CASE MonthStarts[m + 1] # Never
    <3> DEFINE a == MonthStarts[m]
               b == MonthStarts[m + 1]
               c == MonthStarts[m + 2]
    <3>1. m + 1 # Len(MonthStarts)
      BY <2>3, Calendar
    <3>2. m \in 1 .. Len(MonthStarts) /\ m + 1 \in 1 .. Len(MonthStarts)
            /\ m + 2 \in 1 .. Len(MonthStarts)
      BY <2>1, <3>1, Calendar
    <3>3. a \in Nat /\ b \in Nat /\ c \in Nat /\ b < c /\ c <= Never
      <4>1. m + 2 = Len(MonthStarts) \/ m + 2 < Len(MonthStarts)
        BY <3>2, Calendar
      <4>2. Len(MonthStarts) \in 1 .. Len(MonthStarts) /\ m + 1 < m + 2
        BY <2>1, Calendar
      <4> QED
        BY <3>2, <4>1, <4>2, Calendar
    <3>4. a <= x /\ x < b
      BY <2>1
    <3>5. AdvanceDate(x, kind) = Least(b + (x - a), c - 1)
      BY <1>3, <2>3 DEF AdvanceDate, NextMonth, m
    <3> HIDE DEF a, b, c
    <3> QED
      BY <1>1, <3>3, <3>4, <3>5, Calendar DEF Least, Dates
  <2> QED
    BY <2>2, <2>3
<1> QED
  BY <1>2, <1>3

\* A rhythm holds its first date.
LEMMA RhythmStarts ==
  ASSUME NEW d \in Dates, NEW kind
  PROVE  d \in Rhythm(d, kind) /\ Rhythm(d, kind) \subseteq Dates
BY DEF Rhythm

\* It holds with a date the one after it.
LEMMA RhythmGoesOn ==
  ASSUME NEW d, NEW kind, NEW x \in Rhythm(d, kind), x # Never
  PROVE  AdvanceDate(x, kind) \in Rhythm(d, kind)
<1>1. x \in Days
  BY Calendar DEF Rhythm, Dates, Days
<1>2. AdvanceDate(x, kind) \in Dates
  BY <1>1, DatesAdvance
<1>3. ASSUME NEW visited \in SUBSET Dates, d \in visited,
             \A y \in visited \ {Never} : AdvanceDate(y, kind) \in visited
      PROVE  AdvanceDate(x, kind) \in visited
  <2>1. x \in visited
    BY <1>3 DEF Rhythm
  <2> QED
    BY <1>3, <2>1
<1> QED
  BY <1>2, <1>3 DEF Rhythm

\* What holds of its first date, and of the next date with each date, holds of all.
LEMMA RhythmWithin ==
  ASSUME NEW d, NEW kind, NEW S \in SUBSET Dates, d \in S,
         \A y \in S \ {Never} : AdvanceDate(y, kind) \in S
  PROVE  Rhythm(d, kind) \subseteq S
BY DEF Rhythm

\* It goes back before none of its dates.
LEMMA RhythmGoesForward ==
  ASSUME NEW d \in Dates, NEW kind, NEW x \in Rhythm(d, kind)
  PROVE  d <= x
<1> DEFINE From == {z \in Rhythm(d, kind) : d <= z}
<1>1. \A z \in Dates : z \in Nat
  BY Calendar DEF Dates
<1>2. Rhythm(d, kind) \subseteq Dates /\ d \in From
  BY <1>1, RhythmStarts
<1>3. ASSUME NEW z \in From \ {Never} PROVE AdvanceDate(z, kind) \in From
  <2>1. z \in Days
    BY <1>2, <1>3, Calendar DEF Dates, Days
  <2>2. AdvanceDate(z, kind) \in Rhythm(d, kind)
    BY <1>3, RhythmGoesOn
  <2>3. z < AdvanceDate(z, kind)
    BY <2>1, DatesAdvance
  <2>4. d \in Nat /\ z \in Nat /\ AdvanceDate(z, kind) \in Nat /\ d <= z
    BY <1>1, <1>2, <1>3, <2>2
  <2> QED
    BY <2>2, <2>3, <2>4
<1>4. From \in SUBSET Dates
  BY <1>2
<1> HIDE DEF From
<1>5. Rhythm(d, kind) \subseteq From
  BY <1>2, <1>3, <1>4, RhythmWithin
<1> QED
  BY <1>5 DEF From

\* Between a date of a rhythm and the next one it visits no other.
LEMMA NothingBetween ==
  ASSUME NEW d \in Dates, NEW kind, NEW x \in Rhythm(d, kind), x # Never,
         NEW y \in Rhythm(d, kind), y < AdvanceDate(x, kind)
  PROVE  y <= x
<1> DEFINE R == Rhythm(d, kind)
           Then(z) == AdvanceDate(z, kind)
           Met(z) == \A v \in R : v < z => Then(v) <= z
           All == {z \in R : Met(z)}
<1>1. d \in R /\ R \subseteq Dates
  BY RhythmStarts
<1>2. \A z \in Dates : z \in Nat /\ 1 <= z /\ z <= Never
  BY Calendar DEF Dates
<1>3. \A z \in R \ {Never} : Then(z) \in R /\ z < Then(z) /\ z \in Days
  <2>1. \A z \in R \ {Never} : z \in Days
    BY <1>1, Calendar DEF Dates, Days
  <2>2. \A z \in R \ {Never} : Then(z) \in R
    BY RhythmGoesOn
  <2> QED
    BY <2>1, <2>2, DatesAdvance
<1> HIDE DEF R, Then
<1>4. \A z \in R : d <= z
  BY RhythmGoesForward DEF R
<1>5. ASSUME NEW z \in All, z # Never
      PROVE  \A v \in R : v <= z \/ Then(z) <= v
  <2> DEFINE Apart == {v \in R : v <= z \/ Then(z) <= v}
  <2>1. z \in R /\ Then(z) \in R /\ z < Then(z) /\ Met(z)
    BY <1>3, <1>5
  <2>2. d \in Apart
    BY <1>1, <1>4, <2>1
  <2>3. ASSUME NEW v \in Apart \ {Never} PROVE Then(v) \in Apart
    <3>1. v \in R /\ Then(v) \in R /\ v < Then(v) /\ (v <= z \/ Then(z) <= v)
      BY <1>3, <2>3
    <3>2. v \in Nat /\ z \in Nat /\ Then(v) \in Nat /\ Then(z) \in Nat
      BY <1>1, <1>2, <2>1, <3>1
    <3>3. CASE v < z
      BY <2>1, <3>1, <3>3
    <3>4. CASE v = z
      BY <3>1, <3>2, <3>4
    <3>5. CASE Then(z) <= v
      BY <3>1, <3>2, <3>5
    <3> QED
      BY <3>1, <3>2, <3>3, <3>4, <3>5
  <2>4. Apart \subseteq Dates
    BY <1>1
  <2> HIDE DEF Apart
  <2>5. R \subseteq Apart
    BY <2>2, <2>3, <2>4, RhythmWithin DEF R, Then
  <2> QED
    BY <2>5 DEF Apart
<1>6. R \subseteq All
  <2>1. d \in All
    <3>1. \A v \in R : ~(v < d)
      BY <1>1, <1>2, <1>4
    <3> QED
      BY <1>1, <3>1
  <2>2. ASSUME NEW z \in All \ {Never} PROVE Then(z) \in All
    <3>1. z \in R /\ Then(z) \in R /\ z < Then(z) /\ Met(z)
      BY <1>3, <2>2
    <3>2. ASSUME NEW v \in R, v < Then(z) PROVE Then(v) <= Then(z)
      <4>1. v <= z
        <5>1. v <= z \/ Then(z) <= v
          BY <1>5, <2>2, <3>2
        <5>2. v \in Nat /\ Then(z) \in Nat
          BY <1>1, <1>2, <3>1, <3>2
        <5> QED
          BY <3>2, <5>1, <5>2
      <4>2. v \in Nat /\ z \in Nat /\ v # Never
        BY <1>1, <1>2, <2>2, <3>1, <3>2, <4>1
      <4>3. Then(v) \in Nat /\ Then(z) \in Nat
        BY <1>1, <1>2, <1>3, <3>1, <3>2, <4>2
      <4>4. CASE v = z
        BY <4>3, <4>4
      <4>5. CASE v < z
        BY <3>1, <3>2, <4>2, <4>3, <4>5
      <4> QED
        BY <4>1, <4>2, <4>4, <4>5
    <3> QED
      BY <3>1, <3>2
  <2>3. All \subseteq Dates
    BY <1>1
  <2> HIDE DEF All
  <2>4. QED
    BY <2>1, <2>2, <2>3, RhythmWithin DEF R, Then
<1>7. x \in R /\ y \in R /\ y < Then(x)
  BY DEF R, Then
<1>8. y <= x \/ Then(x) <= y
  BY <1>5, <1>6, <1>7
<1>9. y \in Nat /\ Then(x) \in Nat
  BY <1>1, <1>2, <1>3, <1>7
<1> QED
  BY <1>7, <1>8, <1>9

-----------------------------------------------------------------------------
(* What a tick has done of the rule it works on *)

Snap == [rule : Rules, kind : Kinds, next : Dates, ends : Dates]

\* The loop over snapshot s stands at a date of its rhythm, with all before it booked.
Counted(s, next, b) ==
  /\ next \in Rhythm(s.next, s.kind)
  /\ \A d \in Rhythm(s.next, s.kind) : d < next => b[s.rule][d] > 0

JobOK(j, b) ==
  /\ j \in Job
  /\ j.pc # "idle" => j.list # <<>> /\ j.today \in Days
  /\ j.pc \in {"year", "book"} => j.next \in Days /\ j.count < CatchUp
  /\ j.now => j.pc \in {"year", "book"}
  /\ ~j.now => \A n \in 1 .. Len(j.list) : j.list[n].next \in Days
  /\ j.pc # "idle" /\ ~j.now => Counted(Head(j.list), j.next, b)

RowsOK ==
  /\ rule \in [Rules -> RuleRow]
  /\ \A r \in Rules : BoundsHold(rule[r]) /\ (rule[r].active => rule[r].state = "live")
  /\ skipped \in [Rules -> SUBSET Days]
  /\ edited \in [Rules -> SUBSET Days]
  /\ years \subseteq Years /\ erasedRules \subseteq Rules
  /\ today \in Days /\ ops \in 0 .. MaxOps /\ faults \in 0 .. MaxFaults

JobsOK == job \in [Workers -> Job] /\ \A w \in Workers : JobOK(job[w], booked)

SeriesInv == RowsOK /\ BookedInv /\ JobsOK

\* The fields of a job.
LEMMA JobFields ==
  ASSUME NEW j \in Job
  PROVE  /\ j.pc \in {"idle", "year", "book", "save", "reason"} /\ j.now \in BOOLEAN
         /\ j.list \in Seq(Snap) /\ j.today \in Nat /\ j.next \in Nat
         /\ j.count \in 0 .. CatchUp /\ j.ran \in BOOLEAN /\ j.waits \in BOOLEAN
         /\ j.known \in BOOLEAN
BY DEF Job, Snap

\* A job at work has a rule.
LEMMA CurrentRule ==
  ASSUME NEW j, NEW b, JobOK(j, b), j.pc # "idle"
  PROVE  Head(j.list) \in Snap /\ Head(j.list) = j.list[1] /\ Len(j.list) > 0
<1>1. j.list \in Seq(Snap) /\ j.list # <<>>
  BY JobFields DEF JobOK
<1> QED
  BY <1>1

LEMMA IdleOK ==
  ASSUME NEW b
  PROVE  JobOK(NoJob, b)
<1>1. NoJob \in Job
  <2>1. CatchUp \in Nat
    BY RecurringAssumption
  <2>2. <<>> \in Seq(Snap)
    OBVIOUS
  <2> HIDE DEF Snap
  <2> QED
    BY <2>1, <2>2 DEF NoJob, Job, Snap
<1> QED
  BY <1>1 DEF JobOK, NoJob

\* The loop over a new rule starts with nothing left behind.
LEMMA BeginOK ==
  ASSUME NEW list \in Seq(Snap), NEW day \in Days, NEW b,
         \A n \in 1 .. Len(list) : list[n].next \in Days
  PROVE  JobOK(Begin(list, day), b)
<1>1. CASE list = <<>>
  BY <1>1, IdleOK DEF Begin
<1>2. CASE list # <<>>
  <2> DEFINE s == Head(list)
  <2>1. s \in Snap /\ s.next \in Days /\ s.next \in Dates /\ s.next \in Nat
    <3>1. s = list[1] /\ 1 \in 1 .. Len(list) /\ s \in Snap
      BY <1>2
    <3> QED
      BY <3>1, Calendar DEF Days, Snap, Dates
  <2>2. Counted(s, s.next, b)
    <3>1. s.next \in Rhythm(s.next, s.kind)
      BY <2>1, RhythmStarts
    <3>2. \A d \in Rhythm(s.next, s.kind) : ~(d < s.next)
      <4>1. Rhythm(s.next, s.kind) \subseteq Nat
        BY <2>1, RhythmStarts, Calendar DEF Dates
      <4>2. \A d \in Rhythm(s.next, s.kind) : s.next <= d
        BY <2>1, RhythmGoesForward
      <4> QED
        BY <2>1, <4>1, <4>2
    <3> QED
      BY <3>1, <3>2 DEF Counted
  <2> HIDE DEF s
  <2> DEFINE j == [pc |-> "year", now |-> FALSE, list |-> list, today |-> day, next |-> s.next,
                   count |-> 0, ran |-> FALSE, waits |-> FALSE, known |-> TRUE]
  <2>3. Begin(list, day) = j
    BY <1>2 DEF Begin, NoJob, s
  <2>4. CatchUp \in Nat /\ 0 < CatchUp /\ day \in Nat
    BY RecurringAssumption, Calendar DEF Days
  <2>5. j \in Job
    BY <2>1, <2>4 DEF Job, Snap
  <2>6. Counted(Head(j.list), j.next, b)
    BY <2>2 DEF s
  <2> QED
    BY <1>2, <2>1, <2>3, <2>4, <2>5, <2>6 DEF JobOK
<1> QED
  BY <1>1, <1>2

\* So does the loop over the next one.
LEMMA NextRuleOK ==
  ASSUME NEW j, NEW b, NEW c, JobOK(j, b), j.pc # "idle", ~j.now
  PROVE  JobOK(Begin(Tail(j.list), j.today), c)
<1>1. j.list \in Seq(Snap) /\ j.list # <<>> /\ j.today \in Days
  BY JobFields DEF JobOK
<1>2. Tail(j.list) \in Seq(Snap)
  BY <1>1
<1>3. ASSUME NEW n \in 1 .. Len(Tail(j.list)) PROVE Tail(j.list)[n].next \in Days
  <2>1. n + 1 \in 1 .. Len(j.list) /\ Tail(j.list)[n] = j.list[n + 1]
    BY <1>1
  <2> QED
    BY <2>1 DEF JobOK
<1> QED
  BY <1>1, <1>2, <1>3, BeginOK

\* More bookings take nothing back.
LEMMA MoreBookings ==
  ASSUME NEW j, NEW b, NEW c, JobOK(j, b),
         b \in [Rules -> [Days -> Nat]], c \in [Rules -> [Days -> Nat]],
         \A r \in Rules, d \in Days : b[r][d] <= c[r][d]
  PROVE  JobOK(j, c)
<1>1. ASSUME j.pc # "idle", ~j.now PROVE Counted(Head(j.list), j.next, c)
  <2> DEFINE s == Head(j.list)
  <2>1. s \in Snap
    BY <1>1, CurrentRule
  <2>2. s.rule \in Rules /\ s.next \in Dates
    BY <2>1 DEF Snap
  <2>3. Counted(s, j.next, b)
    BY <1>1 DEF JobOK
  <2> HIDE DEF s
  <2>4. ASSUME NEW d \in Rhythm(s.next, s.kind), d < j.next PROVE c[s.rule][d] > 0
    <3>1. j.next \in Dates /\ d \in Dates
      BY <2>2, <2>3, <2>4, RhythmStarts DEF Counted
    <3>2. d \in Days
      BY <2>4, <3>1, Calendar DEF Dates, Days
    <3>3. b[s.rule][d] > 0
      BY <2>3, <2>4 DEF Counted
    <3>4. b[s.rule][d] \in Nat /\ c[s.rule][d] \in Nat /\ b[s.rule][d] <= c[s.rule][d]
      BY <2>2, <3>2
    <3> QED
      BY <3>3, <3>4
  <2>5. Counted(s, j.next, c)
    BY <2>3, <2>4 DEF Counted
  <2> QED
    BY <2>5 DEF s
<1> QED
  BY <1>1 DEF JobOK

\* A booking is never taken back by any step.
LEMMA BookingsStay ==
  ASSUME BookedInv, [SeriesNext]_seriesVars
  PROVE  /\ booked \in [Rules -> [Days -> Nat]] /\ booked' \in [Rules -> [Days -> Nat]]
         /\ \A r \in Rules, d \in Days : booked[r][d] <= booked'[r][d]
<1>1. booked \in [Rules -> [Days -> Nat]]
  BY DEF BookedInv
<1>2. CASE booked' = booked
  BY <1>1, <1>2
<1>3. ASSUME NEW r, NEW d, Adds(r, d)
      PROVE  /\ booked' \in [Rules -> [Days -> Nat]]
             /\ \A s \in Rules, e \in Days : booked[s][e] <= booked'[s][e]
  <2>1. /\ booked' \in [Rules -> [Days -> Nat]]
        /\ \A s \in Rules, e \in Days :
             booked'[s][e] = IF s = r /\ e = d THEN 1 ELSE booked[s][e]
    BY <1>3, AddsOne
  <2>2. \A s \in Rules, e \in Days : booked[s][e] \in Nat /\ booked[s][e] <= 1
    BY DEF BookedInv, BookedOnce
  <2> QED
    BY <2>1, <2>2
<1> QED
  BY <1>1, <1>2, <1>3, StepOfBookings

\* A step of one job.
LEMMA OneJob ==
  ASSUME SeriesInv, [SeriesNext]_seriesVars, NEW w \in Workers, NEW j,
         JobOK(j, booked'), job' = [job EXCEPT ![w] = j]
  PROVE  JobsOK'
<1>1. ASSUME NEW v \in Workers PROVE JobOK(job[v], booked')
  BY <1>1, BookingsStay, MoreBookings DEF SeriesInv, JobsOK
<1>2. j \in Job
  BY DEF JobOK
<1>3. job' \in [Workers -> Job]
  BY <1>2 DEF SeriesInv, JobsOK
<1>4. \A v \in Workers : JobOK(job'[v], booked')
  BY <1>1 DEF SeriesInv, JobsOK
<1> QED
  BY <1>3, <1>4 DEF JobsOK

\* A step of no job.
LEMMA IdleJob ==
  ASSUME SeriesInv, [SeriesNext]_seriesVars, job' = job
  PROVE  JobsOK'
<1>1. ASSUME NEW v \in Workers PROVE JobOK(job[v], booked')
  BY <1>1, BookingsStay, MoreBookings DEF SeriesInv, JobsOK
<1> QED
  BY <1>1 DEF SeriesInv, JobsOK

\* The due rules, read in one statement.
LEMMA DueTyped ==
  ASSUME RowsOK, NEW list \in DueLists
  PROVE  list \in Seq(Snap) /\ \A n \in 1 .. Len(list) : list[n].next \in Days
<1> DEFINE due == {r \in Rules : Due(r)}
           places == 1 .. Cardinality(due)
<1>1. PICK f \in [places -> due] : list = [n \in places |-> DueRule(f[n])]
  BY DEF DueLists
<1>2. Cardinality(due) \in Nat
  <2>1. IsFiniteSet(due)
    BY RecurringAssumption, FS_Subset
  <2> HIDE DEF due
  <2> QED
    BY <2>1, FS_CardinalityType
<1>3. ASSUME NEW r \in due PROVE DueRule(r) \in Snap /\ DueRule(r).next \in Days
  <2>1. rule[r] \in RuleRow /\ rule[r].next <= today /\ r \in Rules /\ today \in Days
    BY <1>3 DEF RowsOK, Due
  <2>2. rule[r].next \in Dates /\ rule[r].ends \in Dates /\ rule[r].kind \in Kinds
    BY <2>1 DEF RuleRow
  <2>3. rule[r].next \in Days
    BY <2>1, <2>2, Calendar DEF Days, Dates
  <2> QED
    BY <2>1, <2>2, <2>3 DEF DueRule, Snap
<1> HIDE DEF due
<1>4. PICK k \in Nat : k = Cardinality(due)
  BY <1>2
<1>5. \A n \in 1 .. k : list[n] \in Snap /\ list[n].next \in Days
  BY <1>1, <1>3, <1>4
<1>6. list \in [1 .. k -> Snap]
  BY <1>1, <1>4, <1>5
<1>7. list \in Seq(Snap) /\ Len(list) = k
  <2> HIDE DEF Snap
  <2> QED
    BY <1>6
<1> QED
  BY <1>5, <1>7

-----------------------------------------------------------------------------
(* The steps of a job *)

LEMMA RunDueKeeps ==
  ASSUME SeriesInv, [SeriesNext]_seriesVars, NEW w \in Workers, RunDueRecurring(w)
  PROVE  JobsOK'
<1>1. PICK list \in DueLists : job' = [job EXCEPT ![w] = Begin(list, today)]
  BY DEF RunDueRecurring
<1>2. JobOK(Begin(list, today), booked')
  <2>1. RowsOK /\ today \in Days
    BY DEF SeriesInv, RowsOK
  <2> QED
    BY <2>1, DueTyped, BeginOK
<1>3. QED
  BY <1>1, <1>2, OneJob

LEMMA RunNowOK ==
  ASSUME NEW s \in Snap, NEW day \in Days, NEW b
  PROVE  JobOK([NoJob EXCEPT !.pc = "year", !.now = TRUE, !.today = day,
                            !.list = <<s>>, !.next = day], b)
<1> DEFINE j == [NoJob EXCEPT !.pc = "year", !.now = TRUE, !.today = day,
                             !.list = <<s>>, !.next = day]
<1>1. PICK list \in Seq(Snap) : list = <<s>> /\ list # <<>>
  <2> HIDE DEF Snap
  <2>1. <<s>> \in Seq(Snap) /\ <<s>> # <<>>
    OBVIOUS
  <2> QED
    BY <2>1
<1>2. day \in Nat /\ CatchUp \in Nat /\ 0 < CatchUp
  BY RecurringAssumption, Calendar DEF Days
<1>3. /\ j.pc = "year" /\ j.now = TRUE /\ j.today = day /\ j.list = list /\ j.next = day
      /\ j.count = 0
  BY <1>1 DEF NoJob
<1>4. j \in Job
  <2>1. j = [NoJob EXCEPT !.pc = "year", !.now = TRUE, !.today = day, !.list = list, !.next = day]
    BY <1>1
  <2>2. NoJob \in Job
    BY IdleOK DEF JobOK
  <2> HIDE DEF j
  <2> QED
    BY <1>1, <1>2, <2>1, <2>2 DEF Job, Snap
<1> HIDE DEF j
<1>5. JobOK(j, b)
  BY <1>1, <1>2, <1>3, <1>4 DEF JobOK
<1> QED
  BY <1>5 DEF j

LEMMA RunNowKeeps ==
  ASSUME SeriesInv, [SeriesNext]_seriesVars, NEW w \in Workers, NEW r \in Rules, RunRecurringNow(w, r)
  PROVE  JobsOK'
<1> DEFINE started == [NoJob EXCEPT !.pc = "year", !.now = TRUE, !.today = today,
                                   !.list = <<DueRule(r)>>, !.next = today]
<1>1. CASE job' = job
  BY <1>1, IdleJob
<1>2. CASE job' = [job EXCEPT ![w] = started]
  <2>1. DueRule(r) \in Snap /\ today \in Days
    BY DEF SeriesInv, RowsOK, RuleRow, DueRule, Snap
  <2>2. JobOK(started, booked')
    BY <2>1, RunNowOK
  <2> HIDE DEF started
  <2> QED
    BY <1>2, <2>2, OneJob
<1> QED
  BY <1>1, <1>2 DEF RunRecurringNow

LEMMA YearKeeps ==
  ASSUME SeriesInv, [SeriesNext]_seriesVars, NEW w \in Workers, NeighborYearForDate(w)
  PROVE  JobsOK'
<1> DEFINE j == job[w]
<1>1. j.pc = "year" /\ JobOK(j, booked) /\ booked' = booked
  BY DEF NeighborYearForDate, SeriesInv, JobsOK
<1>2. w \in Workers /\ job \in [Workers -> Job]
  BY DEF SeriesInv, JobsOK
<1>3. CASE YearOf[j.next] \in years
  <2>1. job' = [job EXCEPT ![w] = [j EXCEPT !.pc = "book"]]
    BY <1>2, <1>3 DEF NeighborYearForDate
  <2> HIDE DEF j
  <2>2. JobOK([j EXCEPT !.pc = "book"], booked')
    BY <1>1 DEF JobOK, Job
  <2> QED
    BY <2>1, <2>2, OneJob
<1>4. CASE YearOf[j.next] \notin years /\ j.now
  <2>1. job' = [job EXCEPT ![w] = NoJob]
    BY <1>2, <1>4 DEF NeighborYearForDate
  <2> QED
    BY <2>1, IdleOK, OneJob
<1>5. CASE YearOf[j.next] \notin years /\ ~j.now
  <2>1. job' = [job EXCEPT ![w] = [j EXCEPT !.pc = "save", !.waits = TRUE]]
    BY <1>2, <1>5 DEF NeighborYearForDate
  <2> HIDE DEF j
  <2>2. JobOK([j EXCEPT !.pc = "save", !.waits = TRUE], booked')
    BY <1>1, <1>5 DEF JobOK, Job
  <2> QED
    BY <2>1, <2>2, OneJob
<1> QED
  BY <1>3, <1>4, <1>5

\* An occurrence is taken for done only when its booking is there.
LEMMA MaterializeKeeps ==
  ASSUME SeriesInv, [SeriesNext]_seriesVars, NEW w \in Workers, MaterializeRecurring(w)
  PROVE  JobsOK'
<1> DEFINE j == job[w]
           r == Head(j.list).rule
           d == j.next
<1>1. j.pc = "book" /\ JobOK(j, booked) /\ JobOK(j, booked')
  <2>1. j.pc = "book" /\ JobOK(j, booked)
    BY DEF MaterializeRecurring, SeriesInv, JobsOK
  <2> HIDE DEF j
  <2>2. JobOK(j, booked')
    BY <2>1, BookingsStay, MoreBookings DEF SeriesInv
  <2> QED
    BY <2>1, <2>2
<1>2. job \in [Workers -> Job]
  BY DEF SeriesInv, JobsOK
<1>3. r \in Rules /\ d \in Days
  BY <1>1, CurrentRule DEF JobOK, Snap
<1>4. booked' = IF Inserts(r, d) THEN [booked EXCEPT ![r][d] = @ + 1] ELSE booked
  BY DEF MaterializeRecurring, Current
<1>5. CASE j.now
  <2>1. job' = [job EXCEPT ![w] = NoJob]
    BY <1>2, <1>5 DEF MaterializeRecurring
  <2> QED
    BY <2>1, IdleOK, OneJob
<1>6. CASE ~j.now /\ ~Accepted(r, d)
  <2>1. job' = [job EXCEPT ![w] = [j EXCEPT !.pc = "save", !.waits = TRUE]]
    BY <1>2, <1>6 DEF MaterializeRecurring, Current
  <2> HIDE DEF j
  <2>2. JobOK([j EXCEPT !.pc = "save", !.waits = TRUE], booked')
    BY <1>1, <1>6 DEF JobOK, Job
  <2> QED
    BY <2>1, <2>2, OneJob
<1>7. CASE ~j.now /\ Accepted(r, d)
  <2> DEFINE s == Head(j.list)
             next == AdvanceDate(d, s.kind)
             more == j.count + 1 < CatchUp /\ next <= j.today /\ next <= s.ends
  <2>1. job' = [job EXCEPT ![w] = AfterOccurrence(j)]
    BY <1>2, <1>7 DEF MaterializeRecurring, Current
  <2>2. AfterOccurrence(j) = [j EXCEPT !.next = next, !.count = @ + 1, !.ran = TRUE,
                                !.pc = IF more THEN "year" ELSE "save"]
    BY DEF AfterOccurrence
  <2>3. booked'[r][d] > 0
    <3>1. booked \in [Rules -> [Days -> Nat]]
      BY DEF SeriesInv, BookedInv
    <3>2. CASE Inserts(r, d)
      <4> DEFINE row == [booked[r] EXCEPT ![d] = booked[r][d] + 1]
      <4>1. booked' = [booked EXCEPT ![r] = row]
        BY <1>4, <3>2
      <4>2. booked[r] \in [Days -> Nat] /\ booked[r][d] \in Nat
        BY <1>3, <3>1
      <4>3. row[d] = booked[r][d] + 1
        BY <1>3, <4>2
      <4> HIDE DEF row
      <4>4. booked'[r] = row
        BY <1>3, <3>1, <4>1
      <4> QED
        BY <4>2, <4>3, <4>4
    <3>3. CASE ~Inserts(r, d)
      BY <1>4, <1>7, <3>3 DEF Accepted
    <3> QED
      BY <3>2, <3>3
  <2>4. s \in Snap /\ s.next \in Dates /\ s.rule = r
    BY <1>1, CurrentRule DEF Snap
  <2>5. Counted(s, d, booked')
    BY <1>1, <1>7 DEF JobOK
  <2>6. next \in Dates /\ d < next
    BY <1>3, DatesAdvance
  <2>7. d # Never /\ Never \in Nat
    BY <1>3, Calendar DEF Days
  <2> HIDE DEF r, d, s, next
  <2>8. Counted(s, next, booked')
    <3>1. next \in Rhythm(s.next, s.kind)
      BY <2>5, <2>7, RhythmGoesOn DEF Counted, next
    <3>2. ASSUME NEW x \in Rhythm(s.next, s.kind), x < next PROVE booked'[r][x] > 0
      <4>1. d \in Rhythm(s.next, s.kind)
        BY <2>5 DEF Counted
      <4>2. x <= d
        BY <2>4, <2>7, <3>2, <4>1, NothingBetween DEF next
      <4>3. x \in Nat /\ d \in Nat
        BY <2>4, <3>2, <4>1, RhythmStarts, Calendar DEF Dates
      <4>4. CASE x = d
        BY <2>3, <4>4
      <4>5. CASE x < d
        BY <2>4, <2>5, <3>2, <4>5 DEF Counted
      <4> QED
        BY <4>2, <4>3, <4>4, <4>5
    <3> QED
      BY <2>4, <3>1, <3>2 DEF Counted
  <2>9. next \in Nat /\ (next <= j.today /\ j.today \in Days => next \in Days)
    BY <2>6, Calendar DEF Dates, Days
  <2>10. PICK p \in {"year", "save"} :
           p = (IF more THEN "year" ELSE "save") /\ (p = "year" => more)
    OBVIOUS
  <2>11. p \in {"year", "save"} /\ (p = "year" => j.count + 1 < CatchUp /\ next <= j.today)
    BY <2>10
  <2> HIDE DEF more
  <2>12. PICK k : k = [j EXCEPT !.next = next, !.count = @ + 1, !.ran = TRUE, !.pc = p]
    OBVIOUS
  <2>13. job' = [job EXCEPT ![w] = k]
    BY <2>1, <2>2, <2>10, <2>12
  <2> HIDE DEF j
  <2>14. j \in Job /\ j.today \in Days /\ j.count < CatchUp /\ j.list # <<>>
    BY <1>1 DEF JobOK
  <2>15. CatchUp \in Nat /\ j.count \in Nat
    BY <2>14, RecurringAssumption DEF Job
  <2>16. /\ k.list = j.list /\ k.today = j.today /\ k.next = next /\ k.count = j.count + 1
         /\ k.now = j.now /\ k.pc = p /\ k \in Job
    <3>1. /\ k.list = j.list /\ k.today = j.today /\ k.next = next
          /\ k.count = j.count + 1 /\ k.now = j.now /\ k.pc = p
      BY <2>12, <2>14 DEF Job
    <3>2. j.count + 1 \in 0 .. CatchUp
      BY <2>14, <2>15
    <3>3. k \in Job
      BY <2>9, <2>11, <2>12, <2>14, <3>2 DEF Job
    <3> QED
      BY <3>1, <3>3
  <2>17. \A n \in 1 .. Len(j.list) : j.list[n].next \in Days
    BY <1>1, <1>7 DEF JobOK
  <2>18. k.pc = "year" => k.next \in Days /\ k.count < CatchUp
    BY <2>9, <2>11, <2>16, <2>14, <2>15
  <2>19. JobOK(k, booked')
    <3>1. Counted(Head(k.list), k.next, booked')
      BY <2>8, <2>16 DEF s
    <3>2. k.pc \in {"year", "save"} /\ ~k.now
      BY <1>7, <2>16
    <3> QED
      BY <2>16, <2>17, <2>18, <2>14, <3>1, <3>2 DEF JobOK
  <2> QED
    BY <2>19, <2>13, OneJob
<1> QED
  BY <1>5, <1>6, <1>7

LEMMA SaveProgressKeeps ==
  ASSUME SeriesInv, [SeriesNext]_seriesVars, NEW w \in Workers, SaveRuleProgress(w)
  PROVE  JobsOK'
<1> DEFINE j == job[w]
<1>1. j.pc = "save" /\ JobOK(j, booked) /\ booked' = booked /\ ~j.now
  BY DEF SaveRuleProgress, SeriesInv, JobsOK, JobOK
<1>2. job \in [Workers -> Job]
  BY DEF SeriesInv, JobsOK
<1>3. CASE job' = [job EXCEPT ![w].pc = "reason"]
  <2>1. job' = [job EXCEPT ![w] = [j EXCEPT !.pc = "reason"]]
    BY <1>3
  <2> HIDE DEF j
  <2>2. JobOK([j EXCEPT !.pc = "reason"], booked')
    BY <1>1 DEF JobOK, Job
  <2> QED
    BY <2>1, <2>2, OneJob
<1>4. CASE NextRule(w)
  <2>1. job' = [job EXCEPT ![w] = Begin(Tail(j.list), j.today)]
    BY <1>2, <1>4 DEF NextRule
  <2> HIDE DEF j
  <2>2. JobOK(Begin(Tail(j.list), j.today), booked')
    BY <1>1, NextRuleOK
  <2> QED
    BY <2>1, <2>2, OneJob
<1> QED
  BY <1>3, <1>4 DEF SaveRuleProgress

LEMMA TurnsToNextRule ==
  ASSUME SeriesInv, [SeriesNext]_seriesVars, NEW w \in Workers, NextRule(w), job[w].pc # "idle", ~job[w].now
  PROVE  JobsOK'
<1> DEFINE j == job[w]
<1>1. job' = [job EXCEPT ![w] = Begin(Tail(j.list), j.today)] /\ JobOK(j, booked)
  BY DEF NextRule, SeriesInv, JobsOK
<1>2. JobOK(Begin(Tail(j.list), j.today), booked')
  <2>1. j.pc # "idle" /\ ~j.now
    OBVIOUS
  <2> HIDE DEF j
  <2> QED
    BY <1>1, <2>1, NextRuleOK
<1> HIDE DEF j
<1> QED
  BY <1>1, <1>2, OneJob

LEMMA SaveReasonKeeps ==
  ASSUME SeriesInv, [SeriesNext]_seriesVars, NEW w \in Workers, SaveWaitReason(w)
  PROVE  JobsOK'
<1>1. NextRule(w) /\ job[w].pc # "idle" /\ ~job[w].now
  BY DEF SaveWaitReason, SeriesInv, JobsOK, JobOK
<1> QED
  BY <1>1, TurnsToNextRule

LEMMA FailureKeeps ==
  ASSUME SeriesInv, [SeriesNext]_seriesVars, NEW w \in Workers,
         OccurrenceFails(w) \/ RuleFails(w) \/ WorkerDies(w)
  PROVE  JobsOK'
<1> DEFINE j == job[w]
<1>1. job \in [Workers -> Job] /\ JobOK(j, booked)
  BY DEF SeriesInv, JobsOK
<1>2. CASE job' = [job EXCEPT ![w] = NoJob]
  BY <1>2, IdleOK, OneJob
<1>3. CASE RuleFails(w)
  <2>1. NextRule(w) /\ job[w].pc # "idle" /\ ~job[w].now
    BY <1>3 DEF RuleFails
  <2> QED
    BY <2>1, TurnsToNextRule
<1>4. CASE OccurrenceFails(w)
  <2>1. CASE j.now
    <3>1. job' = [job EXCEPT ![w] = NoJob]
      BY <1>1, <1>4, <2>1 DEF OccurrenceFails
    <3> QED
      BY <1>2, <3>1
  <2>2. CASE ~j.now
    <3>1. job' = [job EXCEPT ![w] = [j EXCEPT !.pc = "save", !.known = FALSE]]
      BY <1>1, <1>4, <2>2 DEF OccurrenceFails
    <3>2. j.pc \in {"year", "book"} /\ booked' = booked
      BY <1>4 DEF OccurrenceFails
    <3> HIDE DEF j
    <3>3. JobOK([j EXCEPT !.pc = "save", !.known = FALSE], booked')
      BY <1>1, <2>2, <3>2 DEF JobOK, Job
    <3> QED
      BY <3>1, <3>3, OneJob
  <2> QED
    BY <2>1, <2>2
<1> QED
  BY <1>2, <1>3, <1>4 DEF WorkerDies

\* The jobs keep their invariant over every step.
LEMMA JobsKept ==
  ASSUME SeriesInv, [SeriesNext]_seriesVars
  PROVE  JobsOK'
<1>1. ASSUME NEW w \in Workers, Tick(w) PROVE JobsOK'
  BY <1>1, RunDueKeeps, YearKeeps, MaterializeKeeps, SaveProgressKeeps, SaveReasonKeeps DEF Tick
<1>2. CASE seriesVars' = seriesVars
  BY <1>2, IdleJob DEF seriesVars
<1>3. ASSUME NEW r \in Rules, NEW kind, NEW next, NEW ends,
             CreateRecurringUntil(r, kind, next, ends)
               \/ UpdateRecurringSchedule(r, kind, next, ends)
      PROVE  job' = job
  BY <1>3 DEF CreateRecurringUntil, UpdateRecurringSchedule
<1>4. ASSUME NEW r \in Rules,
             SkipNextRecurring(r) \/ ToggleRecurring(r) \/ DeleteRecurring(r)
               \/ AnonymizeNeighbor(r) \/ \E d \in Days : UpdateLedgerBooking(r, d)
      PROVE  job' = job
  BY <1>4 DEF SkipNextRecurring, ToggleRecurring, DeleteRecurring, AnonymizeNeighbor,
              UpdateLedgerBooking
<1>5. ASSUME NewDay \/ \E y \in Years : SetYearStatus(y)
      PROVE  job' = job
  BY <1>5 DEF NewDay, SetYearStatus
<1> QED
  BY <1>1, <1>2, <1>3, <1>4, <1>5, IdleJob, FailureKeeps, RunNowKeeps DEF SeriesNext

-----------------------------------------------------------------------------
(* The rows of the rules *)

RowOK(row) ==
  row \in RuleRow /\ BoundsHold(row) /\ (row.active => row.state = "live")

\* An update by id writes a sound row or nothing.
LEMMA SetRowKeeps ==
  ASSUME RowsOK, NEW r \in Rules, NEW row, SetRule(r, row),
         rule[r].state = "live" => RowOK(row)
  PROVE  rule' \in [Rules -> RuleRow] /\ \A q \in Rules : RowOK(rule'[q])
<1>1. rule \in [Rules -> RuleRow] /\ \A q \in Rules : RowOK(rule[q])
  BY DEF RowsOK, RowOK
<1>2. CASE rule[r].state = "live"
  <2>1. rule' = [rule EXCEPT ![r] = row] /\ RowOK(row)
    BY <1>2 DEF SetRule
  <2>2. row \in RuleRow
    BY <2>1 DEF RowOK
  <2> QED
    BY <1>1, <2>1, <2>2
<1>3. CASE rule[r].state # "live"
  <2>1. rule' = rule
    BY <1>1, <1>3 DEF SetRule
  <2> QED
    BY <1>1, <2>1
<1> QED
  BY <1>2, <1>3

\* A step of the ticks writes only what its job has counted.
LEMMA SaveProgressRows ==
  ASSUME SeriesInv, NEW w \in Workers, SaveRuleProgress(w)
  PROVE  rule' \in [Rules -> RuleRow] /\ \A q \in Rules : RowOK(rule'[q])
<1> DEFINE j == job[w]
           r == Head(j.list).rule
           ended == j.next > Head(j.list).ends
           row == [rule[r] EXCEPT !.next = j.next, !.active = @ /\ ~ended]
<1>1. CASE rule' = rule
  BY <1>1 DEF SeriesInv, RowsOK, RowOK
<1>2. CASE rule' # rule
  <2>1. SetRule(r, row) /\ ~(rule[r].state = "live" /\ ~BoundsHold(row))
    BY <1>2 DEF SaveRuleProgress, Current
  <2>2. JobOK(j, booked) /\ j.pc = "save"
    BY DEF SeriesInv, JobsOK, SaveRuleProgress
  <2>3. Head(j.list) \in Snap /\ Counted(Head(j.list), j.next, booked)
    <3> HIDE DEF j
    <3> QED
      BY <2>2, CurrentRule DEF JobOK
  <2>4. r \in Rules /\ j.next \in Dates
    BY <2>3, RhythmStarts DEF Snap, Counted
  <2>5. RowsOK
    BY DEF SeriesInv
  <2>6. rule[r] \in RuleRow /\ (rule[r].active => rule[r].state = "live")
    BY <2>4, <2>5 DEF RowsOK
  <2> HIDE DEF j, r
  <2>7. row \in RuleRow /\ row.state = rule[r].state /\ (row.active => rule[r].active)
    <3> HIDE DEF ended
    <3> QED
      BY <2>4, <2>6 DEF RuleRow
  <2>8. rule[r].state = "live" => RowOK(row)
    BY <2>1, <2>6, <2>7 DEF RowOK
  <2> HIDE DEF row
  <2> QED
    BY <2>1, <2>4, <2>5, <2>8, SetRowKeeps
<1> QED
  BY <1>1, <1>2

LEMMA SaveReasonRows ==
  ASSUME SeriesInv, NEW w \in Workers, SaveWaitReason(w)
  PROVE  rule' \in [Rules -> RuleRow] /\ \A q \in Rules : RowOK(rule'[q])
<1> DEFINE j == job[w]
           r == Head(j.list).rule
           row == IF j.known THEN [rule[r] EXCEPT !.waits = j.waits] ELSE rule[r]
<1>1. SetRule(r, row) /\ JobOK(j, booked) /\ j.pc = "reason"
  BY DEF SaveWaitReason, Current, SeriesInv, JobsOK
<1>2. r \in Rules /\ j.waits \in BOOLEAN
  <2> HIDE DEF j
  <2>1. Head(j.list) \in Snap /\ j \in Job
    BY <1>1, CurrentRule DEF JobOK
  <2> QED
    BY <2>1 DEF Snap, Job
<1>3. RowsOK /\ rule[r] \in RuleRow /\ RowOK(rule[r])
  BY <1>2 DEF SeriesInv, RowsOK, RowOK
<1> HIDE DEF j, r
<1>4. RowOK(row)
  BY <1>2, <1>3 DEF RowOK, RuleRow, BoundsHold
<1> HIDE DEF row
<1> QED
  BY <1>1, <1>2, <1>3, <1>4, SetRowKeeps

\* The operator's changes of a rule.
LEMMA OperatorRows ==
  ASSUME RowsOK, NEW r \in Rules,
         \/ \E kind \in Kinds, next \in Starts, ends \in Ends :
              CreateRecurringUntil(r, kind, next, ends)
                \/ UpdateRecurringSchedule(r, kind, next, ends)
         \/ SkipNextRecurring(r) \/ ToggleRecurring(r) \/ DeleteRecurring(r)
         \/ AnonymizeNeighbor(r)
         \/ \E w \in Workers : RunRecurringNow(w, r)
  PROVE  rule' \in [Rules -> RuleRow] /\ \A q \in Rules : RowOK(rule'[q])
<1>1. /\ rule \in [Rules -> RuleRow] /\ \A q \in Rules : RowOK(rule[q])
      /\ rule[r] \in RuleRow /\ RowOK(rule[r])
  BY DEF RowsOK, RowOK
<1>2. Starts \subseteq Dates /\ Ends \subseteq Dates /\ Never \in Dates
  BY RecurringAssumption, Calendar DEF Days, Dates
<1>3. ASSUME NEW kind \in Kinds, NEW next \in Starts, NEW ends \in Ends,
             CreateRecurringUntil(r, kind, next, ends)
      PROVE  rule' \in [Rules -> RuleRow] /\ \A q \in Rules : RowOK(rule'[q])
  <2> DEFINE row == [Absent EXCEPT !.state = "live", !.kind = kind, !.next = next,
                                   !.ends = ends, !.active = TRUE]
  <2>1. rule' = [rule EXCEPT ![r] = row] /\ next <= ends
    BY <1>3 DEF CreateRecurringUntil
  <2>2. Absent \in RuleRow
    BY <1>2 DEF Absent, RuleRow, Kinds
  <2>3. row \in RuleRow
    BY <1>2, <2>2 DEF RuleRow
  <2>4. row.state = "live" /\ row.next = next /\ row.ends = ends
    BY <2>2 DEF RuleRow
  <2>5. RowOK(row)
    BY <2>1, <2>3, <2>4 DEF RowOK, BoundsHold
  <2> HIDE DEF row
  <2> QED
    BY <1>1, <2>1, <2>3, <2>5
<1>4. ASSUME NEW kind \in Kinds, NEW next \in Starts, NEW ends \in Ends,
             UpdateRecurringSchedule(r, kind, next, ends)
      PROVE  rule' \in [Rules -> RuleRow] /\ \A q \in Rules : RowOK(rule'[q])
  <2> DEFINE row == [rule[r] EXCEPT !.kind = kind, !.next = next, !.ends = ends]
  <2>1. SetRule(r, row) /\ next <= ends /\ rule[r].state = "live"
    BY <1>4 DEF UpdateRecurringSchedule
  <2>2. row \in RuleRow /\ row.state = rule[r].state /\ row.next = next /\ row.ends = ends
    BY <1>1, <1>2 DEF RuleRow
  <2>3. RowOK(row)
    BY <2>1, <2>2 DEF RowOK, BoundsHold
  <2> HIDE DEF row
  <2> QED
    BY <2>1, <2>3, SetRowKeeps
<1>5. ASSUME SkipNextRecurring(r)
      PROVE  rule' \in [Rules -> RuleRow] /\ \A q \in Rules : RowOK(rule'[q])
  <2> DEFINE next == AdvanceDate(rule[r].next, rule[r].kind)
             row == [rule[r] EXCEPT !.next = next, !.active = next <= rule[r].ends,
                                    !.waits = FALSE]
  <2>1. SetRule(r, row) /\ rule[r].active /\ rule[r].next # Never
    BY <1>5 DEF SkipNextRecurring
  <2>2. rule[r].next \in Days
    BY <1>1, <2>1, Calendar DEF RuleRow, Dates, Days
  <2>3. next \in Dates
    BY <2>2, DatesAdvance
  <2> HIDE DEF next
  <2>4. (next <= rule[r].ends) \in BOOLEAN
    OBVIOUS
  <2>5. PICK on \in BOOLEAN : on = (next <= rule[r].ends)
    BY <2>4
  <2>6. row = [rule[r] EXCEPT !.next = next, !.active = on, !.waits = FALSE]
    BY <2>5
  <2>7. row \in RuleRow /\ row.state = rule[r].state /\ row.next = next /\ row.ends = rule[r].ends
          /\ row.active = on
    <3> HIDE DEF row
    <3> QED
      BY <1>1, <2>3, <2>6 DEF RuleRow
  <2>8. rule[r].state = "live"
    BY <1>1, <2>1 DEF RowOK
  <2> HIDE DEF row
  <2>9. RowOK(row)
    BY <2>5, <2>7, <2>8 DEF RowOK, BoundsHold
  <2> QED
    BY <2>1, <2>9, SetRowKeeps
<1>6. ASSUME ToggleRecurring(r)
      PROVE  rule' \in [Rules -> RuleRow] /\ \A q \in Rules : RowOK(rule'[q])
  <2> DEFINE row == [rule[r] EXCEPT !.active = ~@]
  <2>1. /\ SetRule(r, row) /\ rule[r].state = "live"
        /\ ~rule[r].active => rule[r].next <= rule[r].ends
    BY <1>6 DEF ToggleRecurring
  <2>2. row \in RuleRow /\ row.state = rule[r].state /\ row.next = rule[r].next
          /\ row.ends = rule[r].ends /\ row.active = ~rule[r].active
    BY <1>1 DEF RuleRow
  <2> HIDE DEF row
  <2>3. RowOK(row)
    BY <2>1, <2>2 DEF RowOK, BoundsHold
  <2> QED
    BY <2>1, <2>3, SetRowKeeps
<1>7. ASSUME DeleteRecurring(r) \/ AnonymizeNeighbor(r)
      PROVE  rule' \in [Rules -> RuleRow] /\ \A q \in Rules : RowOK(rule'[q])
  <2> DEFINE row == [Absent EXCEPT !.state = "deleted"]
  <2>1. SetRule(r, row)
    BY <1>7 DEF DeleteRecurring, AnonymizeNeighbor, RemoveRule
  <2>2. row \in RuleRow /\ RowOK(row)
    BY <1>2 DEF Absent, RuleRow, Kinds, RowOK, BoundsHold
  <2> HIDE DEF row
  <2> QED
    BY <2>1, <2>2, SetRowKeeps
<1>8. ASSUME NEW w \in Workers, RunRecurringNow(w, r)
      PROVE  rule' \in [Rules -> RuleRow] /\ \A q \in Rules : RowOK(rule'[q])
  <2>1. CASE rule' = rule
    BY <1>1, <2>1
  <2> DEFINE row == [rule[r] EXCEPT !.active = FALSE]
  <2>2. CASE SetRule(r, row)
    <3>1. row \in RuleRow /\ row.active = FALSE
      BY <1>1 DEF RuleRow
    <3> HIDE DEF row
    <3>2. RowOK(row)
      BY <3>1 DEF RowOK, BoundsHold
    <3> QED
      BY <2>2, <3>2, SetRowKeeps
  <2> QED
    BY <1>8, <2>1, <2>2 DEF RunRecurringNow
<1> QED
  BY <1>3, <1>4, <1>5, <1>6, <1>7, <1>8

\* The rows stay sound over every step.
LEMMA RuleRowsKept ==
  ASSUME SeriesInv, [SeriesNext]_seriesVars
  PROVE  rule' \in [Rules -> RuleRow] /\ \A q \in Rules : RowOK(rule'[q])
<1>1. RowsOK /\ rule \in [Rules -> RuleRow] /\ \A q \in Rules : RowOK(rule[q])
  BY DEF SeriesInv, RowsOK, RowOK
<1>2. CASE rule' = rule
  BY <1>1, <1>2
<1>3. ASSUME NEW w \in Workers, Tick(w)
      PROVE  rule' \in [Rules -> RuleRow] /\ \A q \in Rules : RowOK(rule'[q])
  <2>1. CASE RunDueRecurring(w) \/ NeighborYearForDate(w) \/ MaterializeRecurring(w)
    BY <1>2, <2>1 DEF RunDueRecurring, NeighborYearForDate, MaterializeRecurring
  <2> QED
    BY <1>3, <2>1, SaveProgressRows, SaveReasonRows DEF Tick
<1>4. ASSUME NEW w \in Workers, OccurrenceFails(w) \/ RuleFails(w) \/ WorkerDies(w)
      PROVE  rule' = rule
  BY <1>4 DEF OccurrenceFails, RuleFails, WorkerDies
<1>5. ASSUME NEW r \in Rules, \E d \in Days : UpdateLedgerBooking(r, d)
      PROVE  rule' = rule
  BY <1>5 DEF UpdateLedgerBooking
<1>6. ASSUME NewDay \/ \E y \in Years : SetYearStatus(y)
      PROVE  rule' = rule
  BY <1>6 DEF NewDay, SetYearStatus
<1>7. CASE seriesVars' = seriesVars
  BY <1>2, <1>7 DEF seriesVars
<1> QED
  BY <1>1, <1>2, <1>3, <1>4, <1>5, <1>6, <1>7, OperatorRows DEF SeriesNext

\* And so do the clock, the exceptions, the accounts and the bounds.
LEMMA RowsKept ==
  ASSUME SeriesInv, [SeriesNext]_seriesVars
  PROVE  RowsOK'
<1> DEFINE Others == /\ skipped \in [Rules -> SUBSET Days]
                     /\ edited \in [Rules -> SUBSET Days]
                     /\ years \subseteq Years /\ erasedRules \subseteq Rules
                     /\ today \in Days /\ ops \in 0 .. MaxOps /\ faults \in 0 .. MaxFaults
<1>1. Others /\ MaxOps \in Nat /\ MaxFaults \in Nat
  BY RecurringAssumption DEF SeriesInv, RowsOK
<1>2. ASSUME seriesVars' = seriesVars PROVE Others'
  BY <1>1, <1>2 DEF seriesVars
<1>3. ASSUME NEW w \in Workers, Tick(w) PROVE Others'
  BY <1>1, <1>3 DEF Tick, RunDueRecurring, NeighborYearForDate, MaterializeRecurring,
                    SaveRuleProgress, SaveWaitReason, accounts, operator
<1>4. ASSUME NEW w \in Workers,
             OccurrenceFails(w) \/ RuleFails(w) \/ WorkerDies(w)
               \/ \E r \in Rules : RunRecurringNow(w, r)
      PROVE  Others'
  <2>1. CASE OccurrenceFails(w)
    BY <1>1, <2>1 DEF OccurrenceFails, Fault, accounts
  <2>2. CASE RuleFails(w)
    BY <1>1, <2>2 DEF RuleFails, Fault, accounts
  <2>3. CASE WorkerDies(w)
    BY <1>1, <2>3 DEF WorkerDies, Fault, accounts
  <2>4. ASSUME NEW r \in Rules, RunRecurringNow(w, r) PROVE Others'
    BY <1>1, <2>4 DEF RunRecurringNow, Operates, accounts
  <2> QED
    BY <1>4, <2>1, <2>2, <2>3, <2>4
<1>5. ASSUME NEW r \in Rules, NEW kind, NEW next, NEW ends,
             CreateRecurringUntil(r, kind, next, ends)
               \/ UpdateRecurringSchedule(r, kind, next, ends)
      PROVE  Others'
  BY <1>1, <1>5 DEF CreateRecurringUntil, UpdateRecurringSchedule, Operates, accounts, operator
<1>6. ASSUME NEW r \in Rules, SkipNextRecurring(r) PROVE Others'
  <2>1. rule[r].next \in Days
    BY <1>6, Calendar DEF SeriesInv, RowsOK, RuleRow, SkipNextRecurring, Dates, Days
  <2>2. skipped' \in [Rules -> SUBSET Days]
    BY <1>1, <1>6, <2>1 DEF SkipNextRecurring
  <2> QED
    BY <1>1, <1>6, <2>2 DEF SkipNextRecurring, Operates, accounts
<1>7. ASSUME NEW r \in Rules, DeleteRecurring(r) \/ AnonymizeNeighbor(r) PROVE Others'
  BY <1>1, <1>7 DEF DeleteRecurring, AnonymizeNeighbor, RemoveRule, Operates, accounts
<1>8. ASSUME NEW r \in Rules, ToggleRecurring(r) PROVE Others'
  BY <1>1, <1>8 DEF ToggleRecurring, Operates, accounts
<1>9. ASSUME NEW r \in Rules, NEW d \in Days, UpdateLedgerBooking(r, d) PROVE Others'
  BY <1>1, <1>9 DEF UpdateLedgerBooking, Operates, accounts
<1>10. ASSUME NEW y \in Years, SetYearStatus(y) PROVE Others'
  BY <1>1, <1>10 DEF SetYearStatus, Operates
<1>11. ASSUME NewDay PROVE Others'
  BY <1>1, <1>11, Calendar DEF NewDay, accounts, operator, Days
<1>12. Others'
  <2> HIDE DEF Others
  <2> QED
    BY <1>2, <1>3, <1>4, <1>5, <1>6, <1>7, <1>8, <1>9, <1>10, <1>11 DEF SeriesNext
<1>13. QED
  BY <1>12, RuleRowsKept DEF RowsOK, RowOK, BoundsHold

LEMMA SeriesInvInit ==
  ASSUME SeriesInit
  PROVE  SeriesInv
<1>1. Never \in Dates /\ 1 \in Days /\ MaxOps \in Nat /\ MaxFaults \in Nat
  BY Calendar, RecurringAssumption DEF Dates, Days
<1>2. Absent \in RuleRow /\ Absent.active = FALSE
  BY <1>1 DEF Absent, RuleRow, Kinds
<1>3. RowsOK
  BY <1>1, <1>2 DEF SeriesInit, RowsOK, BoundsHold
<1>4. BookedInv
  BY DEF SeriesInit, BookedInv, BookedOnce
<1>5. JobsOK
  <2>1. \A w \in Workers : job[w] = NoJob
    BY DEF SeriesInit
  <2>2. NoJob \in Job /\ JobOK(NoJob, booked)
    BY IdleOK DEF JobOK
  <2> QED
    BY <2>1, <2>2 DEF SeriesInit, JobsOK
<1> QED
  BY <1>3, <1>4, <1>5 DEF SeriesInv

LEMMA SeriesInvPreserved ==
  ASSUME SeriesInv, [SeriesNext]_seriesVars
  PROVE  SeriesInv'
BY RowsKept, JobsKept, BookedInvPreserved DEF SeriesInv

LEMMA SeriesInvHolds == SeriesSpec => []SeriesInv
<1>1. SeriesInit => SeriesInv
  BY SeriesInvInit
<1>2. SeriesInv /\ [SeriesNext]_seriesVars => SeriesInv'
  BY SeriesInvPreserved
<1> QED
  BY <1>1, <1>2, PTL DEF SeriesSpec

\* Rules and jobs are well formed; an active rule's next run never lies past its
\* end (recurring_entries_schedule_bounds_chk), and a job at work has a rule to
\* work on and a day of the calendar to book, whatever overlapped with it.
THEOREM TypeCorrect == SeriesSpec => []SeriesTypeOK
<1>1. SeriesInv => SeriesTypeOK
  <2>1. SUFFICES ASSUME SeriesInv PROVE SeriesTypeOK
    OBVIOUS
  <2>2. \A w \in Workers :
          /\ job[w].pc # "idle" => job[w].list # <<>>
          /\ job[w].pc \in {"year", "book"} => job[w].next \in Days
    BY <2>1 DEF SeriesInv, JobsOK, JobOK
  <2> QED
    BY <2>1, <2>2 DEF SeriesInv, RowsOK, BookedInv, JobsOK, SeriesTypeOK
<1> QED
  BY <1>1, SeriesInvHolds, PTL

\* Saving a tick's progress moves a rule over no date, of the rhythm the tick
\* read, that is not booked: neither a failed statement, a closed year, a changed
\* counterclaim, a crash nor another tick makes an occurrence get lost
\* (runDueRule and saveRuleProgress).
THEOREM NothingPassedOver == SeriesSpec => NeverPassesUnbooked
<1>1. ASSUME SeriesInv, [SeriesNext]_seriesVars, NEW w \in Workers, SaveRuleProgress(w),
             NEW d \in Rhythm(Current(w).next, Current(w).kind),
             rule[Current(w).rule].next <= d, d < rule'[Current(w).rule].next
      PROVE  booked[Current(w).rule][d] > 0
  <2> DEFINE j == job[w]
             s == Head(j.list)
             r == s.rule
             row == [rule[r] EXCEPT !.next = j.next, !.active = @ /\ ~(j.next > s.ends)]
  <2>1. JobOK(j, booked) /\ j.pc = "save" /\ ~j.now /\ s = Current(w)
    BY <1>1 DEF SeriesInv, JobsOK, JobOK, SaveRuleProgress, Current
  <2>2. s \in Snap /\ Counted(s, j.next, booked)
    <3> HIDE DEF j
    <3> QED
      BY <2>1, CurrentRule DEF JobOK
  <2>3. r \in Rules /\ d \in Dates /\ rule[r] \in RuleRow
    BY <1>1, <2>1, <2>2, RhythmStarts DEF Snap, SeriesInv, RowsOK
  <2>4. rule[r].next \in Nat /\ d \in Nat
    BY <2>3, Calendar DEF RuleRow, Dates
  <2>5. rule' # rule
    <3>1. SUFFICES ASSUME rule' = rule PROVE FALSE
      OBVIOUS
    <3>2. rule[r].next <= d /\ d < rule[r].next
      BY <1>1, <2>1, <3>1
    <3> QED
      BY <2>4, <3>2
  <2>6. rule' = [rule EXCEPT ![r] = row]
    <3>1. SetRule(r, row)
      BY <1>1, <2>5 DEF SaveRuleProgress, Current
    <3>2. rule \in [Rules -> RuleRow]
      BY <1>1 DEF SeriesInv, RowsOK
    <3> HIDE DEF row
    <3> QED
      BY <2>3, <2>5, <3>1, <3>2 DEF SetRule
  <2>7. row.next = j.next
    BY <2>3 DEF RuleRow
  <2>8. rule'[r].next = j.next
    <3>1. rule \in [Rules -> RuleRow]
      BY <1>1 DEF SeriesInv, RowsOK
    <3> HIDE DEF row
    <3> QED
      BY <2>3, <2>6, <2>7, <3>1
  <2>9. d < j.next
    BY <1>1, <2>1, <2>8
  <2> QED
    BY <1>1, <2>1, <2>2, <2>9 DEF Counted
<1>2. SeriesInv /\ [SeriesNext]_seriesVars =>
        [\A w \in Workers : job[w].list # <<>> =>
           LET s == Current(w)
               old == rule[s.rule].next
           IN  SaveRuleProgress(w) =>
                 \A d \in Rhythm(s.next, s.kind) :
                   old <= d /\ d < rule'[s.rule].next => booked[s.rule][d] > 0]_seriesVars
  BY <1>1
<1> QED
  BY <1>2, SeriesInvHolds, PTL DEF NeverPassesUnbooked, SeriesSpec
-----------------------------------------------------------------------------
(* What a statement is read as *)

\* Flattening sequences gives a sequence of what they hold, by induction on how many
\* of them are joined.
LEMMA Flattened ==
  ASSUME NEW S, NEW s \in Seq(Seq(S))
  PROVE  FlattenSeq(s) \in Seq(S)
<1> DEFINE Joins(n, f) == f = [i \in 1..n |-> IF i = 1 THEN s[i] ELSE f[i-1] \o s[i]]
           T == {n \in Nat : \E f : Joins(n, f)}
           g == CHOOSE f : Joins(Len(s), f)
           U == {n \in Nat : n \in 1..Len(s) => g[n] \in Seq(S)}
<1>1. CASE Len(s) = 0
  BY <1>1 DEF FlattenSeq
<1>2. 0 \in T
  <2>1. Joins(0, [i \in 1..0 |-> {}])
    OBVIOUS
  <2> HIDE DEF Joins
  <2>2. QED
    BY <2>1
<1>3. ASSUME NEW n \in T PROVE n + 1 \in T
  <2>1. PICK f : Joins(n, f)
    BY <1>3
  <2> DEFINE h == [i \in 1..(n+1) |-> IF i = n + 1
                                      THEN IF i = 1 THEN s[i] ELSE f[i-1] \o s[i]
                                      ELSE f[i]]
  <2>2. ASSUME NEW i \in 1..(n+1)
        PROVE  h[i] = IF i = 1 THEN s[i] ELSE h[i-1] \o s[i]
    <3>1. CASE i = n + 1
      BY <3>1
    <3>2. CASE i # n + 1
      <4>1. i \in 1..n /\ (i # 1 => i - 1 \in 1..n)
        BY <3>2
      <4>2. f[i] = IF i = 1 THEN s[i] ELSE f[i-1] \o s[i]
        BY <2>1, <4>1
      <4>3. h[i] = f[i] /\ (i # 1 => h[i-1] = f[i-1])
        BY <3>2, <4>1
      <4> HIDE DEF h
      <4> QED
        BY <4>2, <4>3
    <3> QED
      BY <3>1, <3>2
  <2>3. Joins(n + 1, h)
    <3>1. h = [i \in 1..(n+1) |-> h[i]]
      OBVIOUS
    <3> HIDE DEF h
    <3> QED
      BY <2>2, <3>1
  <2> HIDE DEF Joins, h
  <2> QED
    BY <2>3
<1>4. T = Nat
  <2> HIDE DEF T
  <2>1. T \subseteq Nat
    BY DEF T
  <2> QED
    BY <1>2, <1>3, <2>1, CountUp
<1>5. Joins(Len(s), g)
  <2>1. Len(s) \in T
    <3> HIDE DEF T
    <3> QED
      BY <1>4
  <2>2. \E f : Joins(Len(s), f)
    <3> HIDE DEF Joins
    <3> QED
      BY <2>1
  <2> HIDE DEF Joins
  <2> QED
    BY <2>2
<1>6. 0 \in U
  OBVIOUS
<1>7. ASSUME NEW n \in U PROVE n + 1 \in U
  <2>1. SUFFICES ASSUME n + 1 \in 1..Len(s) PROVE g[n + 1] \in Seq(S)
    OBVIOUS
  <2>2. g[n+1] = IF n + 1 = 1 THEN s[n+1] ELSE g[n] \o s[n+1]
    <3> DEFINE Term(i) == IF i = 1 THEN s[i] ELSE g[i-1] \o s[i]
    <3>1. g = [i \in 1..Len(s) |-> Term(i)]
      BY <1>5
    <3> HIDE DEF g, Term
    <3>2. g[n+1] = Term(n+1)
      BY <2>1, <3>1
    <3>3. (n + 1) - 1 = n
      BY <1>7
    <3> QED
      BY <3>2, <3>3 DEF Term
  <2>3. s[n+1] \in Seq(S) /\ (n + 1 # 1 => g[n] \in Seq(S))
    BY <1>7, <2>1
  <2> HIDE DEF g
  <2> QED
    BY <2>2, <2>3
<1>8. U = Nat
  <2> HIDE DEF U
  <2>1. U \subseteq Nat
    BY DEF U
  <2> QED
    BY <1>6, <1>7, <2>1, CountUp
<1>9. Len(s) # 0 => FlattenSeq(s) = g[Len(s)]
  BY DEF FlattenSeq
<1> QED
  <2>1. Len(s) \in U
    <3> HIDE DEF U
    <3> QED
      BY <1>8
  <2>2. Len(s) # 0 => g[Len(s)] \in Seq(S)
    <3> HIDE DEF g
    <3> QED
      BY <2>1
  <2> HIDE DEF g
  <2> QED
    BY <1>1, <1>9, <2>2

\* A line of a file and what it is read as.
BankLine ==
  [side : {"credit", "debit", "reversal"}, currency : {"EUR", "other"}, amount : Nat,
   bankRef : STRING, details : Seq([txn : Txn, amount : Nat]) \ {<<>>}]
Credit ==
  [txn : Txn, amount : Nat,
   key : [ref : STRING, detail : Nat] \cup [txn : Txn, amount : Nat]]

LEMMA EntryRead ==
  ASSUME NEW format, NEW e \in BankLine
  PROVE  EntryCredits(format, e) \in Seq(Credit)
<1> DEFINE D == [txn : Txn, amount : Nat]
<1>1. /\ e.details \in Seq(D) /\ e.details # <<>> /\ Len(e.details) \in Nat
      /\ Len(e.details) >= 1 /\ DOMAIN e.details = 1..Len(e.details)
      /\ e.amount \in Nat /\ e.bankRef \in STRING
  BY DEF BankLine
<1>2. \A j \in DOMAIN e.details : e.details[j].txn \in Txn /\ e.details[j].amount \in Nat
  <2> HIDE DEF D
  <2>1. \A j \in DOMAIN e.details : e.details[j] \in D
    BY <1>1
  <2> QED
    BY <2>1 DEF D
<1>3. ASSUME NEW txn \in Txn, NEW amount \in Nat, NEW detail \in Nat
      PROVE  Key(e, txn, amount, detail) \in
               [ref : STRING, detail : Nat] \cup [txn : Txn, amount : Nat]
  BY <1>1 DEF Key
<1>4. Single(e) \in Credit
  <2>1. e.details[1].txn \in Txn
    BY <1>1, <1>2
  <2>2. Key(e, e.details[1].txn, e.amount, 0) \in
          [ref : STRING, detail : Nat] \cup [txn : Txn, amount : Nat]
    BY <1>1, <1>3, <2>1
  <2> QED
    BY <1>1, <2>1, <2>2 DEF Single, Credit
<1>5. SplitBatch(e) \in Seq(Credit)
  <2> DEFINE split == [j \in DOMAIN e.details |->
                         LET d == e.details[j]
                         IN [txn |-> d.txn, amount |-> d.amount,
                             key |-> Key(e, d.txn, d.amount, j)]]
  <2>1. ASSUME NEW j \in DOMAIN e.details PROVE split[j] \in Credit
    <3>1. Key(e, e.details[j].txn, e.details[j].amount, j) \in
            [ref : STRING, detail : Nat] \cup [txn : Txn, amount : Nat]
      BY <1>1, <1>2, <1>3
    <3> QED
      BY <1>2, <3>1 DEF Credit
  <2>2. split \in [1..Len(e.details) -> Credit]
    BY <1>1, <2>1
  <2>3. split \in Seq(Credit)
    <3> HIDE DEF split, D
    <3>1. PICK n \in Nat : split \in [1..n -> Credit]
      BY <1>1, <2>2
    <3> QED
      BY ONLY <3>1
  <2>4. SplitBatch(e) = split \/ SplitBatch(e) = <<>>
    BY DEF SplitBatch
  <2> HIDE DEF split
  <2>5. <<>> \in Seq(Credit)
    OBVIOUS
  <2> QED
    BY <2>3, <2>4, <2>5
<1>6. <<Single(e)>> \in Seq(Credit) /\ <<>> \in Seq(Credit)
  BY <1>4
<1> QED
  BY <1>5, <1>6 DEF EntryCredits

LEMMA FileRead ==
  ASSUME NEW file \in Statement
  PROVE  Parse[file] \in Seq(Credit)
<1> DEFINE lines == Content[file].entries
           read == [k \in DOMAIN lines |-> EntryCredits(Content[file].format, lines[k])]
<1>1. lines \in Seq(BankLine)
  BY EntriesShaped DEF BankLine
<1>2. /\ Len(lines) \in Nat /\ DOMAIN lines = 1..Len(lines)
      /\ \A k \in DOMAIN lines : lines[k] \in BankLine
  <2> HIDE DEF lines
  <2> QED
    BY <1>1
<1>3. \A k \in DOMAIN lines : read[k] \in Seq(Credit)
  BY <1>2, EntryRead
<1>4. read \in [1..Len(lines) -> Seq(Credit)]
  BY <1>2, <1>3
<1>5. read \in Seq(Seq(Credit))
  <2> HIDE DEF read, lines
  <2> QED
    BY <1>2, <1>4
<1>6. Parse[file] = FlattenSeq(read)
  BY DEF Parse
<1> HIDE DEF read
<1> QED
  BY <1>5, <1>6, Flattened

\* Every credit of a file has a hash of its own, never the one of no source.
LEMMA HashesReal ==
  ASSUME NEW file \in Statement, NEW k \in DOMAIN Parse[file]
  PROVE  Hash[file][k] # NoSource
<1> DEFINE credits == Parse[file]
           same == {j \in 1..k : credits[j].key = credits[k].key}
<1>1. k \in Nat /\ k >= 1
  BY FileRead
<1>2. IsFiniteSet(same) /\ k \in same
  <2>1. IsFiniteSet(1..k) /\ same \subseteq 1..k /\ k \in 1..k
    BY <1>1, FS_Interval
  <2> QED
    BY <2>1, FS_Subset
<1>3. Cardinality(same) # 0
  BY <1>2, FS_EmptySet
<1>4. Hash[file][k].nth = Cardinality(same)
  BY DEF Hash
<1> QED
  BY <1>3, <1>4 DEF NoSource

\* What is booked of a movement is all of it or nothing.
LEMMA EntriesWhole ==
  ASSUME NEW format, NEW e \in BankLine
  PROVE  LET parsed == EntryCredits(format, e)
         IN SumFunction([j \in DOMAIN parsed |-> parsed[j].amount]) \in {0, e.amount}
<1> DEFINE parsed == EntryCredits(format, e)
           amounts == [j \in DOMAIN parsed |-> parsed[j].amount]
<1>1. ASSUME parsed = <<>> PROVE SumFunction(amounts) = 0
  <2>1. DOMAIN amounts = {}
    BY <1>1
  <2> HIDE DEF amounts
  <2>2. SumFunctionOnSet(amounts, DOMAIN amounts) = 0
    BY <2>1, SumUnfolds, FS_EmptySet
  <2> QED
    BY <2>2 DEF SumFunction
<1>2. ASSUME parsed = <<Single(e)>> PROVE SumFunction(amounts) = e.amount
  <2>1. DOMAIN parsed = {1} /\ parsed[1] = Single(e)
    BY <1>2
  <2>2. DOMAIN amounts = {1} /\ amounts[1] = e.amount /\ e.amount \in Nat
    BY <2>1 DEF Single, BankLine
  <2> HIDE DEF amounts
  <2>3. SumFunctionOnSet(amounts, {1}) = amounts[1] + SumFunctionOnSet(amounts, {1} \ {1})
    <3>1. IsFiniteSet({1})
      BY FS_Singleton
    <3>2. 1 \in {1} /\ \A x \in {1} : amounts[x] \in Int
      BY <2>2
    <3> QED
      BY ONLY <3>1, <3>2, SumWithout
  <2>4. {1} \ {1} = {} /\ IsFiniteSet({})
    BY FS_EmptySet
  <2>5. SumFunctionOnSet(amounts, {}) = 0
    BY <2>4, SumUnfolds
  <2> QED
    BY <2>2, <2>3, <2>4, <2>5 DEF SumFunction
<1>3. ASSUME parsed = SplitBatch(e), parsed # <<>> PROVE SumFunction(amounts) = e.amount
  <2> DEFINE stated == [j \in DOMAIN e.details |-> e.details[j].amount]
  <2>1. SumFunction(stated) = e.amount
        /\ parsed = [j \in DOMAIN e.details |->
                       LET d == e.details[j]
                       IN [txn |-> d.txn, amount |-> d.amount,
                           key |-> Key(e, d.txn, d.amount, j)]]
    BY <1>3 DEF SplitBatch
  <2>2. DOMAIN parsed = DOMAIN e.details
        /\ \A j \in DOMAIN e.details : parsed[j].amount = e.details[j].amount
    BY <2>1
  <2> HIDE DEF parsed
  <2>3. amounts = stated
    BY <2>2
  <2> QED
    BY <2>1, <2>3
<1>4. parsed = <<>> \/ parsed = <<Single(e)>> \/ parsed = SplitBatch(e)
  BY DEF EntryCredits
<1> QED
  BY <1>1, <1>2, <1>3, <1>4

LEMMA FilesAreWhole == FilesWhole
<1> SUFFICES ASSUME NEW file \in Statement, NEW k \in DOMAIN Content[file].entries
             PROVE  LET e == Content[file].entries[k]
                        parsed == EntryCredits(Content[file].format, e)
                    IN SumFunction([j \in DOMAIN parsed |-> parsed[j].amount]) \in {0, e.amount}
  BY DEF FilesWhole, WholeEntries
<1>1. Content[file].entries \in Seq(BankLine)
  BY EntriesShaped DEF BankLine
<1>2. Content[file].entries[k] \in BankLine
  BY <1>1
<1> QED
  BY <1>2, EntriesWhole
-----------------------------------------------------------------------------
(* Imported money: ImportedOnce *)

PaymentFields == {"acct", "amount", "day", "preferred", "of", "source", "deleted"}
RowFields == {"hash", "amount", "acct", "invoice", "status", "payment", "reversal"}

\* Payments are numbered, a counter-entry names an earlier one and is never deleted.
PaymentsNumbered ==
  /\ \E S : payments \in Seq(S)
  /\ \A p \in DOMAIN payments :
       /\ DOMAIN payments[p] = PaymentFields
       /\ payments[p].of \in 0..Len(payments)
       /\ payments[p].of # 0 => ~payments[p].deleted

\* A hash and its one payment are recorded together.
HashesBooked ==
  /\ NoSource \notin hashes
  /\ \A h \in hashes : \E p \in DOMAIN payments : payments[p].source = h
  /\ \A p \in DOMAIN payments : payments[p].source # NoSource => payments[p].source \in hashes
  /\ \A p, q \in DOMAIN payments :
       payments[p].source = payments[q].source /\ payments[p].source # NoSource => p = q

\* What a request read is still true when it matches.
SeenBooked ==
  /\ DOMAIN commits = Request
  /\ \A r \in Request :
       /\ DOMAIN commits[r] = {"pc", "file", "seen", "at"}
       /\ commits[r].pc = "seen" => commits[r].file \in Statement /\ commits[r].seen \subseteq hashes

Keys(r) == DOMAIN batches[r].rows

\* What a row says is so.
RowRight(row) ==
  /\ DOMAIN row = RowFields /\ row.hash # NoSource
  /\ row.status \in {"booked", "duplicate", "reversed"} => row.hash \in hashes
  /\ row.payment # 0 => /\ row.payment \in DOMAIN payments
                        /\ payments[row.payment].source = row.hash
  /\ row.status \in {"booked", "reversed"} => row.payment # 0
  /\ row.status = "booked" => \A q \in DOMAIN payments : payments[q].of # row.payment
  /\ row.status = "reversed" =>
       \A q \in DOMAIN payments : payments[q].of = row.payment <=> q = row.reversal
  /\ row.status = "reversed" => row.reversal \in DOMAIN payments

RowsRight ==
  /\ DOMAIN batches = Request
  /\ \A r \in Request :
       /\ DOMAIN batches[r] = {"status", "rows"}
       /\ \A k \in Keys(r) : RowRight(batches[r].rows[k])

\* No two rows claim one payment.
RowsApart ==
  \A r, s \in Request : \A k \in Keys(r), l \in Keys(s) :
    batches[r].rows[k].payment = batches[s].rows[l].payment /\ batches[r].rows[k].payment # 0
      => r = s /\ k = l

ImportInv == PaymentsNumbered /\ HashesBooked /\ SeenBooked /\ RowsRight /\ RowsApart

\* The classes of what a step does: to the hashes and payments ...
Records(new) == payments' = Append(payments, new)
Corrects(p, new) ==
  /\ p \in DOMAIN payments /\ payments[p].source = NoSource /\ payments[p].of = 0
  /\ payments' = [payments EXCEPT ![p] = new]
  /\ DOMAIN new = PaymentFields /\ new.source = NoSource /\ new.of = 0
\* ... to the rows ...
RowsUntouched ==
  /\ DOMAIN batches' = Request
  /\ \A r \in Request :
       /\ DOMAIN batches'[r] = {"status", "rows"}
       /\ Keys(r)' = Keys(r)
       /\ \A k \in Keys(r) : batches'[r].rows[k] = batches[r].rows[k]
RowSet(r, k, row) ==
  /\ DOMAIN batches' = Request
  /\ \A s \in Request :
       /\ DOMAIN batches'[s] = {"status", "rows"}
       /\ Keys(s)' = Keys(s)
       /\ \A l \in Keys(s) :
            batches'[s].rows[l] = IF s = r /\ l = k THEN row ELSE batches[s].rows[l]
\* ... and to a commit.
CommitMoves ==
  /\ DOMAIN commits' = Request
  /\ \A r \in Request :
       /\ DOMAIN commits'[r] = {"pc", "file", "seen", "at"}
       /\ commits'[r].pc = "seen" => commits'[r] = commits[r]

\* What was recorded stays: later payments name none but those given.
Stays ==
  /\ hashes \subseteq hashes'
  /\ \A p \in DOMAIN payments : /\ p \in DOMAIN payments'
                                /\ payments'[p].source = payments[p].source
                                /\ payments'[p].of = payments[p].of

LEMMA StaysRight ==
  ASSUME Stays, NEW row, RowRight(row),
         \A q \in DOMAIN payments' \ DOMAIN payments : payments'[q].of = 0 \/ payments'[q].of # row.payment
  PROVE  RowRight(row)'
<1>1. DOMAIN row = RowFields /\ row.hash # NoSource
      /\ (row.status \in {"booked", "duplicate", "reversed"} => row.hash \in hashes')
  BY DEF RowRight, Stays
<1>2. row.payment # 0 => /\ row.payment \in DOMAIN payments'
                         /\ payments'[row.payment].source = row.hash
  BY DEF RowRight, Stays
<1>3. row.status \in {"booked", "reversed"} => row.payment # 0
  BY DEF RowRight
<1>4. row.status = "booked" => \A q \in DOMAIN payments' : payments'[q].of # row.payment
  BY <1>3 DEF RowRight, Stays
<1>5. row.status = "reversed" => row.reversal \in DOMAIN payments'
  BY DEF RowRight, Stays
<1>6. ASSUME row.status = "reversed", NEW q \in DOMAIN payments'
      PROVE  payments'[q].of = row.payment <=> q = row.reversal
  <2>1. row.payment # 0 /\ row.reversal \in DOMAIN payments
    BY <1>6 DEF RowRight
  <2>2. CASE q \in DOMAIN payments
    BY <1>6, <2>2 DEF RowRight, Stays
  <2>3. CASE q \notin DOMAIN payments
    BY <1>6, <2>1, <2>3
  <2> QED
    BY <2>2, <2>3
<1> QED
  BY <1>1, <1>2, <1>3, <1>4, <1>5, <1>6 DEF RowRight

LEMMA RowsStay ==
  ASSUME ImportInv, Stays, RowsUntouched,
         \A q \in DOMAIN payments' \ DOMAIN payments : payments'[q].of = 0
  PROVE  RowsRight' /\ RowsApart'
<1>1. ASSUME NEW r \in Request, NEW k \in Keys(r)'
      PROVE  RowRight(batches[r].rows[k])' /\ k \in Keys(r)
             /\ batches'[r].rows[k] = batches[r].rows[k]
  <2>1. k \in Keys(r) /\ batches'[r].rows[k] = batches[r].rows[k]
    BY <1>1 DEF RowsUntouched
  <2> DEFINE row == batches[r].rows[k]
  <2>2. RowRight(row)
    BY <2>1 DEF ImportInv, RowsRight
  <2>3. PICK fixed : fixed = row
    OBVIOUS
  <2>4. RowRight(fixed)
    BY <2>2, <2>3
  <2>5. RowRight(fixed)'
    BY <2>4, StaysRight
  <2>6. batches'[r].rows[k] = fixed
    BY <2>1, <2>3
  <2> QED
    BY <2>1, <2>5, <2>6
<1>2. RowsRight'
  BY <1>1 DEF RowsRight, RowsUntouched
<1>3. RowsApart'
  BY <1>1 DEF ImportInv, RowsApart
<1> QED
  BY <1>2, <1>3

\* A row set right leaves all rows right.
LEMMA RowSetRight ==
  ASSUME ImportInv, Stays, NEW r, NEW k, NEW row, RowSet(r, k, row), RowRight(row)',
         \A s \in Request : \A l \in Keys(s) :
           ~(s = r /\ l = k) =>
             /\ row.payment # 0 => batches[s].rows[l].payment # row.payment
             /\ \A q \in DOMAIN payments' \ DOMAIN payments :
                  payments'[q].of = 0 \/ payments'[q].of # batches[s].rows[l].payment
  PROVE  RowsRight' /\ RowsApart'
<1>1. ASSUME NEW s \in Request, NEW l \in Keys(s)'
      PROVE  /\ RowRight(batches[s].rows[l])' /\ l \in Keys(s)
             /\ batches'[s].rows[l] = IF s = r /\ l = k THEN row ELSE batches[s].rows[l]
  <2>1. l \in Keys(s)
        /\ batches'[s].rows[l] = IF s = r /\ l = k THEN row ELSE batches[s].rows[l]
    BY <1>1 DEF RowSet
  <2>2. CASE s = r /\ l = k
    <3>1. batches'[s].rows[l] = row
      BY <2>1, <2>2
    <3> QED
      BY <2>1, <3>1
  <2>3. CASE ~(s = r /\ l = k)
    <3>1. PICK fixed : fixed = batches[s].rows[l]
      OBVIOUS
    <3>2. RowRight(fixed)
      BY <2>1, <3>1 DEF ImportInv, RowsRight
    <3>3. \A q \in DOMAIN payments' \ DOMAIN payments :
            payments'[q].of = 0 \/ payments'[q].of # fixed.payment
      BY <2>1, <2>3, <3>1
    <3>4. RowRight(fixed)'
      BY <3>2, <3>3, StaysRight
    <3>5. batches'[s].rows[l] = fixed
      BY <2>1, <2>3, <3>1
    <3> QED
      BY <2>1, <3>4, <3>5
  <2> QED
    BY <2>2, <2>3
<1>2. RowsRight'
  BY <1>1 DEF RowsRight, RowSet
<1>3. ASSUME NEW s \in Request, NEW t \in Request, NEW l \in Keys(s)', NEW m \in Keys(t)',
             batches'[s].rows[l].payment = batches'[t].rows[m].payment,
             batches'[s].rows[l].payment # 0
      PROVE  s = t /\ l = m
  <2>1. l \in Keys(s) /\ m \in Keys(t)
        /\ batches'[s].rows[l] = (IF s = r /\ l = k THEN row ELSE batches[s].rows[l])
        /\ batches'[t].rows[m] = (IF t = r /\ m = k THEN row ELSE batches[t].rows[m])
    BY <1>1
  <2>2. CASE (s = r /\ l = k) <=> (t = r /\ m = k)
    BY <1>3, <2>1, <2>2 DEF ImportInv, RowsApart
  <2>3. CASE ~((s = r /\ l = k) <=> (t = r /\ m = k))
    BY <1>3, <2>1, <2>3
  <2> QED
    BY <2>2, <2>3
<1>4. RowsApart'
  BY <1>3 DEF RowsApart
<1> QED
  BY <1>2, <1>4

\* Recording a payment.
LEMMA RecordStays ==
  ASSUME ImportInv, NEW new, Records(new), hashes \subseteq hashes',
         DOMAIN new = PaymentFields, new.of \in 0..Len(payments), new.of # 0 => ~new.deleted
  PROVE  /\ Stays /\ PaymentsNumbered' /\ Len(payments) + 1 \notin DOMAIN payments
         /\ DOMAIN payments' = DOMAIN payments \cup {Len(payments) + 1}
         /\ payments'[Len(payments) + 1] = new /\ Len(payments) + 1 # 0
         /\ \A p \in DOMAIN payments : payments'[p] = payments[p]
<1>1. PICK S : payments \in Seq(S)
  BY DEF ImportInv, PaymentsNumbered
<1>2. payments' \in Seq(S \cup {new}) /\ Len(payments') = Len(payments) + 1 /\ Len(payments) \in Nat
  BY <1>1 DEF Records
<1>3. /\ Len(payments) + 1 \notin DOMAIN payments /\ Len(payments) + 1 # 0
      /\ DOMAIN payments' = DOMAIN payments \cup {Len(payments) + 1}
      /\ payments'[Len(payments) + 1] = new
      /\ \A p \in DOMAIN payments : payments'[p] = payments[p]
  BY <1>1, <1>2 DEF Records
<1>4. Stays
  BY <1>3 DEF Stays
<1>5. \A p \in DOMAIN payments' :
        /\ DOMAIN payments'[p] = PaymentFields
        /\ payments'[p].of \in 0..Len(payments')
        /\ payments'[p].of # 0 => ~payments'[p].deleted
  BY <1>2, <1>3 DEF ImportInv, PaymentsNumbered
<1> QED
  BY <1>2, <1>3, <1>4, <1>5 DEF PaymentsNumbered

\* Money that no statement brought leaves the hashes as they are.
LEMMA ByHandKeepsHashes ==
  ASSUME ImportInv, NEW new, Records(new), hashes' = hashes, new.source = NoSource,
         DOMAIN new = PaymentFields, new.of \in 0..Len(payments), new.of # 0 => ~new.deleted
  PROVE  HashesBooked'
<1>1. /\ DOMAIN payments' = DOMAIN payments \cup {Len(payments) + 1}
      /\ payments'[Len(payments) + 1] = new
      /\ \A p \in DOMAIN payments : payments'[p] = payments[p]
  BY RecordStays
<1> QED
  BY <1>1 DEF ImportInv, HashesBooked

LEMMA CorrectionStays ==
  ASSUME ImportInv, NEW p, NEW new, Corrects(p, new), hashes' = hashes
  PROVE  Stays /\ PaymentsNumbered' /\ HashesBooked' /\ DOMAIN payments' = DOMAIN payments
<1>1. PICK S : payments \in Seq(S)
  BY DEF ImportInv, PaymentsNumbered
<1>2. payments' \in Seq(S \cup {new}) /\ Len(payments') = Len(payments)
      /\ DOMAIN payments' = DOMAIN payments
  BY <1>1 DEF Corrects
<1>3. payments'[p] = new /\ \A q \in DOMAIN payments : q # p => payments'[q] = payments[q]
  BY <1>1 DEF Corrects
<1>4. Stays
  BY <1>2, <1>3 DEF Stays, Corrects
<1>5. PaymentsNumbered'
  <2>1. new.of \in 0..Len(payments')
    BY <1>1, <1>2 DEF Corrects
  <2> QED
    BY <1>2, <1>3, <2>1 DEF ImportInv, PaymentsNumbered, Corrects
<1>6. HashesBooked'
  BY <1>2, <1>4 DEF ImportInv, HashesBooked, Stays
<1> QED
  BY <1>2, <1>4, <1>5, <1>6

LEMMA CommitsStay ==
  ASSUME ImportInv, CommitMoves, hashes \subseteq hashes'
  PROVE  SeenBooked'
BY DEF ImportInv, SeenBooked, CommitMoves

LEMMA QuietStep ==
  ASSUME ImportInv, hashes' = hashes, payments' = payments, RowsUntouched
  PROVE  PaymentsNumbered' /\ HashesBooked' /\ RowsRight' /\ RowsApart'
<1>1. Stays /\ \A q \in DOMAIN payments' \ DOMAIN payments : payments'[q].of = 0
  BY DEF Stays
<1> QED
  BY <1>1, RowsStay DEF ImportInv, PaymentsNumbered, HashesBooked

-----------------------------------------------------------------------------
(* The steps *)

LEMMA AdvanceMoves ==
  ASSUME ImportInv, NEW r \in Request, Advance(r)
  PROVE  CommitMoves
BY DEF ImportInv, SeenBooked, CommitMoves, Advance

LEMMA StoredSets ==
  ASSUME ImportInv, NEW r \in Request, NEW k, NEW row, batches' = Stored(r, k, row)
  PROVE  RowSet(r, k, row)
BY DEF ImportInv, RowsRight, RowSet, Stored, Keys

LEMMA BatchesSame ==
  ASSUME ImportInv, batches' = batches
  PROVE  RowsUntouched
BY DEF ImportInv, RowsRight, RowsUntouched, Keys

LEMMA CommitsSame ==
  ASSUME ImportInv, commits' = commits
  PROVE  CommitMoves
BY DEF ImportInv, SeenBooked, CommitMoves

LEMMA ImportStart == ImportInit => ImportInv
<1> SUFFICES ASSUME ImportInit PROVE ImportInv
  OBVIOUS
<1>1. payments = <<>> /\ hashes = {}
  BY DEF ImportInit
<1>2. payments \in Seq({}) /\ DOMAIN payments = {}
  BY <1>1
<1>3. PaymentsNumbered /\ HashesBooked
  BY <1>1, <1>2 DEF PaymentsNumbered, HashesBooked
<1>4. SeenBooked
  BY DEF ImportInit, SeenBooked, Away
<1>5. \A r \in Request : DOMAIN batches[r] = {"status", "rows"} /\ Keys(r) = {}
  BY DEF ImportInit, NoBatch, Keys
<1>6. RowsRight /\ RowsApart
  BY <1>5 DEF ImportInit, RowsRight, RowsApart
<1> QED
  BY <1>3, <1>4, <1>6 DEF ImportInv

LEMMA BatchKeeps ==
  ASSUME ImportInv, NEW r \in Request, NEW i, CreatePaymentImportBatch(r, i)
  PROVE  ImportInv'
<1> DEFINE file == commits[r].file
           credits == Parse[file]
           Row(k) == ImportRow(Hash[file][k], credits[k].amount, commits[r].seen,
                               MatchTxn(credits[k].txn, i))
<1>1. file \in Statement /\ commits[r].seen \subseteq hashes /\ commits[r].pc = "seen"
  BY DEF ImportInv, SeenBooked, CreatePaymentImportBatch
<1>2. hashes' = hashes /\ payments' = payments
  BY DEF CreatePaymentImportBatch
<1>3. /\ DOMAIN batches' = Request
      /\ \A s \in Request : s # r => batches'[s] = batches[s]
      /\ batches'[r] = [status |-> "processing", rows |-> [k \in DOMAIN credits |-> Row(k)]]
  BY DEF CreatePaymentImportBatch, ImportInv, RowsRight
<1>4. ASSUME NEW k \in DOMAIN credits, NEW row, row = Row(k)
      PROVE  RowRight(row)' /\ row.payment = 0
  <2>1. Hash[file][k] # NoSource
    BY <1>1, <1>4, HashesReal
  <2>2. PICK hash, amount, match : Row(k) = ImportRow(hash, amount, commits[r].seen, match)
                                   /\ hash # NoSource
    BY <2>1
  <2> HIDE DEF Row
  <2>4. /\ DOMAIN row = RowFields /\ row.hash = hash /\ row.payment = 0
        /\ row.status \in {"duplicate", "unmatched", "pending"}
        /\ row.status = "duplicate" => hash \in commits[r].seen
    BY <1>4, <2>2 DEF ImportRow, RowFields
  <2>5. RowRight(row)'
    BY <1>1, <1>2, <2>2, <2>4 DEF RowRight
  <2> QED
    BY <2>4, <2>5
<1> HIDE DEF Row, credits
<1>5. /\ DOMAIN batches'[r] = {"status", "rows"} /\ Keys(r)' = DOMAIN credits
      /\ \A k \in DOMAIN credits : batches'[r].rows[k] = Row(k)
  BY <1>3 DEF Keys
<1>6. ASSUME NEW s \in Request, NEW k \in Keys(s)'
      PROVE  /\ RowRight(batches[s].rows[k])'
             /\ s = r => batches'[s].rows[k].payment = 0
             /\ s # r => k \in Keys(s) /\ batches'[s].rows[k] = batches[s].rows[k]
  <2>1. CASE s = r
    <3>1. PICK row : row = Row(k)
      OBVIOUS
    <3>2. k \in DOMAIN credits /\ batches'[s].rows[k] = row
      BY <1>5, <1>6, <2>1, <3>1
    <3>3. RowRight(row)' /\ row.payment = 0
      BY <1>4, <3>1, <3>2
    <3> QED
      BY <2>1, <3>2, <3>3
  <2>2. CASE s # r
    <3>1. batches'[s] = batches[s] /\ k \in Keys(s)
      BY <1>3, <1>6, <2>2 DEF Keys
    <3>2. PICK row : row = batches[s].rows[k]
      OBVIOUS
    <3>3. RowRight(row)
      BY <3>1, <3>2 DEF ImportInv, RowsRight
    <3>4. RowRight(row)'
      BY <1>2, <3>3 DEF RowRight
    <3>5. batches'[s].rows[k] = row
      BY <3>1, <3>2
    <3> QED
      BY <2>2, <3>1, <3>4, <3>5
  <2> QED
    BY <2>1, <2>2
<1>7. RowsRight'
  <2>1. \A s \in Request : DOMAIN batches'[s] = {"status", "rows"}
    BY <1>3, <1>5 DEF ImportInv, RowsRight
  <2> QED
    BY <1>3, <1>6, <2>1 DEF RowsRight
<1>8. RowsApart'
  <2>1. SUFFICES ASSUME NEW s \in Request, NEW t \in Request,
                        NEW k \in Keys(s)', NEW l \in Keys(t)',
                        batches'[s].rows[k].payment = batches'[t].rows[l].payment,
                        batches'[s].rows[k].payment # 0
                 PROVE  s = t /\ k = l
    BY DEF RowsApart
  <2>2. s # r /\ k \in Keys(s) /\ batches'[s].rows[k] = batches[s].rows[k]
    BY <1>6, <2>1
  <2>3. t # r /\ l \in Keys(t) /\ batches'[t].rows[l] = batches[t].rows[l]
    BY <1>6, <2>1
  <2> QED
    BY <2>1, <2>2, <2>3 DEF ImportInv, RowsApart
<1>9. CommitMoves
  BY DEF CreatePaymentImportBatch, ImportInv, SeenBooked, CommitMoves
<1>10. SeenBooked'
  BY <1>2, <1>9, CommitsStay
<1> QED
  BY <1>2, <1>7, <1>8, <1>10 DEF ImportInv, PaymentsNumbered, HashesBooked

LEMMA BookKeeps ==
  ASSUME ImportInv, NEW r \in Request, BookRow(r)
  PROVE  ImportInv'
<1>1. PICK row, k, id, new, stored :
        /\ row = RowAt(r) /\ k = commits[r].at /\ id = Len(payments) + 1
        /\ new = Payment(row.acct, row.amount, 1, row.invoice, 0, row.hash)
        /\ stored = [row EXCEPT !.status = "booked", !.payment = id]
  OBVIOUS
<1>2. /\ k \in Keys(r) /\ row = batches[r].rows[k] /\ row.hash \notin hashes
      /\ hashes' = hashes \cup {row.hash} /\ Records(new)
      /\ batches' = Stored(r, k, stored) /\ Advance(r)
  BY <1>1 DEF BookRow, AtRow, RowAt, Keys, Records
<1>3. RowRight(row)
  BY <1>2 DEF ImportInv, RowsRight
<1>4. /\ DOMAIN new = PaymentFields /\ new.of = 0 /\ new.source = row.hash
  BY <1>1 DEF Payment, PaymentFields
<1>5. /\ DOMAIN stored = RowFields /\ stored.status = "booked" /\ stored.payment = id
      /\ stored.hash = row.hash
  BY <1>1, <1>3 DEF RowRight, RowFields
<1>6. RowSet(r, k, stored)
  BY <1>2, StoredSets
<1>7. Len(payments) \in Nat /\ DOMAIN payments = 1..Len(payments)
  BY DEF ImportInv, PaymentsNumbered
<1>8. /\ Stays /\ PaymentsNumbered' /\ id \notin DOMAIN payments /\ id # 0
      /\ DOMAIN payments' = DOMAIN payments \cup {id} /\ payments'[id] = new
      /\ \A p \in DOMAIN payments : payments'[p] = payments[p]
  <2>1. new.of \in 0..Len(payments) /\ (new.of # 0 => ~new.deleted) /\ hashes \subseteq hashes'
    BY <1>2, <1>4, <1>7
  <2> QED
    BY <1>1, <1>2, <1>4, <2>1, RecordStays
<1>9. row.hash # NoSource
  BY <1>3 DEF RowRight
<1>10. HashesBooked'
  BY <1>2, <1>4, <1>8, <1>9 DEF ImportInv, HashesBooked
<1>11. RowRight(stored)'
  <2>1. \A q \in DOMAIN payments : payments[q].of \in 0..Len(payments)
    BY DEF ImportInv, PaymentsNumbered
  <2>2. \A q \in DOMAIN payments : payments[q].of # id
    BY <1>1, <1>7, <2>1
  <2>3. \A q \in DOMAIN payments' : payments'[q].of # id
    BY <1>4, <1>8, <2>2
  <2> QED
    BY <1>2, <1>4, <1>5, <1>8, <1>9, <2>3 DEF RowRight
<1>12. \A s \in Request : \A l \in Keys(s) : batches[s].rows[l].payment # id
  BY <1>8 DEF ImportInv, RowsRight, RowRight
<1>13. \A q \in DOMAIN payments' \ DOMAIN payments : payments'[q].of = 0
  BY <1>4, <1>8
<1>14. RowsRight' /\ RowsApart'
  BY <1>5, <1>6, <1>8, <1>11, <1>12, <1>13, RowSetRight
<1>15. SeenBooked'
  BY <1>2, AdvanceMoves, CommitsStay
<1> QED
  BY <1>8, <1>10, <1>14, <1>15 DEF ImportInv

\* A row that was found booked, or was refused, is marked so.
LEMMA MarkKeeps ==
  ASSUME ImportInv, NEW r \in Request, NEW status \in {"duplicate", "skipped"},
         batches' = Stored(r, commits[r].at, [RowAt(r) EXCEPT !.status = status]), Advance(r),
         status = "duplicate" => RowAt(r).hash \in hashes,
         hashes' = hashes, payments' = payments
  PROVE  ImportInv'
<1>1. PICK row, k, marked :
        row = RowAt(r) /\ k = commits[r].at /\ marked = [row EXCEPT !.status = status]
  OBVIOUS
<1>2. Stays
  BY DEF Stays
<1>3. SeenBooked'
  BY AdvanceMoves, CommitsStay
<1>4. CASE k \in Keys(r)
  <2>1. RowRight(row) /\ row = batches[r].rows[k]
    BY <1>1, <1>4 DEF ImportInv, RowsRight, RowAt
  <2>2. /\ DOMAIN marked = RowFields /\ marked.status = status
        /\ marked.payment = row.payment /\ marked.hash = row.hash
    BY <1>1, <2>1 DEF RowRight, RowFields
  <2>3. RowRight(marked)'
    <3>1. marked.status \notin {"booked", "reversed"}
      BY <2>2
    <3>2. marked.status = "duplicate" => marked.hash \in hashes
      BY <1>1, <2>2
    <3>3. /\ row.hash # NoSource
          /\ row.payment # 0 => /\ row.payment \in DOMAIN payments
                                /\ payments[row.payment].source = row.hash
      BY <2>1 DEF RowRight
    <3> QED
      BY <2>2, <3>1, <3>2, <3>3 DEF RowRight
  <2>4. \A s \in Request : \A l \in Keys(s) :
          ~(s = r /\ l = k) => (row.payment # 0 => batches[s].rows[l].payment # row.payment)
    BY <1>4, <2>1 DEF ImportInv, RowsApart
  <2>5. RowSet(r, k, marked)
    BY <1>1, StoredSets
  <2>6. RowsRight' /\ RowsApart'
    BY <1>2, <2>2, <2>3, <2>4, <2>5, RowSetRight
  <2> QED
    BY <1>3, <2>6 DEF ImportInv, PaymentsNumbered, HashesBooked
<1>5. CASE k \notin Keys(r)
  <2>1. batches' = Stored(r, k, marked)
    BY <1>1
  <2>2. RowSet(r, k, marked)
    BY <2>1, StoredSets
  <2>3. RowsUntouched
    BY <1>5, <2>2 DEF RowsUntouched, RowSet
  <2> QED
    BY <1>3, <2>3, QuietStep DEF ImportInv
<1> QED
  BY <1>4, <1>5

LEMMA ReversalKeeps ==
  ASSUME ImportInv, NEW r \in Request, NEW k \in Keys(r), ReverseImportedPayment(r, k)
  PROVE  ImportInv'
<1>0. PICK row, id, new, reversed :
        /\ row = batches[r].rows[k] /\ id = Len(payments) + 1
        /\ new = Payment(row.acct, -payments[row.payment].amount, 2, 0, row.payment, NoSource)
        /\ reversed = [row EXCEPT !.status = "reversed", !.reversal = id]
  OBVIOUS
<1>1. /\ row.status = "booked" /\ hashes' = hashes /\ commits' = commits
      /\ Records(new) /\ batches' = Stored(r, k, reversed)
  BY <1>0 DEF ReverseImportedPayment, Records
<1>2. RowRight(row)
  BY <1>0 DEF ImportInv, RowsRight
<1>3. /\ DOMAIN new = PaymentFields /\ new.of = row.payment /\ new.source = NoSource
      /\ ~new.deleted
  BY <1>0 DEF Payment, PaymentFields
<1>4. /\ DOMAIN reversed = RowFields /\ reversed.status = "reversed" /\ reversed.reversal = id
      /\ reversed.hash = row.hash /\ reversed.payment = row.payment
  BY <1>0, <1>2 DEF RowRight, RowFields
<1>5. RowSet(r, k, reversed)
  BY <1>1, StoredSets
<1>6. /\ Len(payments) \in Nat /\ row.payment \in DOMAIN payments /\ row.payment # 0
      /\ row.payment \in 0..Len(payments) /\ row.hash # NoSource /\ row.hash \in hashes
      /\ payments[row.payment].source = row.hash
      /\ \A q \in DOMAIN payments : payments[q].of # row.payment
  <2>1. Len(payments) \in Nat /\ DOMAIN payments = 1..Len(payments)
    BY DEF ImportInv, PaymentsNumbered
  <2> QED
    BY <1>1, <1>2, <2>1 DEF RowRight
<1>7. /\ Stays /\ PaymentsNumbered' /\ id \notin DOMAIN payments /\ id # 0
      /\ DOMAIN payments' = DOMAIN payments \cup {id} /\ payments'[id] = new
      /\ \A p \in DOMAIN payments : payments'[p] = payments[p]
  <2>1. new.of \in 0..Len(payments) /\ (new.of # 0 => ~new.deleted) /\ hashes \subseteq hashes'
    BY <1>1, <1>3, <1>6
  <2> QED
    BY <1>0, <1>1, <1>3, <2>1, RecordStays
<1>8. HashesBooked'
  <2>1. new.of \in 0..Len(payments) /\ (new.of # 0 => ~new.deleted)
    BY <1>3, <1>6
  <2> QED
    BY <1>1, <1>3, <2>1, ByHandKeepsHashes
<1>9. \A s \in Request : \A l \in Keys(s) :
        ~(s = r /\ l = k) => batches[s].rows[l].payment # row.payment
  BY <1>0, <1>6 DEF ImportInv, RowsApart
<1>10. RowRight(reversed)'
  <2>1. \A q \in DOMAIN payments' : payments'[q].of = row.payment <=> q = id
    BY <1>3, <1>6, <1>7
  <2>2. row.payment \in DOMAIN payments' /\ payments'[row.payment].source = row.hash
    BY <1>6, <1>7
  <2> QED
    BY <1>1, <1>4, <1>6, <1>7, <2>1, <2>2 DEF RowRight
<1>11. \A q \in DOMAIN payments' \ DOMAIN payments : payments'[q].of = row.payment
  BY <1>3, <1>7
<1>12. RowsRight' /\ RowsApart'
  BY <1>4, <1>5, <1>7, <1>9, <1>10, <1>11, RowSetRight
<1>13. SeenBooked'
  BY <1>1, CommitsSame, CommitsStay
<1> QED
  BY <1>7, <1>8, <1>12, <1>13 DEF ImportInv

LEMMA ByHandKeeps ==
  ASSUME ImportInv, NEW a, NEW amount, NEW day, NEW preferred,
         PaymentAdd(a, amount, day, preferred)
  PROVE  ImportInv'
<1>0. PICK new : new = Payment(a, amount, day, preferred, 0, NoSource)
  OBVIOUS
<1>1. Records(new) /\ hashes' = hashes /\ batches' = batches /\ commits' = commits
  BY <1>0 DEF PaymentAdd, Records, import
<1>2. DOMAIN new = PaymentFields /\ new.of = 0 /\ new.source = NoSource /\ ~new.deleted
  BY <1>0 DEF Payment, PaymentFields
<1>3. new.of \in 0..Len(payments)
  BY <1>2 DEF ImportInv, PaymentsNumbered
<1>4. /\ Stays /\ PaymentsNumbered'
      /\ DOMAIN payments' = DOMAIN payments \cup {Len(payments) + 1}
      /\ payments'[Len(payments) + 1] = new
  BY <1>1, <1>2, <1>3, RecordStays
<1>5. HashesBooked'
  BY <1>1, <1>2, <1>3, ByHandKeepsHashes
<1>6. \A q \in DOMAIN payments' \ DOMAIN payments : payments'[q].of = 0
  BY <1>2, <1>4
<1>7. RowsRight' /\ RowsApart'
  BY <1>1, <1>4, <1>6, BatchesSame, RowsStay
<1>8. SeenBooked'
  BY <1>1, CommitsSame, CommitsStay
<1> QED
  BY <1>4, <1>5, <1>7, <1>8 DEF ImportInv

LEMMA CorrectionKeeps ==
  ASSUME ImportInv, NEW p, NEW new, Corrects(p, new), hashes' = hashes, batches' = batches,
         commits' = commits
  PROVE  ImportInv'
<1>1. Stays /\ PaymentsNumbered' /\ HashesBooked' /\ DOMAIN payments' = DOMAIN payments
  BY CorrectionStays
<1>2. \A q \in DOMAIN payments' \ DOMAIN payments : payments'[q].of = 0
  BY <1>1
<1>3. RowsRight' /\ RowsApart'
  BY <1>1, <1>2, BatchesSame, RowsStay
<1>4. SeenBooked'
  BY CommitsSame, CommitsStay
<1> QED
  BY <1>1, <1>3, <1>4 DEF ImportInv

LEMMA MutableKeeps ==
  ASSUME ImportInv, NEW p \in DOMAIN payments, NEW deleted, NEW amount, NEW day,
         SetPaymentDeleted(p, deleted) \/ PaymentUpdate(p, amount, day)
  PROVE  ImportInv'
<1>1. /\ payments[p].source = NoSource /\ payments[p].of = 0
      /\ hashes' = hashes /\ batches' = batches /\ commits' = commits
  BY DEF SetPaymentDeleted, PaymentUpdate, MutablePayment, import
<1>2. DOMAIN payments[p] = PaymentFields
  BY DEF ImportInv, PaymentsNumbered
<1>3. CASE SetPaymentDeleted(p, deleted)
  <2>0. PICK new : new = [payments[p] EXCEPT !.deleted = deleted]
    OBVIOUS
  <2>1. DOMAIN new = PaymentFields /\ new.source = NoSource /\ new.of = 0
    BY <1>1, <1>2, <2>0 DEF PaymentFields
  <2>2. payments' = [payments EXCEPT ![p] = new]
    BY <1>3, <2>0 DEF SetPaymentDeleted
  <2>3. Corrects(p, new)
    BY <1>1, <2>1, <2>2 DEF Corrects
  <2> QED
    BY <1>1, <2>3, CorrectionKeeps
<1>4. CASE PaymentUpdate(p, amount, day)
  <2>0. PICK new : new = [payments[p] EXCEPT !.amount = amount, !.day = day]
    OBVIOUS
  <2>1. DOMAIN new = PaymentFields /\ new.source = NoSource /\ new.of = 0
    BY <1>1, <1>2, <2>0 DEF PaymentFields
  <2>2. payments' = [payments EXCEPT ![p] = new]
    BY <1>4, <2>0 DEF PaymentUpdate
  <2>3. Corrects(p, new)
    BY <1>1, <2>1, <2>2 DEF Corrects
  <2> QED
    BY <1>1, <2>3, CorrectionKeeps
<1> QED
  BY <1>3, <1>4

\* Steps that leave the hashes, the payments and the rows alone.
LEMMA QuietKeeps ==
  ASSUME ImportInv, hashes' = hashes, payments' = payments, RowsUntouched, SeenBooked'
  PROVE  ImportInv'
BY QuietStep DEF ImportInv

LEMMA SeenKeeps ==
  ASSUME ImportInv, NEW r \in Request, NEW file \in Statement, SeenPaymentHashes(r, file)
  PROVE  ImportInv'
<1>1. /\ hashes' = hashes /\ payments' = payments /\ batches' = batches
      /\ commits' = [commits EXCEPT ![r] =
           [pc |-> "seen", file |-> file, seen |-> Hashes(file) \cap hashes, at |-> 0]]
  BY DEF SeenPaymentHashes
<1>2. DOMAIN commits' = Request
      /\ \A s \in Request : s # r => commits'[s] = commits[s]
  BY <1>1 DEF ImportInv, SeenBooked
<1>3. /\ DOMAIN commits'[r] = {"pc", "file", "seen", "at"}
      /\ commits'[r].file = file /\ commits'[r].seen \subseteq hashes
  BY <1>1 DEF ImportInv, SeenBooked
<1>4. SeenBooked'
  BY <1>1, <1>2, <1>3 DEF ImportInv, SeenBooked
<1> QED
  BY <1>1, <1>4, BatchesSame, QuietKeeps

LEMMA EndsKeep ==
  ASSUME ImportInv, NEW r \in Request,
         RefuseRow(r) \/ FinishPaymentImportBatch(r) \/ AbortCommit(r)
  PROVE  ImportInv'
<1>1. hashes' = hashes /\ payments' = payments
  BY DEF RefuseRow, FinishPaymentImportBatch, AbortCommit
<1>2. \E pc \in {"skip", "done"} : commits' = [commits EXCEPT ![r].pc = pc]
  BY DEF RefuseRow, FinishPaymentImportBatch, AbortCommit
<1>3. CommitMoves
  BY <1>2 DEF ImportInv, SeenBooked, CommitMoves
<1>4. batches' = batches \/ \E mark : batches' = [batches EXCEPT ![r].status = mark]
  BY DEF RefuseRow, FinishPaymentImportBatch, AbortCommit
<1>5. RowsUntouched
  BY <1>4 DEF ImportInv, RowsRight, RowsUntouched, Keys
<1> QED
  BY <1>1, <1>3, <1>5, CommitsStay, QuietKeeps

LEMMA AroundKeep ==
  ASSUME ImportInv, hashes' = hashes, payments' = payments, batches' = batches,
         commits' = commits
  PROVE  ImportInv'
BY CommitsSame, CommitsStay, BatchesSame, QuietKeeps

LEMMA StoredRows ==
  ASSUME NEW x
  PROVE  x \in RowsStored <=> \E r \in Request : \E k \in Keys(r) : x = <<r, k>>
BY DEF RowsStored, Keys

LEMMA ImportSteps == ImportInv /\ [ImportNext]_importVars => ImportInv'
<1> SUFFICES ASSUME ImportInv, [ImportNext]_importVars PROVE ImportInv'
  OBVIOUS
<1>1. ASSUME NEW file \in Statement, SaveImportUpload(file) \/ PurgeUpload(file)
      PROVE  ImportInv'
  BY <1>1, AroundKeep DEF SaveImportUpload, PurgeUpload
<1>2. ASSUME NEW r \in Request, NEW file \in Statement, SeenPaymentHashes(r, file)
      PROVE  ImportInv'
  BY <1>2, SeenKeeps
<1>3. ASSUME NEW r \in Request, NEW i, CreatePaymentImportBatch(r, i)
      PROVE  ImportInv'
  BY <1>3, BatchKeeps
<1>4. ASSUME NEW r \in Request, BookRow(r) PROVE ImportInv'
  BY <1>4, BookKeeps
<1>5. ASSUME NEW r \in Request, FindDuplicate(r) PROVE ImportInv'
  <2>1. /\ batches' = Stored(r, commits[r].at, [RowAt(r) EXCEPT !.status = "duplicate"])
        /\ Advance(r) /\ RowAt(r).hash \in hashes /\ hashes' = hashes /\ payments' = payments
    BY <1>5 DEF FindDuplicate
  <2> QED
    BY <2>1, MarkKeeps
<1>6. ASSUME NEW r \in Request, MarkPaymentImportRowSkipped(r) PROVE ImportInv'
  <2>1. /\ batches' = Stored(r, commits[r].at, [RowAt(r) EXCEPT !.status = "skipped"])
        /\ Advance(r) /\ hashes' = hashes /\ payments' = payments
    BY <1>6 DEF MarkPaymentImportRowSkipped
  <2> QED
    BY <2>1, MarkKeeps
<1>7. ASSUME NEW r \in Request,
             RefuseRow(r) \/ FinishPaymentImportBatch(r) \/ AbortCommit(r)
      PROVE  ImportInv'
  BY <1>7, EndsKeep
<1>8. ASSUME NEW x \in RowsStored, ReverseImportedPayment(x[1], x[2]) PROVE ImportInv'
  <2>1. PICK r \in Request : \E k \in Keys(r) : x = <<r, k>>
    BY <1>8, StoredRows
  <2>2. PICK k \in Keys(r) : x = <<r, k>>
    BY <2>1
  <2>3. ReverseImportedPayment(r, k)
    BY <1>8, <2>2
  <2> QED
    BY <2>3, ReversalKeeps
<1>9. CASE Paying
  BY <1>9, ByHandKeeps, MutableKeeps DEF Paying
<1>10. CASE Documents
  BY <1>10, AroundKeep DEF Documents, IssueInvoice, StornoInvoice, GutschriftInvoice,
                           AnonymizePayer, import
<1>11. CASE UNCHANGED importVars
  BY <1>11, AroundKeep DEF importVars
<1>12. CASE Importing
  BY <1>1, <1>2, <1>3, <1>4, <1>5, <1>6, <1>7, <1>8, <1>12 DEF Importing
<1> QED
  BY <1>9, <1>10, <1>11, <1>12 DEF ImportNext

LEMMA ImportInvSays == ImportInv => ImportedOnce
<1> SUFFICES ASSUME ImportInv PROVE ImportedOnce
  OBVIOUS
<1>1. ASSUME NEW h, NEW p \in DOMAIN payments, payments[p].source = h, h # NoSource
      PROVE  BookedFrom(h) = {p}
  BY <1>1 DEF BookedFrom, ImportInv, HashesBooked
<1>2. \A h \in hashes : Cardinality(BookedFrom(h)) = 1
  <2>1. ASSUME NEW h \in hashes PROVE Cardinality(BookedFrom(h)) = 1
    <3>1. PICK p \in DOMAIN payments : payments[p].source = h
      BY DEF ImportInv, HashesBooked
    <3>2. h # NoSource
      BY DEF ImportInv, HashesBooked
    <3>3. BookedFrom(h) = {p}
      BY <1>1, <3>1, <3>2
    <3> QED
      BY <3>3, FS_Singleton
  <2> QED
    BY <2>1
<1>3. ASSUME NEW x \in RowsStored
      PROVE  /\ BatchRow(x).status \in {"booked", "duplicate", "reversed"}
                  => BatchRow(x).hash \in hashes
             /\ BatchRow(x).payment # 0
                  => BookedFrom(BatchRow(x).hash) = {BatchRow(x).payment}
             /\ BatchRow(x).status = "reversed"
                  => Reversals(BatchRow(x).payment) = {BatchRow(x).reversal}
  <2>1. PICK row : row = BatchRow(x)
    OBVIOUS
  <2>2. RowRight(row)
    <3>1. PICK r \in Request : \E k \in Keys(r) : x = <<r, k>>
      BY StoredRows
    <3>2. PICK k \in Keys(r) : x = <<r, k>>
      BY <3>1
    <3> QED
      BY <2>1, <3>2 DEF BatchRow, ImportInv, RowsRight
  <2>3. row.payment # 0 => BookedFrom(row.hash) = {row.payment}
    BY <1>1, <2>2 DEF RowRight
  <2>4. ASSUME row.status = "reversed" PROVE Reversals(row.payment) = {row.reversal}
    <3>1. /\ row.reversal \in DOMAIN payments /\ row.payment # 0
          /\ \A q \in DOMAIN payments : payments[q].of = row.payment <=> q = row.reversal
      BY <2>2, <2>4 DEF RowRight
    <3>2. ~payments[row.reversal].deleted
      BY <3>1 DEF ImportInv, PaymentsNumbered
    <3> QED
      BY <3>1, <3>2 DEF Reversals
  <2>5. row.status \in {"booked", "duplicate", "reversed"} => row.hash \in hashes
    BY <2>2 DEF RowRight
  <2> QED
    BY <2>1, <2>3, <2>4, <2>5
<1>4. \A p \in DOMAIN payments :
        payments[p].source # NoSource => payments[p].source \in hashes
  BY DEF ImportInv, HashesBooked
<1> QED
  BY <1>2, <1>3, <1>4, FilesAreWhole DEF ImportedOnce

\* However often a statement is uploaded, committed twice or cut short, a credit is booked
\* once and whole, and what a row says of its payment and its reversal is so (ImportPayment).
THEOREM CreditsBookedOnce == ImportSpec => []ImportedOnce
<1>1. ImportSpec => []ImportInv
  BY ImportStart, ImportSteps, PTL DEF ImportSpec
<1> QED
  BY <1>1, ImportInvSays, PTL
=============================================================================
