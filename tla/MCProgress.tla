----------------------------- MODULE MCProgress -----------------------------
(***************************************************************************)
(* What must happen in the end, for TLC: the mail outbox and the recurring *)
(* bookings under the fairness of their loops.  A behaviour asks about one *)
(* of them and leaves the other alone.                                     *)
(***************************************************************************)
EXTENDS MailOutbox, Recurring

VARIABLE question

\* Two months of one day; one billing year each.
ShortCalendar == <<1, 2, 3>>
YearOfDay == <<2025, 2026>>

MCInit ==
  /\ question \in {"mail", "rules"} /\ Init /\ SeriesInit
  /\ question = "rules" => owed = [m \in Mail |-> CHOOSE amount \in Message : TRUE]

MailNext == question = "mail" /\ Next /\ UNCHANGED <<question, seriesVars>>
RulesNext == question = "rules" /\ SeriesNext /\ UNCHANGED <<question, vars>>

MCSpec ==
  /\ MCInit /\ [][MailNext \/ RulesNext]_<<question, vars, seriesVars>>
  /\ Fairness
  /\ \A w \in Workers : WF_seriesVars(Tick(w))
=============================================================================
