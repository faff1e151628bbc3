---------------------------- MODULE MCOperations ----------------------------
(***************************************************************************)
(* The three parts that retry on their own, side by side for TLC: the      *)
(* recurring bookings, the mail outbox and the import of bank statements.  *)
(* They share no state; a behaviour asks about one of them and leaves the  *)
(* others alone.                                                           *)
(***************************************************************************)
EXTENDS Recurring, MailOutbox, PaymentImport

CONSTANTS c1, c2

VARIABLE question

\* Two months of two days and one day; one billing year each.
ShortCalendar == <<1, 3, 4>>
YearOfDay == <<2025, 2025, 2026>>

y1 == <<1, "n">>
y2 == <<2, "n">>
MCAccountOf == <<y1, y1, y2>>
MCGross == <<100, 50, -20>>
\* Credit c1 names the second invoice, c2 is known by its IBAN alone.
MCReference == (c1 :> 2) @@ (c2 :> 0)
MCPayers == (c1 :> {"n"}) @@ (c2 :> {"n"})
MCLedger == (y1 :> -30) @@ (y2 :> 30)
MCStandalone == (y1 :> 0) @@ (y2 :> -10)
MCStatement == {"csv", "camt"}
MCOpening == {<<"issued", "issued", "planned">>}

Line(side, currency, amount, ref, details) ==
  [side |-> side, currency |-> currency, amount |-> amount, bankRef |-> ref,
   details |-> details]
Detail(t, amount) == [txn |-> t, amount |-> amount]
\* Two equal credits; the same movement and a batch beside movements the import
\* leaves out, among them a batch that does not state every amount.
MCContent ==
  [csv |-> [format |-> "csv",
            entries |-> <<Line("credit", "other", 40, "", <<Detail(c1, 0)>>),
                          Line("debit", "EUR", 40, "", <<Detail(c1, 0)>>),
                          Line("credit", "EUR", 40, "", <<Detail(c1, 0)>>)>>],
   camt |-> [format |-> "camt",
             entries |-> <<Line("credit", "other", 40, "", <<Detail(c1, 0)>>),
                           Line("credit", "EUR", 40, "", <<Detail(c1, 0)>>),
                           Line("credit", "EUR", 99, "y", <<Detail(c1, 29), Detail(c2, 0)>>),
                           Line("credit", "EUR", 80, "z", <<Detail(c2, 70), Detail(c1, 10)>>)>>]]

\* Workers, senders and commits, all the same two, are interchangeable; only safety
\* is checked here.
Symmetry == Permutations(Workers)

MCInit ==
  /\ question \in {"rules", "mail", "bank"}
  /\ SeriesInit /\ Init /\ ImportInit
  /\ question # "mail" => owed = [m \in Mail |-> CHOOSE amount \in Message : TRUE]

\* Bound: the operator acts twice, or once beside a fault.
RulesNext ==
  question = "rules" /\ SeriesNext /\ ops' + faults' <= 2 /\ UNCHANGED <<vars, importVars>>
MailNext == question = "mail" /\ Next /\ UNCHANGED <<seriesVars, importVars>>
BankNext == question = "bank" /\ ImportNext /\ UNCHANGED <<seriesVars, vars>>

MCSpec ==
  MCInit /\ [][(RulesNext \/ MailNext \/ BankNext) /\ UNCHANGED question]_<<
    question, seriesVars, vars, importVars>>

\* The planner takes every reachable account and spreads every cent (PaymentImport).
AllocationAddsUp == question = "bank" => AllocationBalances
=============================================================================
