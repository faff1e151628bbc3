--------------------------- MODULE MCRecurring ----------------------------
(* Instances of Recurring for TLC. *)
EXTENDS Recurring, TLC

\* Two months of two days and one day; one billing year each.
ShortCalendar == <<1, 3, 4>>
YearOfDay == [d \in 1 .. 3 |-> IF d < 3 THEN 2025 ELSE 2026]

\* Workers are interchangeable; only safety is checked with it.
WorkerSymmetry == Permutations(Workers)
=============================================================================
