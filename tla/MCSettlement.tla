--------------------------- MODULE MCSettlement ---------------------------
(* Instances of Settlement for TLC. *)
EXTENDS Settlement

CONSTANTS n1, e1, k1, k2

\* The bookings are work of the first year.
MCAccountOf == [e \in Entry |-> <<1, n1>>]

\* A season in progress: the neighbor belongs to both years and every booking
\* was entered, at the first of the costs.
SeasonInit ==
  /\ status = [y \in Year |-> "in_progress"]
  /\ member = Account
  /\ anonymized = [n \in Neighbor |-> FALSE]
  /\ entries = [e \in Entry |-> [state |-> "live", cost |-> Min(Cost),
                                 voided |-> FALSE]]
  /\ docs = <<>> /\ stornos = {} /\ claims = {}
  /\ preview = [a \in Account |-> NoContent]
  /\ vatRate \in VatRate
  /\ today = 1
  /\ payments = <<>> /\ postings = {} /\ lastPosting = 0
  /\ carryPreview = [n \in Neighbor |-> NoCarry]

SeasonSpec == SeasonInit /\ [][SettlementNext]_allVars
===========================================================================
