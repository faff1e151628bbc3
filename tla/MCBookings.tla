----------------------------- MODULE MCBookings -----------------------------
(***************************************************************************)
(* Bookings on their way in, and what they leave about a person, side by   *)
(* side for TLC: the pages, queue and retries of one browser, and the      *)
(* erasure of one neighbor under the requests that still write.  They      *)
(* share no state; a behaviour asks about one and leaves the other alone.  *)
(***************************************************************************)
EXTENDS PersonalData, MCOfflineReplay

VARIABLE question

MCInit ==
  /\ question \in {"person", "queue"} /\ Init /\ ReplayInit
  /\ books.works = IF question = "person" THEN {} ELSE {wa}

\* Bound: a booking whose text was edited meets two requests, not three.
PersonNext ==
  /\ question = "person" /\ Next /\ UNCHANGED replayVars
  /\ begun' <= 2 \/ \A b \in Booking : bookings'[b].text <= 1
QueueNext == question = "queue" /\ ReplayNext /\ UNCHANGED vars

MCSpec ==
  MCInit /\ [][(PersonNext \/ QueueNext) /\ UNCHANGED question]_<<question, vars, replayVars>>
=============================================================================
