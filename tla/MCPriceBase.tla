---------------------------- MODULE MCPriceBase ----------------------------
(* Instances of PriceBase for TLC. *)
EXTENDS PriceBase, TLC

CONSTANTS b1, b2, t1, l1, m1, g1, n1, e1

MCNeighborOf == [e \in Entry |-> n1]
MCOpening ==
  {b1 :> [Blank EXCEPT !.loads = l1 :> 2, !.tractors = t1 :> [ps |-> 3, active |-> TRUE],
          !.machines = m1 :> [width |-> 2, cost |-> 5, self |-> 0, active |-> TRUE],
          !.rigs = g1 :> [tractor |-> t1, load |-> l1, machines |-> {m1}]]}
MCSelection ==
  {[tractor |-> t1, load |-> l1, machines |-> {m1}],
   [tractor |-> Null, load |-> Null, machines |-> {m1}]}

\* Bounds: two changes or events in all, a rate list waits in the browser only while
\* no booking is at stake, a change of basis meets at most the first booking, and a form in flight
\* meets a recalculation or another event, not both.
Calm ==
  /\ list # Null => draft = Null /\ recalc = Null /\ entries = Nothing
  /\ form # Null => draft = Null \/ entries = Nothing
  /\ events + clock <= 2
  /\ draft # Null => recalc = Null \/ events = 0
MCRule == {<<2, 4>>}
============================================================================
