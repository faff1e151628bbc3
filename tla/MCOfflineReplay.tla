-------------------------- MODULE MCOfflineReplay -----------------------------
(* Instances of OfflineReplay for TLC. *)
EXTENDS OfflineReplay, TLC

CONSTANTS wa, wb

\* A booking with its one helper, and a counterclaim.
Mixed ==
  [work : Works, helper : {"one"}, way : {"out"}]
    \cup {[work |-> wa, helper |-> "none", way |-> "in"]}

\* Tabs, users and keys are interchangeable; only safety uses it.
Symmetric == Permutations(Tabs) \cup Permutations(Users) \cup Permutations(Keys)
=============================================================================
