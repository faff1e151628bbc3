----------------------------- MODULE MCRestore ------------------------------
(***************************************************************************)
(* Keeping recovery points and restoring one, side by side for TLC: the    *)
(* gate and lease of a restore, and the backups it would be taken from.    *)
(* They share no state; a behaviour asks about one and leaves the other    *)
(* alone.                                                                  *)
(***************************************************************************)
EXTENDS RestoreGate, Backups, TLC

VARIABLE question

\* Instances are interchangeable, and so are goroutines; only safety uses it.
Symmetry == Permutations(Instances) \cup Permutations(Slots)

MCInit ==
  /\ question \in {"gate", "backups"} /\ Init /\ BackupsInit
  /\ question = "gate" => bucket = [i \in Archives |-> Nothing]
  \* A dump the bucket does not have is the second one, too.
  /\ question = "backups" => bucket[1] # Nothing

\* Bound: a lost session or a process that ends, not both.
GateNext == question = "gate" /\ Next /\ spent'.losses + spent'.stops <= 1 /\ UNCHANGED backupVars
\* Bound: the last tick of the clock without a fault or without an operator's run.
BackupNext ==
  /\ question = "backups" /\ BackupsNext /\ UNCHANGED vars
  /\ now' + faults' + runs' <= MaxTime + 1

MCSpec ==
  MCInit /\ [][(GateNext \/ BackupNext) /\ UNCHANGED question]_<<question, vars, backupVars>>
=============================================================================
