------------------------- MODULE RestoreGateProofs -------------------------
(***************************************************************************)
(* What RestoreGate promises, for every set of instances and goroutines,   *)
(* every number of lost sessions, restores and stops; and what Backups     *)
(* promises, for every set of schedulers, operators and archives.          *)
(***************************************************************************)
EXTENDS RestoreGate, Backups, SumProofs, FiniteSetTheorems, TLAPS

(* From the flag it won until it gave the flag back a restore owns its     *)
(* process; the steps that hold the activity lock; the process is drained. *)
Owner   == {"drain", "lock"} \cup Swap \cup {"clear", "store"}
Drained == {"lock"} \cup Swap

(* What holds inside one process, whatever the others do.                  *)
OneOwner(i) == \A s, t \in Slots :
  pc[i][s] \in Owner /\ pc[i][t] \in Owner => s = t
OwnerFlagged(i) == \A s \in Slots : pc[i][s] \in Owner => maintenance[i]
SwapLocked(i) == \A s \in Slots : pc[i][s] \in Swap => writer[i] = s
LockExcludes(i) == writer[i] # None => readers[i] = {}
InsideReads(i) == \A s \in Slots :
  pc[i][s] \in {"admitted", "working"} => s \in readers[i]
TasksAwaited(i) == \A s, t \in Slots :
  pc[i][s] = "drain" /\ pc[i][t] = "task" => t \in awaited[i]
NoTaskLeft(i) == \A s, t \in Slots : pc[i][s] \in Drained => pc[i][t] # "task"

Local(i) == OneOwner(i) /\ OwnerFlagged(i) /\ SwapLocked(i) /\ LockExcludes(i)
            /\ InsideReads(i) /\ TasksAwaited(i) /\ NoTaskLeft(i)

GateInv == TypeOK /\ \A i \in Instances : Local(i)

(* A process none of whose state a step touches.                           *)
Untouched(i) ==
  /\ pc'[i] = pc[i] /\ maintenance'[i] = maintenance[i]
  /\ writer'[i] = writer[i] /\ readers'[i] = readers[i] /\ awaited'[i] = awaited[i]

OnlyAt(i) == \A j \in Instances : j # i => Untouched(j)

LEMMA UntouchedKeeps ==
  ASSUME NEW i \in Instances, Local(i), Untouched(i)
  PROVE  Local(i)'
BY DEF Local, Untouched, OneOwner, OwnerFlagged, SwapLocked, LockExcludes,
       InsideReads, TasksAwaited, NoTaskLeft

-----------------------------------------------------------------------------
LEMMA InitTyped == Init => TypeOK
BY BoundsNat DEF Init, TypeOK, Runs, Pcs, Gate, Restoring, Swap, Reopening, CliPcs, Schemas, Mails

(* The used bounds stay a row of three counters and a mark.                *)
Spending == [losses : Nat, restores : Nat, stops : Nat, overrun : BOOLEAN]

LEMMA SpendingCounts ==
  ASSUME NEW r \in Spending, NEW b \in BOOLEAN
  PROVE  /\ [r EXCEPT !.losses = @ + 1] \in Spending
         /\ [r EXCEPT !.restores = @ + 1] \in Spending
         /\ [r EXCEPT !.stops = @ + 1] \in Spending
         /\ [r EXCEPT !.overrun = @ \/ b] \in Spending
<1>1. r.losses + 1 \in Nat /\ r.restores + 1 \in Nat /\ r.stops + 1 \in Nat
  BY DEF Spending
<1>2. (r.overrun \/ b) \in BOOLEAN
  OBVIOUS
<1>3. \A n \in Nat : [r EXCEPT !.losses = n] \in Spending
                   /\ [r EXCEPT !.restores = n] \in Spending
                   /\ [r EXCEPT !.stops = n] \in Spending
  BY DEF Spending
<1>4. \A c \in BOOLEAN : [r EXCEPT !.overrun = c] \in Spending
  BY DEF Spending
<1> QED BY <1>1, <1>2, <1>3, <1>4

LEMMA SpentTyped ==
  ASSUME TypeOK,
         \/ spent' = spent
         \/ spent' = [spent EXCEPT !.losses = @ + 1]
         \/ spent' = [spent EXCEPT !.restores = @ + 1]
         \/ spent' = [spent EXCEPT !.stops = @ + 1]
         \/ \E b \in BOOLEAN : spent' = [spent EXCEPT !.overrun = @ \/ b]
  PROVE  spent' \in Spending
<1>1. spent \in Spending
  BY DEF TypeOK, Spending
<1> QED BY <1>1, SpendingCounts

(* A set of goroutines gains or loses some.                                *)
LEMMA SetsTyped ==
  ASSUME NEW f \in [Instances -> SUBSET Slots], NEW i \in Instances, NEW s \in Slots
  PROVE  /\ [f EXCEPT ![i] = @ \cup {s}] \in [Instances -> SUBSET Slots]
         /\ [f EXCEPT ![i] = @ \ {s}] \in [Instances -> SUBSET Slots]
         /\ [f EXCEPT ![i] = {}] \in [Instances -> SUBSET Slots]
<1>1. f[i] \cup {s} \in SUBSET Slots /\ f[i] \ {s} \in SUBSET Slots
  OBVIOUS
<1> QED BY <1>1

(* A goroutine moves from one place to another.                            *)
Moves(i, s) == \E to \in Pcs : pc' = [pc EXCEPT ![i][s] = to]

LEMMA MovesTyped ==
  ASSUME TypeOK, NEW i \in Instances, NEW s \in Slots, Moves(i, s)
  PROVE  pc' \in [Instances -> [Slots -> Pcs]]
<1>1. PICK to \in Pcs : pc' = [pc EXCEPT ![i][s] = to]
  BY DEF Moves
<1>2. pc \in [Instances -> [Slots -> Pcs]]
  BY DEF TypeOK
<1>3. [pc[i] EXCEPT ![s] = to] \in [Slots -> Pcs]
  BY <1>2
<1> QED BY <1>1, <1>2, <1>3

LEMMA ArrivalMoves ==
  ASSUME TypeOK, NEW i \in Instances, NEW s \in Slots,
         RequestArrives(i, s) \/ TaskStarts(i, s) \/ BeginRestore(i, s)
  PROVE  Moves(i, s)
<1>1. "gated" \in Pcs /\ "checked" \in Pcs /\ "drain" \in Pcs
  BY DEF Pcs, Gate, Restoring
<1> QED BY <1>1 DEF Moves, RequestArrives, TaskStarts, BeginRestore, Goes

LEMMA JobMoves ==
  ASSUME TypeOK, NEW i \in Instances, NEW s \in Slots, JobStep(i, s)
  PROVE  Moves(i, s)
<1>1. {"idle", "admitted", "working", "task"} \subseteq Pcs
  BY DEF Pcs, Gate
<1>2. CASE MaintenanceActive(i)
  BY <1>1, <1>2 DEF Moves, JobStep, AdmitReader, MaintenanceGate, RequestEnds, BackgroundTask, TaskEnds,
       Goes, Admits
<1>3. CASE ~MaintenanceActive(i)
  BY <1>1, <1>3 DEF Moves, JobStep, AdmitReader, MaintenanceGate, RequestEnds, BackgroundTask, TaskEnds,
       Goes
<1> QED BY <1>2, <1>3

LEMMA RestoreMoves ==
  ASSUME TypeOK, NEW i \in Instances, NEW s \in Slots, RestoreStep(i, s)
  PROVE  Moves(i, s)
<1>1. {"idle"} \cup Restoring \subseteq Pcs
  BY DEF Pcs, Gate
<1>2. {"idle", "lock", "clear", "store", "recheck", "locked", "exclusive",
       "loaded", "migrated", "held", "finishing"} \subseteq Pcs
  BY <1>1 DEF Restoring, Swap, Reopening
<1>3. CASE CancelBackground(i, s) \/ TryLockActivity(i, s) \/ DrainTimesOut(i, s)
  BY <1>2, <1>3 DEF Moves, CancelBackground, TryLockActivity, DrainTimesOut, Goes
<1>4. CASE Exclusive(i, s)
  BY <1>2, <1>4 DEF Moves, Exclusive
<1>5. CASE RestoreRaw(i, s)
  BY <1>2, <1>5 DEF Moves, RestoreRaw
<1>6. CASE ReconcileAfterRestore(i, s)
  BY <1>2, <1>6 DEF Moves, ReconcileAfterRestore, Goes
<1>7. CASE FinishRestored(i, s) \/ FinishFailed(i, s)
  BY <1>2, <1>7 DEF Moves, FinishRestored, FinishFailed, Goes
<1>8. CASE ClearLooks(i, s) \/ ClearStores(i, s) \/ ClearRechecks(i, s)
  BY <1>2, <1>8 DEF Moves, ClearLooks, ClearStores, ClearRechecks, Goes
<1> QED BY <1>3, <1>4, <1>5, <1>6, <1>7, <1>8 DEF RestoreStep

LEMMA ArrivalTyped ==
  ASSUME TypeOK, NEW i \in Instances, NEW s \in Slots,
         RequestArrives(i, s) \/ TaskStarts(i, s) \/ ProcessMailOutbox(i, s) \/ BeginRestore(i, s)
  PROVE  TypeOK'
<1>1. pc' \in [Instances -> [Slots -> Pcs]]
  BY ArrivalMoves, MovesTyped DEF ProcessMailOutbox, TypeOK
<1>2. CASE BeginRestore(i, s)
  <2>1. readers' \in [Instances -> SUBSET Slots]
    BY <1>2, SetsTyped DEF BeginRestore, TypeOK
  <2>2. awaited' \in [Instances -> SUBSET Slots]
    BY <1>2, SetsTyped DEF BeginRestore, TypeOK, Registered
  <2> QED BY <1>1, <1>2, <2>1, <2>2 DEF TypeOK, BeginRestore, flags, lease, locks
<1>3. CASE ~BeginRestore(i, s)
  BY <1>1, <1>3 DEF TypeOK, RequestArrives, TaskStarts, ProcessMailOutbox, flags, lease, locks, Mails
<1> QED BY <1>2, <1>3

LEMMA JobTyped ==
  ASSUME TypeOK, NEW i \in Instances, NEW s \in Slots, JobStep(i, s)
  PROVE  TypeOK'
<1>1. pc' \in [Instances -> [Slots -> Pcs]]
  BY JobMoves, MovesTyped
<1>2. CASE AdmitReader(i, s) \/ MaintenanceGate(i, s)
  <2>1. readers' \in [Instances -> SUBSET Slots]
    <3>1. readers \in [Instances -> SUBSET Slots]
      BY DEF TypeOK
    <3> QED BY <1>2, <3>1, SetsTyped DEF AdmitReader, MaintenanceGate
  <2>2. UNCHANGED <<lease, run, flags, writer, awaited, cli, db, spent>>
    BY <1>2 DEF AdmitReader, MaintenanceGate
  <2> QED BY <1>1, <2>1, <2>2 DEF TypeOK, flags, lease
<1>3. CASE RequestEnds(i, s)
  <2>1. db' \in [schema : Schemas, mail : Mails]
    BY <1>3 DEF RequestEnds, TypeOK, Mails
  <2> QED BY <1>1, <1>3, <2>1 DEF TypeOK, RequestEnds, flags, lease, locks
<1>4. CASE BackgroundTask(i, s) \/ TaskEnds(i, s)
  <2>1. awaited' \in [Instances -> SUBSET Slots]
    <3>1. awaited \in [Instances -> SUBSET Slots]
      BY DEF TypeOK
    <3> QED BY <1>4, <3>1, SetsTyped DEF BackgroundTask, TaskEnds
  <2>2. UNCHANGED <<lease, run, flags, locks, cli, db, spent>>
    BY <1>4 DEF BackgroundTask, TaskEnds
  <2> QED BY <1>1, <2>1, <2>2 DEF TypeOK, flags, lease, locks
<1> QED BY <1>2, <1>3, <1>4 DEF JobStep

LEMMA RestoreTyped ==
  ASSUME TypeOK, NEW i \in Instances, NEW s \in Slots, RestoreStep(i, s)
  PROVE  TypeOK'
<1>1. pc' \in [Instances -> [Slots -> Pcs]]
  BY RestoreMoves, MovesTyped
<1>2. CASE CancelBackground(i, s) \/ TryLockActivity(i, s) \/ DrainTimesOut(i, s)
  <2>1. awaited' \in [Instances -> SUBSET Slots]
    BY <1>2, SetsTyped DEF CancelBackground, TryLockActivity, DrainTimesOut, TypeOK
  <2>2. writer' \in [Instances -> Slots \cup {None}]
    BY <1>2 DEF CancelBackground, TryLockActivity, DrainTimesOut, locks, TypeOK
  <2>3. UNCHANGED <<lease, run, flags, readers, cli, db, spent>>
    BY <1>2 DEF CancelBackground, TryLockActivity, DrainTimesOut, locks
  <2> QED BY <1>1, <2>1, <2>2, <2>3 DEF TypeOK, flags, lease
<1>3. CASE Exclusive(i, s)
  BY <1>1, <1>3 DEF TypeOK, Exclusive, flags, lease, locks
<1>4. CASE RestoreRaw(i, s)
  <2>1. spent' \in Spending
    BY <1>4, SpentTyped DEF RestoreRaw
  <2>2. db' \in [schema : Schemas, mail : Mails]
    BY <1>4 DEF RestoreRaw, Loaded, TypeOK, Mails
  <2> QED BY <1>1, <1>4, <2>1, <2>2 DEF Spending, TypeOK, RestoreRaw, flags, lease, locks
<1>5. CASE ReconcileAfterRestore(i, s)
  <2>1. db' \in [schema : Schemas, mail : Mails]
    BY <1>5 DEF ReconcileAfterRestore, Migrated, HeldOutbox, TypeOK, Schemas, Mails
  <2> QED BY <1>1, <1>5, <2>1 DEF TypeOK, ReconcileAfterRestore, flags, lease, locks
<1>6. CASE FinishRestored(i, s) \/ FinishFailed(i, s)
  BY <1>1, <1>6 DEF TypeOK, FinishRestored, FinishFailed, flags, lease, locks
<1>7. CASE ClearLooks(i, s)
  BY <1>1, <1>7 DEF TypeOK, ClearLooks, Unlocked, flags, lease, locks
<1>8. CASE ClearStores(i, s)
  BY <1>1, <1>8 DEF TypeOK, ClearStores, flags, lease, locks
<1>9. CASE ClearRechecks(i, s)
  <2>1. (maintenance[i] \/ leaseLost[i]) \in BOOLEAN
    BY DEF TypeOK
  <2> QED BY <1>1, <1>9, <2>1 DEF TypeOK, ClearRechecks, Unlocked, flags, lease, locks
<1> QED BY <1>2, <1>3, <1>4, <1>5, <1>6, <1>7, <1>8, <1>9 DEF RestoreStep

LEMMA ProcessTyped ==
  ASSUME TypeOK, NEW i \in Instances,
         \/ AcquireApplicationLease(i) \/ BootMigrate(i) \/ Monitor(i)
         \/ BeginShutdown(i) \/ DrainAndStop(i) \/ Exit(i) \/ Crash(i)
  PROVE  TypeOK'
<1>1. CASE AcquireApplicationLease(i) \/ BootMigrate(i) \/ Monitor(i)
  BY <1>1 DEF TypeOK, AcquireApplicationLease, BootMigrate, Monitor, flags, lease, locks, Runs, Schemas
<1>2. CASE BeginShutdown(i) \/ DrainAndStop(i)
  <2>1. spent' \in Spending
    BY <1>2, SpentTyped DEF BeginShutdown, DrainAndStop
  <2> QED BY ZenonT(50), <1>2, <2>1 DEF Spending, TypeOK, BeginShutdown, DrainAndStop, flags, lease, locks, Runs
<1>3. CASE Exit(i) \/ Crash(i)
  <2>1. spent' \in Spending
    BY <1>3, SpentTyped DEF Exit, Crash
  <2>2. /\ shared' \in SUBSET Instances
        /\ exclusive' \in Instances \cup {Cli, None}
        /\ run' \in [Instances -> Runs]
    BY <1>3 DEF TypeOK, Exit, Crash, Gone, Runs
  <2>3. /\ maintenance' \in [Instances -> BOOLEAN]
        /\ leaseLost' \in [Instances -> BOOLEAN]
        /\ draining' \in [Instances -> BOOLEAN]
    BY <1>3 DEF TypeOK, Exit, Crash, Gone
  <2>4. /\ readers' \in [Instances -> SUBSET Slots]
        /\ writer' \in [Instances -> Slots \cup {None}]
        /\ awaited' \in [Instances -> SUBSET Slots]
    BY <1>3 DEF TypeOK, Exit, Crash, Gone
  <2>5. pc' \in [Instances -> [Slots -> Pcs]]
    <3>1. [s \in Slots |-> "idle"] \in [Slots -> Pcs]
      BY DEF Pcs, Gate
    <3> QED BY <1>3, <3>1 DEF TypeOK, Exit, Crash, Gone
  <2> QED BY <1>3, <2>1, <2>2, <2>3, <2>4, <2>5 DEF Spending, TypeOK, Exit, Crash
<1> QED BY <1>1, <1>2, <1>3

LEMMA OutsideTyped ==
  ASSUME TypeOK,
         \/ \E p \in Instances \cup {Cli} : LoseSession(p)
         \/ AcquireOfflineRestoreLease \/ CliRestore \/ CliReconcile \/ CliEnds
  PROVE  TypeOK'
<1>1. spent' \in Spending
  BY SpentTyped DEF LoseSession, AcquireOfflineRestoreLease, CliRestore, CliReconcile, CliEnds
<1> QED BY <1>1 DEF Spending, TypeOK, LoseSession, AcquireOfflineRestoreLease, CliRestore, CliReconcile,
     CliEnds,
       Loaded, Migrated, HeldOutbox, Schemas, Mails, CliPcs, flags, lease, locks

LEMMA StepTyped == TypeOK /\ [Next]_vars => TypeOK'
<1> SUFFICES ASSUME TypeOK, [Next]_vars PROVE TypeOK' OBVIOUS
<1>1. CASE UNCHANGED vars BY <1>1 DEF TypeOK, vars
<1>2. CASE Next
  BY <1>2, ArrivalTyped, JobTyped, RestoreTyped, ProcessTyped, OutsideTyped DEF Next
<1> QED BY <1>1, <1>2

(* Every variable of the gate holds what it may hold: the lease and the    *)
(* locks name sessions and goroutines, and every process and goroutine is  *)
(* at one of its places (db/maintenance.go, server.go).                    *)
THEOREM TypeCorrect == Spec => []TypeOK
BY InitTyped, StepTyped, PTL DEF Spec

-----------------------------------------------------------------------------
(* A step of one process leaves every other process alone.                 *)
LEMMA MovesOnlyHere ==
  ASSUME TypeOK, NEW i \in Instances, NEW s \in Slots, Moves(i, s)
  PROVE  /\ \A j \in Instances : j # i => pc'[j] = pc[j]
         /\ \A t \in Slots : t # s => pc'[i][t] = pc[i][t]
BY DEF Moves, TypeOK

LEMMA ArrivalElsewhere ==
  ASSUME TypeOK, NEW i \in Instances, NEW s \in Slots,
         RequestArrives(i, s) \/ TaskStarts(i, s) \/ ProcessMailOutbox(i, s) \/ BeginRestore(i, s)
  PROVE  OnlyAt(i)
<1>1. \A j \in Instances : j # i => pc'[j] = pc[j]
  BY ArrivalMoves, MovesOnlyHere DEF ProcessMailOutbox
<1> QED BY <1>1 DEF OnlyAt, Untouched, TypeOK, RequestArrives, TaskStarts, ProcessMailOutbox,
     BeginRestore, flags, lease, locks

LEMMA JobElsewhere ==
  ASSUME TypeOK, NEW i \in Instances, NEW s \in Slots, JobStep(i, s)
  PROVE  OnlyAt(i)
<1>1. \A j \in Instances : j # i => pc'[j] = pc[j]
  BY JobMoves, MovesOnlyHere
<1> QED BY <1>1 DEF OnlyAt, Untouched, TypeOK, JobStep, AdmitReader, MaintenanceGate, RequestEnds,
     BackgroundTask, TaskEnds, flags, lease, locks

LEMMA RestoreElsewhere ==
  ASSUME TypeOK, NEW i \in Instances, NEW s \in Slots, RestoreStep(i, s)
  PROVE  OnlyAt(i)
<1>1. \A j \in Instances : j # i => pc'[j] = pc[j]
  BY RestoreMoves, MovesOnlyHere
<1>2. CASE CancelBackground(i, s) \/ TryLockActivity(i, s) \/ DrainTimesOut(i, s)
  BY <1>1, <1>2 DEF OnlyAt, Untouched, TypeOK, CancelBackground, TryLockActivity, DrainTimesOut, flags,
       locks
<1>3. CASE Exclusive(i, s) \/ RestoreRaw(i, s) \/ ReconcileAfterRestore(i, s)
  BY <1>1, <1>3 DEF OnlyAt, Untouched, TypeOK, Exclusive, RestoreRaw, ReconcileAfterRestore, flags, locks
<1>4. CASE FinishRestored(i, s) \/ FinishFailed(i, s)
  BY <1>1, <1>4 DEF OnlyAt, Untouched, TypeOK, FinishRestored, FinishFailed, flags, locks
<1>5. CASE ClearLooks(i, s) \/ ClearStores(i, s) \/ ClearRechecks(i, s)
  BY <1>1, <1>5 DEF OnlyAt, Untouched, TypeOK, ClearLooks, ClearStores, ClearRechecks, Unlocked, flags,
       locks
<1> QED BY <1>2, <1>3, <1>4, <1>5 DEF RestoreStep

LEMMA ProcessElsewhere ==
  ASSUME TypeOK, NEW i \in Instances,
         \/ AcquireApplicationLease(i) \/ BootMigrate(i) \/ Monitor(i)
         \/ BeginShutdown(i) \/ DrainAndStop(i) \/ Exit(i) \/ Crash(i)
  PROVE  OnlyAt(i)
BY DEF OnlyAt, Untouched, TypeOK, AcquireApplicationLease, BootMigrate, Monitor, BeginShutdown,
       DrainAndStop, Exit, Crash, Gone, flags, lease, locks

LEMMA OutsideElsewhere ==
  ASSUME TypeOK, NEW i \in Instances,
         \/ \E p \in Instances \cup {Cli} : LoseSession(p)
         \/ AcquireOfflineRestoreLease \/ CliRestore \/ CliReconcile \/ CliEnds
  PROVE  Untouched(i)
BY DEF Untouched, LoseSession, AcquireOfflineRestoreLease, CliRestore, CliReconcile, CliEnds, flags,
     lease, locks

-----------------------------------------------------------------------------
(* Inside the process that steps.                                          *)
LEMMA ArrivalKeeps ==
  ASSUME TypeOK, NEW i \in Instances, NEW s \in Slots, Local(i),
         RequestArrives(i, s) \/ TaskStarts(i, s) \/ ProcessMailOutbox(i, s)
  PROVE  Local(i)'
<1>1. UNCHANGED <<maintenance, writer, readers, awaited>>
  BY DEF RequestArrives, TaskStarts, ProcessMailOutbox, flags, locks
<1>2. \A t \in Slots : pc'[i][t] = pc[i][t] \/ pc'[i][t] \in {"gated", "checked"}
  BY DEF RequestArrives, TaskStarts, ProcessMailOutbox, Goes, TypeOK
<1> QED BY <1>1, <1>2 DEF Local, OneOwner, OwnerFlagged, SwapLocked, LockExcludes,
       InsideReads, TasksAwaited, NoTaskLeft, Owner, Drained, Swap

LEMMA BeginKeeps ==
  ASSUME TypeOK, NEW i \in Instances, NEW s \in Slots, Local(i), BeginRestore(i, s)
  PROVE  Local(i)'
<1>1. /\ pc'[i][s] = "drain" /\ \A t \in Slots : t # s => pc'[i][t] = pc[i][t]
  BY DEF BeginRestore, Goes, TypeOK
<1>2. /\ maintenance'[i] = TRUE /\ maintenance[i] = FALSE /\ writer' = writer
      /\ readers'[i] = readers[i] \ {s} /\ awaited'[i] = Registered(i)
  BY DEF BeginRestore, TypeOK
<1>3. \A t \in Slots : pc[i][t] \notin Owner
  BY <1>2 DEF Local, OwnerFlagged
<1> QED BY <1>1, <1>2, <1>3 DEF Local, OneOwner, OwnerFlagged, SwapLocked, LockExcludes,
       InsideReads, TasksAwaited, NoTaskLeft, Owner, Drained, Swap, Registered

(* One goroutine steps to its next place, the others of its process stay.  *)
Steps(i, s, to) == pc'[i][s] = to /\ \A t \in Slots : t # s => pc'[i][t] = pc[i][t]

LEMMA JobKeeps ==
  ASSUME TypeOK, NEW i \in Instances, NEW s \in Slots, Local(i), JobStep(i, s)
  PROVE  Local(i)'
<1> USE DEF Local, OneOwner, OwnerFlagged, SwapLocked, LockExcludes,
        InsideReads, TasksAwaited, NoTaskLeft, Owner, Drained, Swap
<1>1. CASE AdmitReader(i, s)
  <2>1. Steps(i, s, "admitted")
    BY <1>1 DEF AdmitReader, Goes, TypeOK, Steps
  <2>2. /\ writer[i] = None /\ readers'[i] = readers[i] \cup {s}
        /\ UNCHANGED <<maintenance, writer, awaited>>
    BY <1>1 DEF AdmitReader, flags, TypeOK
  <2> QED BY <2>1, <2>2 DEF Steps
<1>2. CASE MaintenanceGate(i, s)
  <2>1. /\ pc[i][s] = "admitted" /\ UNCHANGED <<maintenance, writer, awaited>>
    BY <1>2 DEF MaintenanceGate, flags
  <2>2. \/ Steps(i, s, "idle") /\ readers'[i] = readers[i] \ {s}
        \/ Steps(i, s, "working") /\ readers' = readers
    <3>1. CASE MaintenanceActive(i)
      BY <1>2, <3>1 DEF MaintenanceGate, TypeOK, Steps
    <3>2. CASE ~MaintenanceActive(i)
      BY <1>2, <3>2 DEF MaintenanceGate, TypeOK, Steps
    <3> QED BY <3>1, <3>2
  <2> QED BY <2>1, <2>2 DEF Steps
<1>3. CASE RequestEnds(i, s)
  <2>1. Steps(i, s, "idle")
    BY <1>3 DEF RequestEnds, Goes, TypeOK, Steps
  <2>2. readers'[i] = readers[i] \ {s} /\ UNCHANGED <<maintenance, writer, awaited>>
    BY <1>3 DEF RequestEnds, flags, TypeOK
  <2> QED BY <2>1, <2>2 DEF Steps
<1>4. CASE BackgroundTask(i, s)
  <2>1. UNCHANGED <<maintenance, writer, readers, awaited>>
    BY <1>4 DEF BackgroundTask, flags, locks
  <2>2. \/ Steps(i, s, "idle")
        \/ Steps(i, s, "task") /\ ~maintenance[i]
    <3>1. CASE Admits(i)
      BY <1>4, <3>1 DEF BackgroundTask, TypeOK, Steps, Admits, MaintenanceActive
    <3>2. CASE ~Admits(i)
      BY <1>4, <3>2 DEF BackgroundTask, TypeOK, Steps
    <3> QED BY <3>1, <3>2
  <2> QED BY <2>1, <2>2 DEF Steps
<1>5. CASE TaskEnds(i, s)
  <2>1. Steps(i, s, "idle")
    BY <1>5 DEF TaskEnds, Goes, TypeOK, Steps
  <2>2. awaited'[i] = awaited[i] \ {s} /\ UNCHANGED <<maintenance, writer, readers>>
    BY <1>5 DEF TaskEnds, flags, locks, TypeOK
  <2> QED BY <2>1, <2>2 DEF Steps
<1> QED BY <1>1, <1>2, <1>3, <1>4, <1>5 DEF JobStep

LEMMA DrainKeeps ==
  ASSUME TypeOK, NEW i \in Instances, NEW s \in Slots, Local(i),
         CancelBackground(i, s) \/ TryLockActivity(i, s) \/ DrainTimesOut(i, s)
  PROVE  Local(i)'
<1> USE DEF Local, OneOwner, OwnerFlagged, SwapLocked, LockExcludes,
        InsideReads, TasksAwaited, NoTaskLeft, Owner, Drained, Swap
<1>1. CASE CancelBackground(i, s)
  <2>1. /\ pc[i][s] = "drain" /\ Steps(i, s, "lock") /\ awaited[i] = {}
        /\ UNCHANGED <<maintenance, writer, readers, awaited>>
    BY <1>1 DEF CancelBackground, Goes, TypeOK, Steps, flags, locks
  <2> QED BY <2>1 DEF Steps
<1>2. CASE TryLockActivity(i, s)
  <2>1. /\ pc[i][s] = "lock" /\ Steps(i, s, "locked")
        /\ readers[i] = {} /\ writer'[i] = s
        /\ UNCHANGED <<maintenance, readers, awaited>>
    BY <1>2 DEF TryLockActivity, Goes, TypeOK, Steps, flags
  <2> QED BY <2>1 DEF Steps
<1>3. CASE DrainTimesOut(i, s)
  <2>1. /\ pc[i][s] \in {"drain", "lock"} /\ Steps(i, s, "clear")
        /\ UNCHANGED <<maintenance, writer, readers>>
    BY <1>3 DEF DrainTimesOut, TypeOK, Steps, flags, locks
  <2> QED BY <2>1 DEF Steps
<1> QED BY <1>1, <1>2, <1>3

LEMMA SwapKeeps ==
  ASSUME TypeOK, NEW i \in Instances, NEW s \in Slots, Local(i),
         \/ Exclusive(i, s) \/ RestoreRaw(i, s) \/ ReconcileAfterRestore(i, s)
         \/ FinishRestored(i, s) \/ FinishFailed(i, s)
  PROVE  Local(i)'
<1> USE DEF Local, OneOwner, OwnerFlagged, SwapLocked, LockExcludes,
        InsideReads, TasksAwaited, NoTaskLeft, Owner, Drained, Swap
<1>1. pc[i][s] \in Swap /\ UNCHANGED <<maintenance, readers, awaited>>
  BY DEF Exclusive, RestoreRaw, ReconcileAfterRestore, FinishRestored, FinishFailed, Goes, flags, locks
<1>2. \/ \E to \in Swap : Steps(i, s, to) /\ writer' = writer
      \/ \E to \in {"idle", "clear"} : Steps(i, s, to) /\ writer'[i] = None
      \/ Steps(i, s, "clear") /\ writer' = writer
  <2>1. CASE Exclusive(i, s)
    <3>1. CASE ~leaseLost[i] /\ i \in shared /\ ExclusiveFree(i)
      BY <2>1, <3>1 DEF Exclusive, TypeOK, Steps
    <3>2. CASE ~(~leaseLost[i] /\ i \in shared /\ ExclusiveFree(i))
      <4>1. writer'[i] = None
        BY <2>1, <3>2 DEF Exclusive, TypeOK
      <4>2. Steps(i, s, IF leaseLost[i] THEN "idle" ELSE "clear")
        BY <2>1, <3>2 DEF Exclusive, TypeOK, Steps
      <4> QED BY <4>1, <4>2
    <3> QED BY <3>1, <3>2
  <2>2. CASE RestoreRaw(i, s)
    BY <2>2 DEF RestoreRaw, TypeOK, Steps, locks
  <2>3. CASE ReconcileAfterRestore(i, s)
    BY <2>3 DEF ReconcileAfterRestore, Goes, TypeOK, Steps, locks
  <2>4. CASE FinishRestored(i, s)
    BY <2>4 DEF FinishRestored, TypeOK, Steps
  <2>5. CASE FinishFailed(i, s)
    BY <2>5 DEF FinishFailed, Goes, TypeOK, Steps
  <2> QED BY <2>1, <2>2, <2>3, <2>4, <2>5
<1> QED BY <1>1, <1>2 DEF Steps

LEMMA ReopenKeeps ==
  ASSUME TypeOK, NEW i \in Instances, NEW s \in Slots, Local(i),
         ClearLooks(i, s) \/ ClearStores(i, s) \/ ClearRechecks(i, s)
  PROVE  Local(i)'
<1> USE DEF Local, OneOwner, OwnerFlagged, SwapLocked, LockExcludes,
        InsideReads, TasksAwaited, NoTaskLeft, Owner, Drained, Swap
<1>1. UNCHANGED <<readers, awaited>>
  BY DEF ClearLooks, ClearStores, ClearRechecks, locks
<1>2. writer'[i] = writer[i] \/ (writer[i] = s /\ writer'[i] = None)
  <2>1. writer' = writer \/ writer' = Unlocked(i, s)
    BY DEF ClearLooks, ClearStores, ClearRechecks, locks
  <2> QED BY <2>1 DEF Unlocked, TypeOK
<1>3. CASE ClearLooks(i, s)
  <2>1. /\ pc[i][s] = "clear" /\ UNCHANGED maintenance
        /\ Steps(i, s, "idle") \/ Steps(i, s, "store")
    BY <1>3 DEF ClearLooks, flags, TypeOK, Steps
  <2> QED BY <1>1, <1>2, <2>1 DEF Steps
<1>4. CASE ClearStores(i, s)
  <2>1. pc[i][s] = "store" /\ Steps(i, s, "recheck") /\ UNCHANGED writer
    BY <1>4 DEF ClearStores, Goes, TypeOK, Steps, locks
  <2>2. \A t \in Slots : pc'[i][t] \notin Owner
    BY <2>1 DEF Steps
  <2> QED BY <1>1, <2>1, <2>2 DEF Steps
<1>5. CASE ClearRechecks(i, s)
  <2>1. /\ pc[i][s] = "recheck" /\ Steps(i, s, "idle")
        /\ maintenance[i] => maintenance'[i]
    BY <1>5 DEF ClearRechecks, Goes, TypeOK, Steps
  <2> QED BY <1>1, <1>2, <2>1 DEF Steps
<1> QED BY <1>3, <1>4, <1>5

LEMMA RestoreKeeps ==
  ASSUME TypeOK, NEW i \in Instances, NEW s \in Slots, Local(i), RestoreStep(i, s)
  PROVE  Local(i)'
BY DrainKeeps, SwapKeeps, ReopenKeeps DEF RestoreStep

LEMMA ProcessKeeps ==
  ASSUME TypeOK, NEW i \in Instances, Local(i),
         \/ AcquireApplicationLease(i) \/ BootMigrate(i) \/ Monitor(i)
         \/ BeginShutdown(i) \/ DrainAndStop(i) \/ Exit(i) \/ Crash(i)
  PROVE  Local(i)'
<1> USE DEF Local, OneOwner, OwnerFlagged, SwapLocked, LockExcludes,
        InsideReads, TasksAwaited, NoTaskLeft, Owner, Drained, Swap
<1>1. CASE \/ AcquireApplicationLease(i) \/ BootMigrate(i) \/ Monitor(i)
           \/ BeginShutdown(i) \/ DrainAndStop(i)
  <2>1. UNCHANGED <<pc, writer, readers, awaited>>
    BY <1>1 DEF AcquireApplicationLease, BootMigrate, Monitor, BeginShutdown, DrainAndStop, flags, locks
  <2>2. maintenance[i] => maintenance'[i]
    BY <1>1 DEF AcquireApplicationLease, BootMigrate, Monitor, BeginShutdown, DrainAndStop, flags, TypeOK
  <2> QED BY <2>1, <2>2
<1>2. CASE Exit(i) \/ Crash(i)
  <2>1. /\ \A t \in Slots : pc'[i][t] = "idle"
        /\ writer'[i] = None /\ readers'[i] = {}
    BY <1>2 DEF Exit, Crash, Gone, TypeOK
  <2> QED BY <2>1
<1> QED BY <1>1, <1>2

-----------------------------------------------------------------------------
LEMMA InitInv == Init => GateInv
<1> SUFFICES ASSUME Init PROVE \A i \in Instances : Local(i)
  BY InitTyped DEF GateInv
<1> QED BY DEF Init, Local, OneOwner, OwnerFlagged, SwapLocked, LockExcludes,
        InsideReads, TasksAwaited, NoTaskLeft, Owner, Drained, Swap

LEMMA StepInv == GateInv /\ [Next]_vars => GateInv'
<1> SUFFICES ASSUME GateInv, [Next]_vars PROVE \A j \in Instances : Local(j)'
  BY StepTyped DEF GateInv
<1> USE DEF GateInv
<1>1. CASE UNCHANGED vars
  <2>1. \A j \in Instances : Untouched(j)
    BY <1>1 DEF vars, Untouched
  <2> QED BY <2>1, UntouchedKeeps
<1>2. ASSUME NEW i \in Instances, OnlyAt(i), Local(i)'
      PROVE  \A j \in Instances : Local(j)'
  BY <1>2, UntouchedKeeps DEF OnlyAt
<1>3. ASSUME NEW i \in Instances,
             \/ AcquireApplicationLease(i) \/ BootMigrate(i) \/ Monitor(i)
             \/ BeginShutdown(i) \/ DrainAndStop(i) \/ Exit(i) \/ Crash(i)
      PROVE  \A j \in Instances : Local(j)'
  BY <1>2, <1>3, ProcessElsewhere, ProcessKeeps
<1>4. ASSUME NEW i \in Instances, NEW s \in Slots,
             RequestArrives(i, s) \/ TaskStarts(i, s) \/ ProcessMailOutbox(i, s) \/ BeginRestore(i, s)
      PROVE  \A j \in Instances : Local(j)'
  BY <1>2, <1>4, ArrivalElsewhere, ArrivalKeeps, BeginKeeps
<1>5. ASSUME NEW i \in Instances, NEW s \in Slots, JobStep(i, s)
      PROVE  \A j \in Instances : Local(j)'
  BY <1>2, <1>5, JobElsewhere, JobKeeps
<1>6. ASSUME NEW i \in Instances, NEW s \in Slots, RestoreStep(i, s)
      PROVE  \A j \in Instances : Local(j)'
  BY <1>2, <1>6, RestoreElsewhere, RestoreKeeps
<1>7. CASE \/ \E p \in Instances \cup {Cli} : LoseSession(p)
           \/ AcquireOfflineRestoreLease \/ CliRestore \/ CliReconcile \/ CliEnds
  <2>1. \A j \in Instances : Untouched(j)
    BY <1>7, OutsideElsewhere
  <2> QED BY <2>1, UntouchedKeeps
<1> QED BY <1>1, <1>3, <1>4, <1>5, <1>6, <1>7 DEF Next

LEMMA InvDrained == GateInv => DrainedWhileRestoring
<1> SUFFICES ASSUME GateInv, NEW i \in Instances, NEW s \in Swapping(i)
             PROVE  Working(i) = {} /\ Cardinality(Swapping(i)) = 1
  BY DEF DrainedWhileRestoring
<1>1. Local(i) /\ s \in Slots /\ pc[i][s] \in Swap
  BY DEF GateInv, Swapping
<1>2. writer[i] = s /\ writer[i] # None
  BY <1>1, NoneIsNoSlot DEF Local, SwapLocked
<1>3. \A t \in Slots : pc[i][t] # "working"
  BY <1>1, <1>2 DEF Local, LockExcludes, InsideReads
<1>4. \A t \in Slots : pc[i][t] # "task"
  BY <1>1 DEF Local, NoTaskLeft, Drained
<1>5. Swapping(i) = {s}
  BY <1>1 DEF Local, OneOwner, Owner, Swapping
<1> QED BY <1>3, <1>4, <1>5, FS_Singleton DEF Working

(* While a goroutine replaces the database no request past the gate and no *)
(* registered task of its process works, under every loss, crash and       *)
(* shutdown (server.go, beginRestore and maintenanceGate).                 *)
THEOREM DrainedBeforeRestoring == Spec => []DrainedWhileRestoring
BY InitInv, StepInv, InvDrained, PTL DEF Spec

-----------------------------------------------------------------------------
(* Who starts to work has passed a check of the lease's loss.              *)
Busily == {"working", "task"}

LEMMA JobStarts ==
  ASSUME TypeOK, NEW i \in Instances, NEW s \in Slots, JobStep(i, s), leaseLost[i]
  PROVE  pc'[i][s] \notin Busily
<1>1. MaintenanceActive(i) /\ ~Admits(i)
  BY DEF MaintenanceActive, Admits
<1>2. CASE AdmitReader(i, s) \/ RequestEnds(i, s) \/ TaskEnds(i, s)
  BY <1>2 DEF AdmitReader, RequestEnds, TaskEnds, Goes, TypeOK, Busily
<1>3. CASE MaintenanceGate(i, s) \/ BackgroundTask(i, s)
  BY <1>1, <1>3 DEF MaintenanceGate, BackgroundTask, TypeOK, Busily
<1> QED BY <1>2, <1>3 DEF JobStep

LEMMA RestoreStarts ==
  ASSUME TypeOK, NEW i \in Instances, NEW s \in Slots, RestoreStep(i, s)
  PROVE  pc'[i][s] \notin Busily
<1>1. CASE CancelBackground(i, s) \/ TryLockActivity(i, s) \/ DrainTimesOut(i, s)
  BY <1>1 DEF CancelBackground, TryLockActivity, DrainTimesOut, Goes, TypeOK, Busily
<1>2. CASE Exclusive(i, s)
  BY <1>2 DEF Exclusive, TypeOK, Busily
<1>3. CASE RestoreRaw(i, s) \/ ReconcileAfterRestore(i, s)
  BY <1>3 DEF RestoreRaw, ReconcileAfterRestore, Goes, TypeOK, Busily
<1>4. CASE FinishRestored(i, s) \/ FinishFailed(i, s)
  BY <1>4 DEF FinishRestored, FinishFailed, Goes, TypeOK, Busily
<1>5. CASE ClearLooks(i, s) \/ ClearStores(i, s) \/ ClearRechecks(i, s)
  BY <1>5 DEF ClearLooks, ClearStores, ClearRechecks, Goes, TypeOK, Busily
<1> QED BY <1>1, <1>2, <1>3, <1>4, <1>5 DEF RestoreStep

LEMMA ArrivalStarts ==
  ASSUME TypeOK, NEW i \in Instances, NEW s \in Slots,
         RequestArrives(i, s) \/ TaskStarts(i, s) \/ BeginRestore(i, s)
  PROVE  pc'[i][s] \notin Busily
BY DEF RequestArrives, TaskStarts, BeginRestore, Goes, TypeOK, Busily

LEMMA ProcessStarts ==
  ASSUME TypeOK, NEW i \in Instances,
         \/ AcquireApplicationLease(i) \/ BootMigrate(i) \/ Monitor(i)
         \/ BeginShutdown(i) \/ DrainAndStop(i) \/ Exit(i) \/ Crash(i)
  PROVE  pc' = pc \/ (\A s \in Slots : pc'[i][s] = "idle")
<1>1. CASE Exit(i) \/ Crash(i)
  BY <1>1 DEF Exit, Crash, Gone, TypeOK
<1> QED BY <1>1 DEF AcquireApplicationLease, BootMigrate, Monitor, BeginShutdown, DrainAndStop

LEMMA StepFinal ==
  ASSUME TypeOK, [Next]_vars, NEW i \in Instances, NEW s \in Slots,
         leaseLost[i], pc[i][s] \notin Busily
  PROVE  pc'[i][s] \notin Busily
<1>1. CASE UNCHANGED vars
  BY <1>1 DEF vars
<1>2. ASSUME NEW j \in Instances,
             \/ AcquireApplicationLease(j) \/ BootMigrate(j) \/ Monitor(j)
             \/ BeginShutdown(j) \/ DrainAndStop(j) \/ Exit(j) \/ Crash(j)
      PROVE  pc'[i][s] \notin Busily
  BY <1>2, ProcessStarts, ProcessElsewhere DEF OnlyAt, Untouched, Busily
<1>3. ASSUME NEW j \in Instances, NEW t \in Slots, Moves(j, t), leaseLost[j] => pc'[j][t] \notin Busily
      PROVE  pc'[i][s] \notin Busily
  <2>1. CASE i = j /\ s = t
    BY <2>1, <1>3
  <2>2. CASE i # j \/ s # t
    BY <2>2, <1>3, MovesOnlyHere
  <2> QED BY <2>1, <2>2
<1>4. ASSUME NEW j \in Instances, NEW t \in Slots,
             RequestArrives(j, t) \/ TaskStarts(j, t) \/ BeginRestore(j, t)
      PROVE  pc'[i][s] \notin Busily
  BY <1>3, <1>4, ArrivalMoves, ArrivalStarts
<1>5. ASSUME NEW j \in Instances, NEW t \in Slots, ProcessMailOutbox(j, t)
      PROVE  pc'[i][s] \notin Busily
  BY <1>5 DEF ProcessMailOutbox
<1>6. ASSUME NEW j \in Instances, NEW t \in Slots, JobStep(j, t)
      PROVE  pc'[i][s] \notin Busily
  BY <1>3, <1>6, JobMoves, JobStarts
<1>7. ASSUME NEW j \in Instances, NEW t \in Slots, RestoreStep(j, t)
      PROVE  pc'[i][s] \notin Busily
  BY <1>3, <1>7, RestoreMoves, RestoreStarts
<1>8. CASE \/ \E p \in Instances \cup {Cli} : LoseSession(p)
           \/ AcquireOfflineRestoreLease \/ CliRestore \/ CliReconcile \/ CliEnds
  BY <1>8 DEF LoseSession, AcquireOfflineRestoreLease, CliRestore, CliReconcile, CliEnds
<1> QED BY <1>1, <1>2, <1>4, <1>5, <1>6, <1>7, <1>8 DEF Next

(* After the loss of the lease nothing of that process starts to work any  *)
(* more, also where the loss races a restore that clears the flag          *)
(* (server.go, clearRestoreMaintenance).                                   *)
THEOREM LostLeaseIsFinal == Spec => FailClosedIsFinal
<1>1. TypeOK /\ [Next]_vars =>
        [\A i \in Instances, s \in Slots :
           leaseLost[i] /\ pc[i][s] \notin {"working", "task"}
             => pc'[i][s] \notin {"working", "task"}]_vars
  BY StepFinal DEF Busily
<1> QED BY <1>1, TypeCorrect, PTL DEF Spec, FailClosedIsFinal

-----------------------------------------------------------------------------
(* The lease: an exclusive session excludes every other one; a process that*)
(* runs holds it shared; one that does not run, or only boots, is idle; who*)
(* replaces the database holds it exclusively.                             *)
Lending  == {"exclusive", "loaded", "migrated", "held"}
Attached == {"booting", "serving", "stopping"}

LeaseExcludes == exclusive # None => shared \subseteq {exclusive}
RunnersShare == \A i \in Instances : run[i] \in Attached => i \in shared
RestIsIdle == \A i \in Instances, s \in Slots :
  run[i] \notin {"serving", "stopping"} => pc[i][s] = "idle"
SwapIsExclusive == \A i \in Instances, s \in Slots :
  pc[i][s] \in Lending => exclusive = i
CliIsExclusive == cli # "idle" => exclusive = Cli

LeaseInv ==
  /\ LeaseExcludes
  /\ Fenced => RunnersShare /\ RestIsIdle /\ SwapIsExclusive /\ CliIsExclusive

(* What the step of one goroutine does with the lease.                     *)
TakesLease(i, s) == pc[i][s] = "locked" /\ ExclusiveFree(i) /\ exclusive' = i
GivesLease(i, s) == pc[i][s] \in {"held", "finishing"} /\ exclusive = i /\ exclusive' = None
                    /\ pc'[i][s] \notin Lending

LendsLease(i, s) ==
  /\ Moves(i, s) \/ pc' = pc
  /\ UNCHANGED <<shared, run, cli>> /\ (Fenced' => Fenced)
  /\ pc[i][s] # "idle" \/ run[i] \in {"serving", "stopping"}
  /\ exclusive' = exclusive \/ TakesLease(i, s) \/ GivesLease(i, s)
  /\ pc'[i][s] \in Lending => pc[i][s] \in Lending \/ exclusive' = i

LEMMA ArrivalLends ==
  ASSUME TypeOK, NEW i \in Instances, NEW s \in Slots,
         RequestArrives(i, s) \/ TaskStarts(i, s) \/ ProcessMailOutbox(i, s) \/ BeginRestore(i, s)
  PROVE  LendsLease(i, s)
<1>1. Moves(i, s) \/ pc' = pc
  BY ArrivalMoves DEF ProcessMailOutbox
<1>2. pc'[i][s] \notin Lending \/ pc' = pc
  BY DEF RequestArrives, TaskStarts, ProcessMailOutbox, BeginRestore, Goes, TypeOK, Lending
<1> QED BY <1>1, <1>2 DEF LendsLease, RequestArrives, TaskStarts, ProcessMailOutbox, BeginRestore, Goes,
     lease, Fenced

LEMMA JobLends ==
  ASSUME TypeOK, NEW i \in Instances, NEW s \in Slots, JobStep(i, s)
  PROVE  LendsLease(i, s)
<1>1. Moves(i, s)
  BY JobMoves
<1>2. UNCHANGED <<lease, run, cli, spent>> /\ pc[i][s] # "idle"
  BY DEF JobStep, AdmitReader, MaintenanceGate, RequestEnds, BackgroundTask, TaskEnds, Goes
<1>3. pc'[i][s] \notin Lending
  <2>1. CASE AdmitReader(i, s) \/ RequestEnds(i, s) \/ TaskEnds(i, s)
    BY <2>1 DEF AdmitReader, RequestEnds, TaskEnds, Goes, TypeOK, Lending
  <2>2. CASE MaintenanceGate(i, s) \/ BackgroundTask(i, s)
    BY <2>2 DEF MaintenanceGate, BackgroundTask, TypeOK, Lending
  <2> QED BY <2>1, <2>2 DEF JobStep
<1> QED BY <1>1, <1>2, <1>3 DEF LendsLease, lease, Fenced

LEMMA RestoreLends ==
  ASSUME TypeOK, NEW i \in Instances, NEW s \in Slots, RestoreStep(i, s)
  PROVE  LendsLease(i, s)
<1>1. Moves(i, s)
  BY RestoreMoves
<1>2. CASE CancelBackground(i, s) \/ TryLockActivity(i, s) \/ DrainTimesOut(i, s)
  <2>1. pc'[i][s] \notin Lending
    BY <1>2 DEF CancelBackground, TryLockActivity, DrainTimesOut, Goes, TypeOK, Lending
  <2> QED BY <1>1, <1>2, <2>1 DEF CancelBackground, TryLockActivity, DrainTimesOut, Goes, LendsLease,
       lease, Fenced
<1>3. CASE Exclusive(i, s)
  <2>1. /\ pc[i][s] = "locked" /\ UNCHANGED <<shared, run, cli, spent>>
    BY <1>3 DEF Exclusive
  <2>2. CASE ~leaseLost[i] /\ i \in shared /\ ExclusiveFree(i)
    <3>1. exclusive' = i
      BY <1>3, <2>2 DEF Exclusive
    <3> QED BY <1>1, <2>1, <2>2, <3>1 DEF LendsLease, TakesLease, Fenced
  <2>3. CASE ~(~leaseLost[i] /\ i \in shared /\ ExclusiveFree(i))
    <3>1. exclusive' = exclusive /\ pc'[i][s] \notin Lending
      BY <1>3, <2>3 DEF Exclusive, TypeOK, Lending
    <3> QED BY <1>1, <2>1, <3>1 DEF LendsLease, Fenced
  <2> QED BY <2>2, <2>3
<1>4. CASE RestoreRaw(i, s) \/ ReconcileAfterRestore(i, s)
  <2>1. /\ pc[i][s] \in Lending /\ UNCHANGED <<lease, run, cli>>
    BY <1>4 DEF RestoreRaw, ReconcileAfterRestore, Goes, Lending
  <2>2. Fenced' => Fenced
    <3>1. spent'.losses = spent.losses /\ spent'.overrun = spent.overrun
      BY <1>4 DEF RestoreRaw, ReconcileAfterRestore, TypeOK
    <3> QED BY <3>1 DEF Fenced
  <2> QED BY <1>1, <2>1, <2>2 DEF LendsLease, lease, Lending
<1>5. CASE FinishRestored(i, s) \/ FinishFailed(i, s)
  <2>1. /\ pc[i][s] \in {"held", "finishing"} /\ UNCHANGED <<shared, run, cli, spent>>
    BY <1>5 DEF FinishRestored, FinishFailed, Goes
  <2>2. pc'[i][s] \notin Lending
    BY <1>5 DEF FinishRestored, FinishFailed, Goes, TypeOK, Lending
  <2>3. exclusive' = exclusive \/ (exclusive = i /\ exclusive' = None)
    BY <1>5 DEF FinishRestored, FinishFailed
  <2> QED BY <1>1, <2>1, <2>2, <2>3 DEF LendsLease, GivesLease, Fenced
<1>6. CASE ClearLooks(i, s) \/ ClearStores(i, s) \/ ClearRechecks(i, s)
  <2>1. pc'[i][s] \notin Lending
    BY <1>6 DEF ClearLooks, ClearStores, ClearRechecks, Goes, TypeOK, Lending
  <2> QED BY <1>1, <1>6, <2>1 DEF ClearLooks, ClearStores, ClearRechecks, Goes, LendsLease, lease, Fenced
<1> QED BY <1>2, <1>3, <1>4, <1>5, <1>6 DEF RestoreStep

LEMMA LendingKeeps ==
  ASSUME GateInv, LeaseInv, NEW i \in Instances, NEW s \in Slots, LendsLease(i, s)
  PROVE  LeaseInv'
<1>1. /\ UNCHANGED <<shared, run, cli>> /\ (Fenced' => Fenced)
      /\ pc[i][s] # "idle" \/ run[i] \in {"serving", "stopping"}
      /\ exclusive' = exclusive \/ TakesLease(i, s) \/ GivesLease(i, s)
      /\ pc'[i][s] \in Lending => pc[i][s] \in Lending \/ exclusive' = i
  BY DEF LendsLease
<1>2. \A j \in Instances, t \in Slots : j # i \/ t # s => pc'[j][t] = pc[j][t]
  BY MovesOnlyHere DEF LendsLease, GateInv
<1>3. LeaseExcludes'
  BY <1>1 DEF LeaseInv, LeaseExcludes, TakesLease, GivesLease, ExclusiveFree
<1>4. Fenced' => RunnersShare'
  BY <1>1 DEF LeaseInv, RunnersShare
<1>5. Fenced' => RestIsIdle'
  BY <1>1, <1>2 DEF LeaseInv, RestIsIdle
<1>6. ASSUME Fenced', NEW j \in Instances, NEW t \in Slots, pc'[j][t] \in Lending
      PROVE  exclusive' = j
  <2>1. SwapIsExclusive
    BY <1>1, <1>6 DEF LeaseInv
  <2>2. CASE exclusive' = exclusive \/ TakesLease(i, s)
    <3>1. CASE j = i /\ t = s
      BY <1>1, <1>6, <2>1, <2>2, <3>1 DEF SwapIsExclusive, TakesLease
    <3>2. CASE j # i \/ t # s
      <4>1. exclusive = j
        BY <1>2, <1>6, <2>1, <3>2 DEF SwapIsExclusive
      <4> QED BY <2>2, <4>1, NamesDistinct DEF TakesLease, ExclusiveFree
    <3> QED BY <3>1, <3>2
  <2>3. CASE GivesLease(i, s)
    <3>1. j # i \/ t # s
      BY <1>6, <2>3 DEF GivesLease
    <3>2. pc[j][t] \in Lending /\ exclusive = j
      BY <1>2, <1>6, <2>1, <3>1 DEF SwapIsExclusive
    <3>3. j = i
      BY <2>3, <3>2 DEF GivesLease
    <3>4. Local(i) /\ pc[i][s] \in Owner /\ pc[i][t] \in Owner
      BY <2>3, <3>2, <3>3 DEF GateInv, GivesLease, Owner, Swap, Lending
    <3>5. s = t
      BY <3>4 DEF Local, OneOwner
    <3> QED BY <3>1, <3>3, <3>5
  <2> QED BY <1>1, <2>2, <2>3
<1>7. Fenced' => CliIsExclusive'
  BY <1>1, NamesDistinct DEF LeaseInv, CliIsExclusive, TakesLease, GivesLease, ExclusiveFree
<1> QED BY <1>3, <1>4, <1>5, <1>6, <1>7 DEF LeaseInv, SwapIsExclusive

LEMMA RunningKeeps ==
  ASSUME GateInv, LeaseInv, NEW i \in Instances,
         AcquireApplicationLease(i) \/ BootMigrate(i) \/ Monitor(i) \/ BeginShutdown(i)
  PROVE  LeaseInv'
<1> USE DEF LeaseInv, LeaseExcludes, RunnersShare, RestIsIdle, SwapIsExclusive, CliIsExclusive
<1>1. TypeOK /\ UNCHANGED <<exclusive, pc, cli>>
  BY DEF GateInv, AcquireApplicationLease, BootMigrate, Monitor, BeginShutdown, lease
<1>2. Fenced' => Fenced
  BY <1>1 DEF AcquireApplicationLease, BootMigrate, Monitor, BeginShutdown, Fenced, TypeOK
<1>3. /\ \A j \in Instances : j # i => run'[j] = run[j]
      /\ run[i] \in Attached => shared' = shared /\ run'[i] \in {"serving", "stopping"}
      /\ run[i] \notin Attached => shared' = shared \cup {i} /\ SharedFree(i) /\ run'[i] = "booting"
  BY <1>1 DEF AcquireApplicationLease, BootMigrate, Monitor, BeginShutdown, lease, TypeOK, Attached
<1>4. LeaseExcludes'
  BY <1>1, <1>3 DEF SharedFree
<1>5. Fenced' => RunnersShare'
  BY <1>2, <1>3 DEF Attached
<1>6. Fenced' => RestIsIdle'
  BY <1>1, <1>2, <1>3 DEF Attached
<1> QED BY <1>1, <1>2, <1>4, <1>5, <1>6

LEMMA StoppingKeeps ==
  ASSUME GateInv, LeaseInv, NEW i \in Instances, DrainAndStop(i) \/ Exit(i) \/ Crash(i)
  PROVE  LeaseInv'
<1> USE DEF LeaseInv, LeaseExcludes, RunnersShare, RestIsIdle, SwapIsExclusive, CliIsExclusive
<1>1. TypeOK /\ cli' = cli /\ shared' = shared \ {i}
  BY DEF GateInv, DrainAndStop, Exit, Crash, Gone
<1>2. /\ \A j \in Instances : j # i => run'[j] = run[j] /\ pc'[j] = pc[j]
      /\ run'[i] \in {"closed", "down"}
  BY <1>1 DEF DrainAndStop, Exit, Crash, Gone, TypeOK
<1>3. CASE DrainAndStop(i)
  <2>1. exclusive' = exclusive /\ pc' = pc
    BY <1>3 DEF DrainAndStop
  <2>2. Fenced' => Fenced /\ Busy(i) = {}
    BY <1>1, <1>3 DEF DrainAndStop, Fenced, TypeOK
  <2>3. Fenced' => \A s \in Slots : pc'[i][s] = "idle"
    BY <2>1, <2>2 DEF Busy
  <2> QED BY <1>1, <1>2, <2>1, <2>2, <2>3 DEF Attached
<1>4. CASE Exit(i) \/ Crash(i)
  <2>1. /\ exclusive' = IF exclusive = i THEN None ELSE exclusive
        /\ \A s \in Slots : pc'[i][s] = "idle"
    BY <1>1, <1>4 DEF Exit, Crash, Gone, TypeOK
  <2>2. Fenced' => Fenced
    BY <1>1, <1>4 DEF Exit, Crash, Fenced, TypeOK
  <2>3. LeaseExcludes'
    BY <1>1, <2>1
  <2>4. Fenced' => RunnersShare' /\ RestIsIdle'
    BY <1>1, <1>2, <2>1, <2>2 DEF Attached
  <2>5. ASSUME Fenced', NEW j \in Instances, NEW t \in Slots, pc'[j][t] \in Lending
        PROVE  exclusive' = j
    BY <1>2, <2>1, <2>2, <2>5 DEF Lending
  <2>6. Fenced' => CliIsExclusive'
    BY <1>1, <2>1, <2>2, NamesDistinct
  <2> QED BY <2>3, <2>4, <2>5, <2>6
<1> QED BY <1>3, <1>4

LEMMA OutsideKeeps ==
  ASSUME GateInv, LeaseInv,
         \/ \E p \in Instances \cup {Cli} : LoseSession(p)
         \/ AcquireOfflineRestoreLease \/ CliRestore \/ CliReconcile \/ CliEnds
  PROVE  LeaseInv'
<1> USE DEF LeaseInv, LeaseExcludes, RunnersShare, RestIsIdle, SwapIsExclusive, CliIsExclusive
<1>1. TypeOK
  BY DEF GateInv
<1>2. ASSUME NEW p \in Instances \cup {Cli}, LoseSession(p)
      PROVE  LeaseInv'
  <2>1. LeaseExcludes'
    BY <1>2 DEF LoseSession
  <2>2. spent'.losses = spent.losses + 1 /\ spent.losses \in Nat
    BY <1>1, <1>2 DEF LoseSession, TypeOK
  <2>3. ~Fenced'
    BY <2>2 DEF Fenced
  <2> QED BY <2>1, <2>3
<1>3. CASE AcquireOfflineRestoreLease
  <2>1. /\ UNCHANGED <<shared, run, pc, spent>> /\ ExclusiveFree(Cli)
        /\ exclusive' = Cli /\ exclusive = None
    BY <1>3 DEF AcquireOfflineRestoreLease, ExclusiveFree
  <2> QED BY <2>1, NamesDistinct DEF Fenced, ExclusiveFree
<1>4. CASE CliRestore \/ CliReconcile
  <2>1. UNCHANGED <<shared, exclusive, run, pc>> /\ cli # "idle"
    BY <1>4 DEF CliRestore, CliReconcile, lease
  <2>2. Fenced' => Fenced
    BY <1>1, <1>4 DEF CliRestore, CliReconcile, Fenced, TypeOK
  <2> QED BY <2>1, <2>2
<1>5. CASE CliEnds
  <2>1. /\ UNCHANGED <<shared, run, pc, spent>> /\ cli' = "idle"
        /\ exclusive' = IF exclusive = Cli THEN None ELSE exclusive
    BY <1>5 DEF CliEnds
  <2> QED BY <2>1, NamesDistinct DEF Fenced
<1> QED BY <1>2, <1>3, <1>4, <1>5

LEMMA InitLease == Init => LeaseInv
BY DEF Init, LeaseInv, LeaseExcludes, RunnersShare, RestIsIdle, SwapIsExclusive, CliIsExclusive, Lending,
     Attached

LEMMA StepLease == GateInv /\ LeaseInv /\ [Next]_vars => LeaseInv'
<1> SUFFICES ASSUME GateInv, LeaseInv, [Next]_vars PROVE LeaseInv' OBVIOUS
<1>1. CASE UNCHANGED vars
  BY <1>1 DEF vars, LeaseInv, LeaseExcludes, RunnersShare, RestIsIdle, SwapIsExclusive, CliIsExclusive,
       Fenced
<1>2. ASSUME NEW i \in Instances, NEW s \in Slots,
             \/ RequestArrives(i, s) \/ TaskStarts(i, s) \/ ProcessMailOutbox(i, s)
             \/ BeginRestore(i, s) \/ JobStep(i, s) \/ RestoreStep(i, s)
      PROVE  LeaseInv'
  BY <1>2, ArrivalLends, JobLends, RestoreLends, LendingKeeps DEF GateInv
<1> QED BY <1>1, <1>2, RunningKeeps, StoppingKeeps, OutsideKeeps DEF Next

LEMMA InvExcludes == TypeOK /\ LeaseInv => RestoreExcludesOthers
<1> SUFFICES ASSUME TypeOK, LeaseInv, Fenced
             PROVE  /\ \A i, j \in Instances : i # j /\ exclusive = i => run[j] = "down" \/ run[j] = "closed"
                    /\ exclusive = Cli => \A i \in Instances : Busy(i) = {}
                    /\ \A i \in Instances, s \in Slots :
                         pc[i][s] \in {"exclusive", "loaded", "migrated", "held"} => exclusive = i
  BY DEF RestoreExcludesOthers
<1>1. LeaseExcludes /\ RunnersShare /\ RestIsIdle /\ SwapIsExclusive
  BY DEF LeaseInv
<1>2. \A i \in Instances : run[i] \in Attached \cup {"down", "closed"}
  BY DEF TypeOK, Runs, Attached
<1>3. \A i \in Instances : exclusive # None /\ exclusive # i => run[i] \notin Attached
  BY <1>1 DEF LeaseExcludes, RunnersShare
<1>4. ASSUME NEW i \in Instances, NEW j \in Instances, i # j, exclusive = i
      PROVE  run[j] = "down" \/ run[j] = "closed"
  BY <1>2, <1>3, <1>4, NamesDistinct
<1>5. ASSUME exclusive = Cli, NEW i \in Instances PROVE Busy(i) = {}
  <2>1. run[i] \notin Attached
    BY <1>3, <1>5, NamesDistinct
  <2> QED BY <1>1, <2>1 DEF RestIsIdle, Busy, Attached
<1> QED BY <1>1, <1>4, <1>5 DEF SwapIsExclusive, Lending

(* As long as no session was lost and no drain overran, whoever replaces   *)
(* the database is alone: nobody else serves, boots or restores, and the   *)
(* offline restore meets only idle processes (db/maintenance.go).          *)
THEOREM RestoresAlone == Spec => []RestoreExcludesOthers
<1>1. Init => GateInv /\ LeaseInv
  BY InitInv, InitLease
<1>2. (GateInv /\ LeaseInv) /\ [Next]_vars => (GateInv /\ LeaseInv)'
  BY StepInv, StepLease
<1>3. GateInv /\ LeaseInv => RestoreExcludesOthers
  BY InvExcludes DEF GateInv
<1> QED BY <1>1, <1>2, <1>3, PTL DEF Spec

-----------------------------------------------------------------------------
(* While the schema is older than the program, every process that serves is*)
(* in maintenance and none of its goroutines works or is on a way to       *)
(* reopen it.                                                              *)
Shut == {"idle", "gated", "admitted", "checked", "loaded", "finishing", "recheck"}

ShutFor(i) == maintenance[i] /\ \A s \in Slots : pc[i][s] \in Shut
Serving(i) == run[i] \in {"serving", "stopping"}
SchemaInv == Fenced /\ db.schema = "old" => \A i \in Instances : Serving(i) => ShutFor(i)

(* Whoever holds the lease exclusively is the only process attached.       *)
LEMMA Alone ==
  ASSUME LeaseInv, Fenced, NEW j \in Instances, exclusive # None, exclusive # j
  PROVE  run[j] \notin Attached
BY DEF LeaseInv, LeaseExcludes, RunnersShare

(* A step of one goroutine that leaves the schema old.                     *)
LEMMA ShutKeeps ==
  ASSUME TypeOK, SchemaInv, NEW i \in Instances, NEW s \in Slots, Moves(i, s), OnlyAt(i),
         UNCHANGED run, Fenced' => Fenced,
         Fenced /\ db'.schema = "old"
           => db.schema = "old" /\ (Serving(i) => maintenance'[i] /\ pc'[i][s] \in Shut)
  PROVE  SchemaInv'
<1> SUFFICES ASSUME Fenced', db'.schema = "old", NEW j \in Instances, Serving(j)
             PROVE  ShutFor(j)'
  BY DEF SchemaInv, Serving
<1>1. ShutFor(j)
  BY DEF SchemaInv
<1>2. CASE j # i
  BY <1>1, <1>2 DEF OnlyAt, Untouched, ShutFor
<1>3. CASE j = i
  BY <1>1, <1>3, MovesOnlyHere DEF ShutFor
<1> QED BY <1>2, <1>3

LEMMA ArrivalShut ==
  ASSUME GateInv, LeaseInv, SchemaInv, NEW i \in Instances, NEW s \in Slots,
         RequestArrives(i, s) \/ TaskStarts(i, s) \/ BeginRestore(i, s)
  PROVE  SchemaInv'
<1>1. TypeOK /\ Moves(i, s) /\ OnlyAt(i)
  BY ArrivalMoves, ArrivalElsewhere DEF GateInv
<1>2. UNCHANGED <<run, db, spent>> /\ ~maintenance[i]
  BY DEF RequestArrives, TaskStarts, BeginRestore, Admits, MaintenanceActive
<1>3. (Fenced' => Fenced) /\ db'.schema = db.schema
  BY <1>2 DEF Fenced
<1>4. Fenced => Serving(i)
  BY <1>1 DEF LeaseInv, RestIsIdle, Serving, RequestArrives, TaskStarts, BeginRestore, Goes
<1>5. Fenced => db.schema # "old"
  BY <1>2, <1>4 DEF SchemaInv, ShutFor
<1> QED BY <1>1, <1>2, <1>3, <1>5, ShutKeeps

LEMMA MailShut ==
  ASSUME GateInv, SchemaInv, NEW i \in Instances, NEW s \in Slots, ProcessMailOutbox(i, s)
  PROVE  SchemaInv'
<1>1. UNCHANGED <<run, maintenance, pc, spent>> /\ db'.schema = db.schema
  BY DEF ProcessMailOutbox, flags, GateInv, TypeOK
<1> QED BY <1>1 DEF SchemaInv, Fenced, Serving, ShutFor

LEMMA JobShut ==
  ASSUME GateInv, LeaseInv, SchemaInv, NEW i \in Instances, NEW s \in Slots, JobStep(i, s)
  PROVE  SchemaInv'
<1>1. TypeOK /\ Moves(i, s) /\ OnlyAt(i)
  BY JobMoves, JobElsewhere DEF GateInv
<1>2. UNCHANGED <<run, maintenance, spent>> /\ db'.schema = db.schema /\ pc[i][s] # "idle"
  BY <1>1 DEF JobStep, AdmitReader, MaintenanceGate, RequestEnds, BackgroundTask, TaskEnds, Goes, flags,
       TypeOK
<1>3. Fenced' => Fenced
  BY <1>2 DEF Fenced
<1>4. ASSUME Fenced, db.schema = "old" PROVE maintenance'[i] /\ pc'[i][s] \in Shut
  <2>1. Serving(i)
    BY <1>2, <1>4 DEF LeaseInv, RestIsIdle, Serving
  <2>2. maintenance[i] /\ pc[i][s] \in Shut
    BY <1>4, <2>1 DEF SchemaInv, ShutFor
  <2>3. MaintenanceActive(i) /\ ~Admits(i)
    BY <2>2 DEF MaintenanceActive, Admits
  <2>4. pc'[i][s] \in Shut
    <3>1. CASE AdmitReader(i, s) \/ RequestEnds(i, s) \/ TaskEnds(i, s)
      BY <1>1, <3>1 DEF AdmitReader, RequestEnds, TaskEnds, Goes, TypeOK, Shut
    <3>2. CASE MaintenanceGate(i, s) \/ BackgroundTask(i, s)
      BY <1>1, <2>3, <3>2 DEF MaintenanceGate, BackgroundTask, TypeOK, Shut
    <3> QED BY <3>1, <3>2 DEF JobStep
  <2> QED BY <1>2, <2>2, <2>4
<1> QED BY <1>1, <1>2, <1>3, <1>4, ShutKeeps

LEMMA RawShut ==
  ASSUME GateInv, LeaseInv, SchemaInv, NEW i \in Instances, NEW s \in Slots, RestoreRaw(i, s)
  PROVE  SchemaInv'
<1> SUFFICES ASSUME Fenced', NEW j \in Instances, Serving(j) PROVE ShutFor(j)'
  BY DEF SchemaInv, Serving, RestoreRaw
<1>1. /\ TypeOK /\ Local(i) /\ OnlyAt(i) /\ Moves(i, s) /\ pc[i][s] = "exclusive"
      /\ pc'[i][s] \in {"loaded", "finishing"} /\ maintenance' = maintenance
  <2>1. TypeOK /\ Local(i) /\ RestoreStep(i, s)
    BY DEF GateInv, RestoreStep
  <2>2. OnlyAt(i) /\ Moves(i, s)
    BY <2>1, RestoreElsewhere, RestoreMoves
  <2> QED BY <2>1, <2>2 DEF RestoreRaw, flags, TypeOK
<1>2. Fenced
  BY <1>1 DEF RestoreRaw, Fenced, TypeOK
<1>3. exclusive = i /\ exclusive # None
  BY <1>1, <1>2, NamesDistinct DEF LeaseInv, SwapIsExclusive, Lending
<1>4. j = i
  BY <1>2, <1>3, Alone DEF Serving, Attached
<1>5. pc[i][s] \in Swap /\ pc[i][s] \in Owner /\ pc[i][s] \in Drained
  BY <1>1 DEF Swap, Owner, Drained
<1>6. writer[i] = s /\ readers[i] = {} /\ maintenance[i]
  BY <1>1, <1>5, NoneIsNoSlot DEF Local, SwapLocked, LockExcludes, OwnerFlagged
<1>7. \A t \in Slots : t # s => pc[i][t] \notin Owner
  BY <1>1, <1>5 DEF Local, OneOwner
<1>8. \A t \in Slots : pc[i][t] \notin {"working", "task"}
  BY <1>1, <1>5, <1>6 DEF Local, InsideReads, NoTaskLeft
<1>9. \A t \in Slots : t # s => pc[i][t] \in Shut
  BY <1>1, <1>7, <1>8 DEF TypeOK, Pcs, Gate, Restoring, Reopening, Owner, Shut
<1>10. \A t \in Slots : pc'[i][t] \in Shut
  BY <1>1, <1>9, MovesOnlyHere DEF Shut
<1> QED BY <1>1, <1>4, <1>6, <1>10 DEF ShutFor

LEMMA RestoreShut ==
  ASSUME GateInv, LeaseInv, SchemaInv, NEW i \in Instances, NEW s \in Slots,
         RestoreStep(i, s), ~RestoreRaw(i, s)
  PROVE  SchemaInv'
<1>1. TypeOK /\ Moves(i, s) /\ OnlyAt(i)
  BY RestoreMoves, RestoreElsewhere DEF GateInv
<1>2. UNCHANGED <<run, spent>> /\ pc[i][s] # "idle"
  BY DEF RestoreStep, CancelBackground, TryLockActivity, DrainTimesOut, Exclusive, ReconcileAfterRestore,
         FinishRestored, FinishFailed, ClearLooks, ClearStores, ClearRechecks, Goes
<1>3. Fenced' => Fenced
  BY <1>2 DEF Fenced
<1>4. ASSUME Fenced, db'.schema = "old"
      PROVE  db.schema = "old" /\ maintenance'[i] /\ pc'[i][s] \in Shut
  <2>1. db.schema = "old"
    <3>1. CASE ReconcileAfterRestore(i, s)
      BY <1>1, <1>4, <3>1 DEF ReconcileAfterRestore, Migrated, HeldOutbox, TypeOK
    <3>2. CASE ~ReconcileAfterRestore(i, s)
      <4>1. db' = db
        BY <3>2 DEF RestoreStep, CancelBackground, TryLockActivity, DrainTimesOut, Exclusive,
             FinishRestored, FinishFailed, ClearLooks, ClearStores, ClearRechecks
      <4> QED BY <1>4, <4>1
    <3> QED BY <3>1, <3>2
  <2>2. Serving(i)
    BY <1>2, <1>4 DEF LeaseInv, RestIsIdle, Serving
  <2>3. maintenance[i] /\ pc[i][s] \in {"loaded", "finishing", "recheck"} \cup (Shut \ Restoring)
    BY <1>4, <2>1, <2>2 DEF SchemaInv, ShutFor, Shut, Restoring, Swap, Reopening
  <2>4. CASE ReconcileAfterRestore(i, s)
    <3>1. pc[i][s] = "loaded"
      BY <2>3, <2>4 DEF ReconcileAfterRestore, Goes, Shut, Restoring, Swap
    <3>2. pc'[i][s] = "finishing"
      BY <1>1, <1>4, <2>4, <3>1 DEF ReconcileAfterRestore, Goes, Migrated, TypeOK
    <3> QED BY <2>1, <2>3, <2>4, <3>2 DEF ReconcileAfterRestore, flags, Shut
  <2>5. CASE FinishFailed(i, s)
    BY <1>1, <2>1, <2>3, <2>5 DEF FinishFailed, Goes, flags, TypeOK, Shut
  <2>6. CASE ClearRechecks(i, s)
    BY <1>1, <2>1, <2>3, <2>6 DEF ClearRechecks, Goes, TypeOK, Shut
  <2>7. CASE ~(ReconcileAfterRestore(i, s) \/ FinishFailed(i, s) \/ ClearRechecks(i, s))
    BY <2>3, <2>7 DEF RestoreStep, CancelBackground, TryLockActivity, DrainTimesOut, Exclusive,
         FinishRestored, ClearLooks, ClearStores, Goes, Shut, Restoring, Swap, Reopening
  <2> QED BY <2>4, <2>5, <2>6, <2>7
<1> QED BY <1>1, <1>2, <1>3, <1>4, ShutKeeps

LEMMA ProcessShut ==
  ASSUME GateInv, SchemaInv, NEW i \in Instances,
         \/ AcquireApplicationLease(i) \/ BootMigrate(i) \/ Monitor(i)
         \/ BeginShutdown(i) \/ DrainAndStop(i) \/ Exit(i) \/ Crash(i)
  PROVE  SchemaInv'
<1>1. TypeOK
  BY DEF GateInv
<1>2. CASE BootMigrate(i)
  BY <1>1, <1>2 DEF BootMigrate, SchemaInv, TypeOK
<1>3. CASE ~BootMigrate(i)
  <2>1. db' = db /\ OnlyAt(i)
    BY <1>1, <1>3, ProcessElsewhere DEF AcquireApplicationLease, Monitor, BeginShutdown, DrainAndStop,
         Exit, Crash
  <2>2. Fenced' => Fenced
    BY <1>1, <1>3 DEF AcquireApplicationLease, Monitor, BeginShutdown, DrainAndStop, Exit, Crash, Fenced,
         TypeOK
  <2>3. \A j \in Instances : j # i => (Serving(j)' <=> Serving(j)) /\ (ShutFor(j)' <=> ShutFor(j))
    BY <1>1, <1>3, <2>1 DEF OnlyAt, Untouched, ShutFor, Serving, TypeOK,
       AcquireApplicationLease, Monitor, BeginShutdown, DrainAndStop, Exit, Crash, Gone
  <2>4. Serving(i)' => Serving(i) /\ (ShutFor(i) => ShutFor(i)')
    BY <1>1, <1>3 DEF ShutFor, Serving, TypeOK, flags,
       AcquireApplicationLease, Monitor, BeginShutdown, DrainAndStop, Exit, Crash, Gone
  <2> QED BY <2>1, <2>2, <2>3, <2>4 DEF SchemaInv
<1> QED BY <1>2, <1>3

LEMMA OutsideShut ==
  ASSUME GateInv, LeaseInv, SchemaInv,
         \/ \E p \in Instances \cup {Cli} : LoseSession(p)
         \/ AcquireOfflineRestoreLease \/ CliRestore \/ CliReconcile \/ CliEnds
  PROVE  SchemaInv'
<1>1. TypeOK
  BY DEF GateInv
<1>2. UNCHANGED <<run, pc, maintenance>>
  BY DEF LoseSession, AcquireOfflineRestoreLease, CliRestore, CliReconcile, CliEnds, flags
<1>3. CASE \E p \in Instances \cup {Cli} : LoseSession(p)
  <2>1. spent'.losses = spent.losses + 1 /\ spent.losses \in Nat
    BY <1>1, <1>3 DEF LoseSession, TypeOK
  <2> QED BY <2>1 DEF SchemaInv, Fenced
<1>4. CASE CliRestore
  <2>1. Fenced' => Fenced
    BY <1>1, <1>4 DEF CliRestore, Fenced, TypeOK
  <2>2. Fenced => exclusive = Cli
    BY <1>4 DEF CliRestore, LeaseInv, CliIsExclusive
  <2>3. Fenced => \A j \in Instances : ~Serving(j)
    BY <2>2, Alone, NamesDistinct DEF Serving, Attached
  <2> QED BY <1>2, <2>1, <2>3 DEF SchemaInv, Serving
<1>5. CASE CliReconcile
  <2>1. db'.schema = "old" => db.schema = "old"
    BY <1>1, <1>5 DEF CliReconcile, Migrated, HeldOutbox, TypeOK
  <2>2. spent' = spent
    BY <1>5 DEF CliReconcile
  <2> QED BY <1>2, <2>1, <2>2 DEF SchemaInv, Fenced, Serving, ShutFor
<1>6. CASE AcquireOfflineRestoreLease \/ CliEnds
  BY <1>2, <1>6 DEF AcquireOfflineRestoreLease, CliEnds, SchemaInv, Fenced, Serving, ShutFor
<1> QED BY <1>3, <1>4, <1>5, <1>6

LEMMA StepShut == GateInv /\ LeaseInv /\ SchemaInv /\ [Next]_vars => SchemaInv'
<1> SUFFICES ASSUME GateInv, LeaseInv, SchemaInv, [Next]_vars PROVE SchemaInv' OBVIOUS
<1>1. CASE UNCHANGED vars
  BY <1>1 DEF vars, SchemaInv, Fenced, Serving, ShutFor
<1>2. ASSUME NEW i \in Instances, NEW s \in Slots,
             \/ RequestArrives(i, s) \/ TaskStarts(i, s) \/ ProcessMailOutbox(i, s)
             \/ BeginRestore(i, s) \/ JobStep(i, s) \/ RestoreStep(i, s)
      PROVE  SchemaInv'
  BY <1>2, ArrivalShut, MailShut, JobShut, RawShut, RestoreShut
<1> QED BY <1>1, <1>2, ProcessShut, OutsideShut DEF Next

(* Nobody works on a database whose schema is older than the program: the  *)
(* gate reopens only after the reconciliation's migrations, and a restart  *)
(* migrates before it serves (main.go, run).                               *)
THEOREM NobodyWorksOnOldSchema == Spec => []ServesCurrentSchema
<1> DEFINE All == GateInv /\ LeaseInv /\ SchemaInv
<1>1. Init => All
  BY InitInv, InitLease DEF Init, SchemaInv
<1>2. All /\ [Next]_vars => All'
  BY StepInv, StepLease, StepShut
<1>3. All => ServesCurrentSchema
  <2> SUFFICES ASSUME All, Fenced, NEW i \in Instances, NEW s \in Working(i)
               PROVE  db.schema = "current"
    BY DEF ServesCurrentSchema
  <2>1. s \in Slots /\ pc[i][s] \in {"working", "task"}
    BY DEF Working
  <2>2. Serving(i)
    BY <2>1 DEF LeaseInv, RestIsIdle, Serving
  <2>3. ~ShutFor(i)
    BY <2>1 DEF ShutFor, Shut
  <2> QED BY <2>2, <2>3 DEF SchemaInv, GateInv, TypeOK, Schemas
<1> QED BY <1>1, <1>2, <1>3, PTL DEF Spec
-----------------------------------------------------------------------------
(***************************************************************************)
(* Backups: the shape of files, clocks and actors.                         *)
(***************************************************************************)
\* The steps taken with the lease for heavy work; where an actor can be.
Heavy == {"dump", "promote", "prune", "done", "compare", "freshdump", "verify", "repair", "put",
          "reput", "check", "s3prune", "record", "rehearse", "rotate"}
Places == {"idle", "settle", "clear", "due", "acquire", "persist"} \cup Heavy
Jobs == {"none", "cli", "panel", "rotate"}
Results == {"none", "ok", "failed"}

Task == [pc : Places, dest : Dests, name : Nat, holds : Contents, ok : BOOLEAN, t : Nat,
         begun : Nat, due : SUBSET Dests, marked : SUBSET Dests, job : Jobs]
Clock == [last : Nat, retry : Nat, attempt : Nat]
Outcome == [is : Results, at : Nat]

FilesTyped ==
  /\ volume \in [Archives -> File \cup {Nothing}] /\ IsFiniteSet(Names(volume))
  /\ bucket \in [Archives -> Object \cup {Nothing}]

ClocksTyped ==
  /\ status \in [Dests -> Outcome] /\ row \in [Dests -> Clock]
  /\ now \in Nat /\ since \in [Dests -> Nat]

ActorsTyped == at \in [Actors -> Task]

BackupsTyped == FilesTyped /\ ClocksTyped /\ ActorsTyped

\* Every step but two is one actor's.
Turns(a, r) == r \in Task /\ at' = [at EXCEPT ![a] = r]

LEMMA TurnsTyped ==
  ASSUME ActorsTyped, NEW a \in Actors, NEW r, Turns(a, r)
  PROVE  ActorsTyped'
BY DEF ActorsTyped, Turns

LEMMA IdleTask ==
  /\ Idle \in Task /\ Idle.pc = "idle" /\ Idle.t = 0 /\ Idle.due = {} /\ Idle.name = 0
  /\ Idle.dest = "volume"
<1>1. /\ "idle" \in Places /\ "none" \in Jobs /\ "volume" \in Dests /\ {} \in SUBSET Dests
      /\ "intact" \in Contents
  BY DEF Dests, Places, Jobs, Contents
<1> QED
  BY <1>1 DEF Idle, Task

LEMMA Numbers == /\ Keep \in Nat /\ Keep > 0 /\ Retention \in Nat /\ Backoff \in Nat /\ Backoff > 0
                 /\ RunLimit \in Nat /\ Archives \subseteq Nat
BY NumbersNat

\* The newest and the next archive are archives.
LEMMA NewestStored ==
  ASSUME FilesTyped, Names(volume) # {}
  PROVE  Newest(volume) \in Names(volume)
<1>1. Names(volume) \in SUBSET Nat
  BY Numbers DEF Names
<1>2. PICK m \in Names(volume) : \A x \in Names(volume) : x <= m
  BY <1>1, FiniteGreatest DEF FilesTyped
<1>3. \A x \in Names(volume) : m >= x
  BY <1>1, <1>2
<1> QED
  BY <1>3 DEF Newest, Max

LEMMA LeastIn ==
  ASSUME NEW S \in SUBSET Nat, S # {}
  PROVE  Min(S) \in S
<1>1. PICK m \in S : \A x \in S : m <= x
  BY LeastOf
<1> QED
  BY <1>1 DEF Min

\* A step of an actor that touches no file.
LEMMA FilesStay ==
  ASSUME FilesTyped, UNCHANGED stored
  PROVE  FilesTyped'
BY DEF FilesTyped, stored, Names

LEMMA ClocksStay ==
  ASSUME ClocksTyped, UNCHANGED <<row, since, now>>,
         \/ UNCHANGED status
         \/ \E d \in Dests, is \in Results : SetStatus(d, is)
         \/ \E d \in Dests, is \in Results : status' = [status EXCEPT ![d] = [is |-> is, at |-> now]]
  PROVE  ClocksTyped'
<1>1. status' \in [Dests -> Outcome]
  BY DEF ClocksTyped, SetStatus, Outcome
<1> QED
  BY <1>1 DEF ClocksTyped

\* What an actor goes on with unless it ends or begins anew.
Stays(a, r) == /\ r.dest = at[a].dest /\ r.t = at[a].t /\ r.due = at[a].due /\ r.job = at[a].job
               /\ r.begun = at[a].begun

LEMMA GoesOn ==
  ASSUME ActorsTyped, NEW a \in Actors, NEW step \in Places, Go(a, step)
  PROVE  \E r : Turns(a, r) /\ r.pc = step /\ r.name = at[a].name /\ r.holds = at[a].holds /\ Stays(a, r)
<1>0. PICK r : r = [at[a] EXCEPT !.pc = step]
  OBVIOUS
<1>1. at[a] \in Task /\ at' = [at EXCEPT ![a] = r]
  BY <1>0 DEF ActorsTyped, Go
<1>2. /\ r \in Task /\ r.pc = step /\ r.name = at[a].name /\ Stays(a, r)
      /\ r.holds = at[a].holds
  BY <1>0, <1>1 DEF Task, Stays
<1> QED
  BY <1>0, <1>1, <1>2 DEF Turns

LEMMA FailsOn ==
  ASSUME ActorsTyped, NEW a \in Actors, NEW step \in Places, Fails(a, step)
  PROVE  \E r : Turns(a, r) /\ r.pc = step /\ r.name = at[a].name /\ r.holds = at[a].holds /\ Stays(a, r)
<1>0. PICK r : r = [at[a] EXCEPT !.pc = step, !.ok = FALSE]
  OBVIOUS
<1>1. at[a] \in Task /\ at' = [at EXCEPT ![a] = r]
  BY <1>0 DEF ActorsTyped, Fails
<1>2. /\ r \in Task /\ r.pc = step /\ r.name = at[a].name /\ Stays(a, r)
      /\ r.holds = at[a].holds
  BY <1>0, <1>1 DEF Task, Stays
<1> QED
  BY <1>0, <1>1, <1>2 DEF Turns

-----------------------------------------------------------------------------
(* The files.                                                              *)

Foreign(i) == bucket[i] # Nothing /\ ~bucket[i].owned

\* Who compares or replaces a copy does so with an own object and a dump that is there;
\* what is to be stored has passed the drill.
Writing == {"promote", "put", "reput", "check", "repair"}
Copying(r) ==
  /\ r.pc \in {"verify", "repair"} => r.name \in Names(volume) /\ ~Foreign(r.name)
  /\ r.pc \in Writing => r.holds = "intact"

AllWhole == \A i \in Names(volume) : volume[i].is # "cut"
HoldsWork == \A a \in Actors : at[a].pc \in Heavy => work = a

FileInv == AllWhole /\ HoldsWork /\ \A a \in Actors : Copying(at[a])

\* What a step may do to the files: the two action properties, and no new foreign object.
PrunesOnly(a) ==
  \A i \in Names(volume) : volume'[i] = Nothing => at[a].pc = "prune" /\ i \in Prunable
OffsiteStep ==
  \A i \in Names(bucket) :
    /\ ~bucket[i].owned => bucket'[i] # Nothing /\ ~bucket'[i].owned
    /\ bucket'[i] = Nothing => \/ Whole(i)
                               \/ Old(bucket[i]) /\ \E j \in Owned : j > i
NoNewForeign == \A i \in Archives : Foreign(i)' => Foreign(i)
FilesKept(a) == AllWhole' /\ PrunesOnly(a) /\ OffsiteStep /\ NoNewForeign

\* What it may do to the lease for heavy work.
WorkKept(a, r) == (r.pc \in Heavy => work' = a) /\ \A b \in Actors \ {a} : work = b => work' = b

Safe(a, r) == /\ FilesTyped' /\ ClocksTyped'
              /\ Turns(a, r) /\ FilesKept(a) /\ WorkKept(a, r) /\ Copying(r)'

LEMMA SafeKeepsFiles ==
  ASSUME BackupsTyped, FileInv, NEW a \in Actors, NEW r, Safe(a, r)
  PROVE  FileInv' /\ BackupsTyped'
<1>1. /\ AllWhole' /\ WorkKept(a, r) /\ NoNewForeign /\ PrunesOnly(a) /\ Copying(r)'
      /\ at' = [at EXCEPT ![a] = r] /\ DOMAIN at = Actors
  BY DEF Safe, FilesKept, Turns, BackupsTyped, ActorsTyped
<1>2. at'[a] = r /\ \A b \in Actors \ {a} : at'[b] = at[b]
  BY <1>1
<1>3. HoldsWork'
  BY <1>1, <1>2 DEF FileInv, HoldsWork, WorkKept
<1>4. ASSUME NEW b \in Actors PROVE Copying(at[b])'
  <2>1. CASE b = a
    BY <1>1, <1>2, <2>1 DEF Copying, Writing
  <2>2. CASE b # a
    <3>1. PICK q : q = at[b]
      OBVIOUS
    <3>2. at'[b] = q /\ Copying(q)
      BY <1>2, <2>2, <3>1 DEF FileInv
    <3>3. SUFFICES ASSUME q.pc \in {"verify", "repair"}
                   PROVE  q.name \in Names(volume)' /\ ~Foreign(q.name)'
      BY <3>2 DEF Copying, Writing
    <3>4. work = b /\ work # a
      BY <2>2, <3>1, <3>3 DEF FileInv, HoldsWork, Heavy
    <3>5. at[a].pc # "prune"
      BY <3>4 DEF FileInv, HoldsWork, Heavy
    <3>6. q.name \in Names(volume) /\ ~Foreign(q.name)
      BY <3>2, <3>3 DEF Copying, Writing
    <3>7. volume'[q.name] # Nothing
      BY <1>1, <3>5, <3>6 DEF PrunesOnly
    <3>8. q.name \in Names(volume)'
      BY <3>6, <3>7 DEF Names
    <3>9. ~Foreign(q.name)'
      BY <1>1, <3>6 DEF NoNewForeign, Names
    <3> QED
      BY <3>8, <3>9
  <2> QED
    BY <2>1, <2>2
<1>5. BackupsTyped'
  BY TurnsTyped DEF BackupsTyped, Safe
<1> QED
  BY <1>1, <1>3, <1>4, <1>5 DEF FileInv

\* A step that touches no file.
LEMMA FilesRest ==
  ASSUME FileInv, NEW a, UNCHANGED stored
  PROVE  FilesKept(a) /\ \A r : Copying(r) => Copying(r)'
<1>1. volume' = volume /\ bucket' = bucket
  BY DEF stored
<1>2. Names(volume)' = Names(volume) /\ NoNewForeign /\ \A i : Foreign(i)' <=> Foreign(i)
  BY <1>1 DEF Names, Foreign, NoNewForeign
<1>3. AllWhole' /\ PrunesOnly(a)
  BY <1>1 DEF FileInv, AllWhole, PrunesOnly, Names
<1>4. OffsiteStep
  BY <1>1 DEF OffsiteStep, Names
<1> QED
  BY <1>2, <1>3, <1>4 DEF FilesKept, Copying, Writing

\* A step of a run in progress.
RunStep(a, r) ==
  /\ Safe(a, r) /\ Stays(a, r) /\ at[a].pc \in Heavy /\ r.pc \in Heavy \cup {"persist"}
  /\ UNCHANGED <<row, since, scheduler, now>>

\* ... that leaves the files alone.
LEMMA QuietRun ==
  ASSUME BackupsTyped, FileInv, NEW a \in Actors, NEW r, Turns(a, r), Stays(a, r),
         at[a].pc \in Heavy, r.pc \in Heavy \cup {"persist"}, Copying(r),
         UNCHANGED stored, UNCHANGED <<row, since, scheduler, now>>,
         UNCHANGED work \/ (r.pc = "persist" /\ Finishes(a)),
         \/ UNCHANGED status
         \/ \E d \in Dests, is \in Results : SetStatus(d, is)
         \/ \E d \in Dests, is \in Results : status' = [status EXCEPT ![d] = [is |-> is, at |-> now]]
  PROVE  RunStep(a, r)
<1>1. FilesTyped' /\ ClocksTyped'
  BY FilesStay, ClocksStay DEF BackupsTyped
<1>2. FilesKept(a) /\ Copying(r)'
  BY FilesRest
<1>3. WorkKept(a, r)
  BY DEF WorkKept, Finishes, FileInv, HoldsWork, Heavy
<1> QED
  BY <1>1, <1>2, <1>3 DEF RunStep, Safe

LEMMA ResultKinds == {"volume", "s3", "rehearsal"} = Dests /\ {"ok", "failed"} \subseteq Results
                     /\ "persist" \in Places /\ Heavy \subseteq Places /\ "persist" \notin Heavy
BY DEF Dests, Results, Places, Heavy

\* A fresh dump that is kept has passed the drill.
LEMMA Drilled == \A is : Verified(is) => is = "intact"
BY DEF Verified, Restorable, ValidArchive

LEMMA DumpTurns ==
  ASSUME BackupsTyped, NEW a \in Actors, NEW step \in Places, Dumps(a, step)
  PROVE  \E i \in Unused : \E r :
           /\ \A j \in Unused : i <= j
           /\ Turns(a, r) /\ r.pc = step /\ r.name = i /\ r.holds = "intact"
           /\ r.ok = at[a].ok /\ Stays(a, r)
<1>1. PICK i \in Unused : /\ \A j \in Unused : i <= j
                          /\ at' = [at EXCEPT ![a].pc = step, ![a].name = i, ![a].holds = "intact"]
  BY Drilled DEF Dumps
<1>2. PICK r : r = [at[a] EXCEPT !.pc = step, !.name = i, !.holds = "intact"]
  OBVIOUS
<1>3. at' = [at EXCEPT ![a] = r] /\ at[a] \in Task /\ i \in Nat /\ "intact" \in Contents
  BY <1>1, <1>2, Numbers DEF Unused, BackupsTyped, ActorsTyped, Contents
<1>4. /\ r \in Task /\ r.pc = step /\ r.name = i /\ r.holds = "intact" /\ r.ok = at[a].ok
      /\ Stays(a, r)
  BY <1>2, <1>3 DEF Task, Stays
<1> QED
  BY <1>1, <1>3, <1>4 DEF Turns

LEMMA DumpRuns ==
  ASSUME BackupsTyped, FileInv, NEW a \in Actors, CreateVerifiedDump(a)
  PROVE  \E r : RunStep(a, r)
<1>1. CASE Dumps(a, "promote") /\ UNCHANGED <<status, work>>
  <2>1. PICK r : Turns(a, r) /\ r.pc = "promote" /\ r.holds = "intact" /\ Stays(a, r)
    BY <1>1, DumpTurns, ResultKinds DEF Heavy
  <2>2. Copying(r) /\ r.pc \in Heavy
    BY <2>1 DEF Copying, Writing, Heavy
  <2> QED
    BY <1>1, <2>1, <2>2, QuietRun DEF CreateVerifiedDump, clocks, Heavy
<1>2. CASE SetStatus("volume", "failed") /\ Fails(a, "persist") /\ Finishes(a)
  <2>1. PICK r : Turns(a, r) /\ r.pc = "persist" /\ r.name = at[a].name /\ Stays(a, r)
    BY <1>2, FailsOn, ResultKinds DEF BackupsTyped
  <2>2. Copying(r)
    BY <2>1 DEF Copying, Writing
  <2>3. \E d \in Dests, is \in Results : SetStatus(d, is)
    BY <1>2, ResultKinds
  <2> QED
    BY <1>2, <2>1, <2>2, <2>3, QuietRun DEF CreateVerifiedDump, clocks, Heavy
<1> QED
  BY <1>1, <1>2 DEF CreateVerifiedDump

\* An archive that is made or made anew.
LEMMA VolumeGains ==
  ASSUME FilesTyped, FileInv, NEW i \in Nat, NEW f \in File, f.is # "cut",
         volume' = [volume EXCEPT ![i] = f], bucket' = bucket, NEW a
  PROVE  FilesTyped' /\ FilesKept(a)
<1>1. /\ DOMAIN volume = Archives /\ f # Nothing
      /\ \A j \in Archives : volume'[j] = IF j = i THEN f ELSE volume[j]
  BY NothingIsNoFile DEF FilesTyped
<1>2. Names(volume) \subseteq Names(volume)' /\ Names(volume)' \subseteq Names(volume) \cup {i}
  BY <1>1 DEF Names
<1>3. IsFiniteSet(Names(volume)')
  BY <1>2, FS_AddElement, FS_Subset DEF FilesTyped
<1>4. FilesTyped'
  BY <1>1, <1>3 DEF FilesTyped
<1>5. AllWhole'
  BY <1>1 DEF AllWhole, FileInv, Names
<1>6. PrunesOnly(a)
  BY <1>2 DEF PrunesOnly, Names
<1>7. OffsiteStep /\ NoNewForeign
  BY DEF OffsiteStep, NoNewForeign, Foreign, Names
<1> QED
  BY <1>4, <1>5, <1>6, <1>7 DEF FilesKept

\* A run whose step changes files and nothing else.
LEMMA StoringRun ==
  ASSUME BackupsTyped, FileInv, NEW a \in Actors, NEW r, Turns(a, r), Stays(a, r),
         at[a].pc \in Heavy, r.pc \in Heavy, r.pc \notin {"verify", "repair"},
         r.pc \in Writing => r.holds = "intact", FilesTyped', FilesKept(a),
         UNCHANGED <<row, since, scheduler, now, status, work>>
  PROVE  RunStep(a, r)
<1>1. ClocksTyped'
  BY ClocksStay DEF BackupsTyped
<1>2. WorkKept(a, r) /\ Copying(r)'
  BY DEF WorkKept, FileInv, HoldsWork, Copying, Writing
<1> QED
  BY <1>1, <1>2 DEF RunStep, Safe

\* A run that failed and gives its lease back, and one that ends in good order.
LEMMA FailedRun ==
  ASSUME BackupsTyped, FileInv, NEW a \in Actors, at[a].pc \in Heavy, Fails(a, "persist"),
         UNCHANGED stored, UNCHANGED <<row, since, scheduler, now>>,
         Finishes(a), UNCHANGED status \/ \E d \in Dests : SetStatus(d, "failed")
  PROVE  \E r : RunStep(a, r)
<1>1. PICK r : Turns(a, r) /\ r.pc = "persist" /\ r.name = at[a].name /\ Stays(a, r)
  BY FailsOn, ResultKinds DEF BackupsTyped
<1>2. Copying(r)
  BY <1>1 DEF Copying, Writing
<1>3. UNCHANGED status \/ \E d \in Dests, is \in Results : SetStatus(d, is)
  BY ResultKinds
<1> QED
  BY <1>1, <1>2, <1>3, QuietRun

LEMMA EndedRun ==
  ASSUME BackupsTyped, FileInv, NEW a \in Actors, at[a].pc \in Heavy, Go(a, "persist"),
         UNCHANGED stored, UNCHANGED <<row, since, scheduler, now>>, Finishes(a),
         NEW d \in Dests, NEW is \in Results,
         status' = [status EXCEPT ![d] = [is |-> is, at |-> now]]
  PROVE  \E r : RunStep(a, r)
<1>1. PICK r : Turns(a, r) /\ r.pc = "persist" /\ r.name = at[a].name /\ Stays(a, r)
  BY GoesOn, ResultKinds DEF BackupsTyped
<1>2. Copying(r)
  BY <1>1 DEF Copying, Writing
<1> QED
  BY <1>1, <1>2, QuietRun

LEMMA PromoteRuns ==
  ASSUME BackupsTyped, FileInv, NEW a \in Actors, Promote(a)
  PROVE  \E r : RunStep(a, r)
<1>1. at[a].pc = "promote" /\ UNCHANGED <<bucket, row, since, scheduler, now>>
  BY DEF Promote, clocks
<1>2. CASE /\ volume' = [volume EXCEPT ![at[a].name] =
                          [key |-> "new", is |-> at[a].holds, at |-> now, made |-> now]]
           /\ Go(a, "prune") /\ UNCHANGED <<status, work>>
  <2>1. PICK r : Turns(a, r) /\ r.pc = "prune" /\ r.name = at[a].name /\ Stays(a, r)
    BY <1>2, GoesOn, ResultKinds DEF BackupsTyped, Heavy
  <2>2. at[a].holds = "intact" /\ at[a].name \in Nat /\ now \in Nat
    BY <1>1 DEF FileInv, Copying, Writing, BackupsTyped, ClocksTyped, ActorsTyped, Task
  <2>3. PICK f \in File : f = [key |-> "new", is |-> "intact", at |-> now, made |-> now]
    BY <2>2 DEF File, Contents
  <2>4. FilesTyped' /\ FilesKept(a)
    BY <1>1, <1>2, <2>2, <2>3, VolumeGains DEF BackupsTyped
  <2>5. r.pc \in Heavy /\ r.pc \notin Writing /\ r.pc \notin {"verify", "repair"}
    BY <2>1 DEF Heavy, Writing
  <2> QED
    BY <1>1, <1>2, <2>1, <2>4, <2>5, StoringRun DEF Heavy
<1>3. CASE SetStatus("volume", "failed") /\ Fails(a, "persist") /\ Finishes(a) /\ UNCHANGED volume
  BY <1>1, <1>3, FailedRun, ResultKinds DEF stored, Heavy
<1> QED
  BY <1>2, <1>3 DEF Promote

LEMMA PruneRuns ==
  ASSUME BackupsTyped, FileInv, NEW a \in Actors, Prune(a)
  PROVE  \E r : RunStep(a, r)
<1>1. at[a].pc = "prune" /\ Go(a, "done") /\ UNCHANGED <<bucket, row, since, scheduler, now, status, work>>
  BY DEF Prune, clocks, leases
<1>2. PICK r : Turns(a, r) /\ r.pc = "done" /\ r.name = at[a].name /\ Stays(a, r)
  BY <1>1, GoesOn, ResultKinds DEF BackupsTyped, Heavy
<1>3. /\ DOMAIN volume' = Archives /\ DOMAIN volume = Archives
      /\ volume' = [i \in Archives |-> volume'[i]]
      /\ \A i \in Archives : volume'[i] = volume[i] \/ (i \in Prunable /\ volume'[i] = Nothing)
  BY DEF Prune, BackupsTyped, FilesTyped
<1>4. Names(volume)' \subseteq Names(volume)
  BY <1>3 DEF Names
<1>5. FilesTyped'
  <2>1. IsFiniteSet(Names(volume)')
    BY <1>4, FS_Subset DEF BackupsTyped, FilesTyped
  <2>2. \A i \in Archives : volume'[i] \in File \cup {Nothing}
    BY <1>3 DEF BackupsTyped, FilesTyped
  <2> QED
    BY <1>1, <1>3, <2>1, <2>2 DEF BackupsTyped, FilesTyped
<1>6. AllWhole' /\ PrunesOnly(a)
  BY <1>1, <1>3 DEF AllWhole, FileInv, PrunesOnly, Names
<1>7. OffsiteStep /\ NoNewForeign
  BY <1>1 DEF OffsiteStep, NoNewForeign, Foreign, Names
<1>8. FilesKept(a)
  BY <1>6, <1>7 DEF FilesKept
<1> QED
  BY <1>1, <1>2, <1>5, <1>8, StoringRun DEF Heavy, Writing

LEMMA VolumeDoneRuns ==
  ASSUME BackupsTyped, FileInv, NEW a \in Actors, RunVolumeDone(a)
  PROVE  \E r : RunStep(a, r)
<1>1. /\ at[a].pc = "done" /\ at[a].pc \in Heavy /\ Finishes(a)
      /\ UNCHANGED stored /\ UNCHANGED <<row, since, scheduler, now>>
  BY DEF RunVolumeDone, clocks, Heavy
<1>2. CASE status' = [status EXCEPT !["volume"] = [is |-> "ok", at |-> now]] /\ Go(a, "persist")
  BY <1>1, <1>2, EndedRun, ResultKinds
<1>3. CASE Fails(a, "persist") /\ UNCHANGED status
  BY <1>1, <1>3, FailedRun
<1> QED
  BY <1>2, <1>3 DEF RunVolumeDone

LEMMA CompareRuns ==
  ASSUME BackupsTyped, FileInv, NEW a \in Actors, Compare(a)
  PROVE  \E r : RunStep(a, r)
<1>1. /\ at[a].pc = "compare" /\ at[a].pc \in Heavy /\ UNCHANGED stored /\ UNCHANGED status
      /\ UNCHANGED <<row, since, scheduler, now>> /\ at[a] \in Task
  BY DEF Compare, clocks, Heavy, BackupsTyped, ActorsTyped
<1>2. CASE Go(a, "freshdump") /\ UNCHANGED work
  <2>1. PICK r : Turns(a, r) /\ r.pc = "freshdump" /\ r.name = at[a].name /\ Stays(a, r)
    BY <1>2, GoesOn, ResultKinds DEF BackupsTyped, Heavy
  <2>2. Copying(r) /\ r.pc \in Heavy
    BY <2>1 DEF Copying, Writing, Heavy
  <2> QED
    BY <1>1, <1>2, <2>1, <2>2, QuietRun
<1>3. CASE LET n == Newest(volume) IN
           /\ ~(Names(volume) = {} \/ (bucket[n] # Nothing /\ ~bucket[n].owned))
           /\ at' = [at EXCEPT ![a].name = n, ![a].holds = volume[n].is,
                ![a].pc = IF bucket[n] # Nothing THEN "verify"
                          ELSE IF Restorable(volume[n]) THEN "put" ELSE "record",
                ![a].ok = bucket[n] # Nothing \/ Restorable(volume[n])]
           /\ UNCHANGED work
  <2>1. PICK n \in Names(volume) : n = Newest(volume)
    BY <1>3, NewestStored DEF BackupsTyped
  <2>2. n \in Nat /\ ~Foreign(n)
    BY <1>3, <2>1, Numbers DEF Names, Foreign
  <2>3. PICK step \in {"verify", "put", "record"} :
          step = IF bucket[n] # Nothing THEN "verify"
                 ELSE IF Restorable(volume[n]) THEN "put" ELSE "record"
    OBVIOUS
  <2>4. PICK done \in BOOLEAN : done = (bucket[n] # Nothing \/ Restorable(volume[n]))
    OBVIOUS
  <2>9. PICK holds \in Contents : holds = volume[n].is
    BY <2>1 DEF BackupsTyped, FilesTyped, Names, File
  <2>0. PICK r : r = [at[a] EXCEPT !.name = n, !.holds = holds, !.pc = step, !.ok = done]
    OBVIOUS
  <2>5. at' = [at EXCEPT ![a] = r]
    BY <2>0, <1>3, <2>1, <2>3, <2>4, <2>9
  <2>6. r \in Task /\ r.pc = step /\ r.name = n /\ r.holds = holds /\ Stays(a, r)
    BY <2>0, <1>1, <2>2 DEF Task, Stays, Places, Heavy
  <2>7. Turns(a, r)
    BY <2>0, <2>5, <2>6 DEF Turns
  <2>10. step = "put" => holds = "intact"
    BY <2>3, <2>9 DEF Restorable, ValidArchive
  <2>8. Copying(r) /\ r.pc \in Heavy
    BY <2>1, <2>2, <2>6, <2>10 DEF Copying, Writing, Heavy
  <2> QED
    BY <1>1, <1>3, <2>6, <2>7, <2>8, QuietRun
<1>4. CASE Fails(a, "record") /\ UNCHANGED work
  <2>1. PICK r : Turns(a, r) /\ r.pc = "record" /\ r.name = at[a].name /\ Stays(a, r)
    BY <1>4, FailsOn, ResultKinds DEF BackupsTyped, Heavy
  <2>2. Copying(r) /\ r.pc \in Heavy
    BY <2>1 DEF Copying, Writing, Heavy
  <2> QED
    BY <1>1, <1>4, <2>1, <2>2, QuietRun
<1>5. CASE Fails(a, "persist") /\ Finishes(a)
  BY <1>1, <1>5, FailedRun
<1> QED
  BY <1>2, <1>3, <1>4, <1>5 DEF Compare

\* The panel's run ends at once when its dump fails.
LEMMA FreshDumpRuns ==
  ASSUME BackupsTyped, FileInv, NEW a \in Actors, FreshDump(a)
  PROVE  \/ \E r : RunStep(a, r)
         \/ at' = [at EXCEPT ![a] = Idle] /\ work' = Freed(work, a)
<1>1. /\ at[a].pc = "freshdump" /\ at[a].pc \in Heavy /\ UNCHANGED stored /\ UNCHANGED status
      /\ UNCHANGED <<row, since, scheduler, now>> /\ at[a] \in Task
  BY DEF FreshDump, clocks, Heavy, BackupsTyped, ActorsTyped
<1>2. CASE Dumps(a, "put") /\ UNCHANGED work
  <2>1. PICK r : Turns(a, r) /\ r.pc = "put" /\ r.holds = "intact" /\ Stays(a, r)
    BY <1>2, DumpTurns, ResultKinds DEF Heavy
  <2>2. Copying(r) /\ r.pc \in Heavy
    BY <2>1 DEF Copying, Writing, Heavy
  <2> QED
    BY <1>1, <1>2, <2>1, <2>2, QuietRun
<1>3. CASE Fails(a, "persist") /\ Finishes(a)
  BY <1>1, <1>3, FailedRun
<1> QED
  BY <1>2, <1>3 DEF FreshDump

LEMMA VerifyRuns ==
  ASSUME BackupsTyped, FileInv, NEW a \in Actors, VerifyMirroredCopy(a)
  PROVE  \E r : RunStep(a, r)
<1>1. /\ at[a].pc = "verify" /\ at[a].pc \in Heavy /\ UNCHANGED stored /\ UNCHANGED status
      /\ UNCHANGED <<row, since, scheduler, now, work>> /\ at[a] \in Task
  BY DEF VerifyMirroredCopy, clocks, leases, Heavy, BackupsTyped, ActorsTyped
<1>2. PICK i \in Nat : i = at[a].name
  BY <1>1 DEF Task
<1>8. i \in Names(volume) /\ ~Foreign(i)
  BY <1>1, <1>2 DEF FileInv, Copying
<1>3. PICK holds \in Contents : holds = volume[i].is
  BY <1>8 DEF BackupsTyped, FilesTyped, Names, File
<1>4. Restorable(volume[i]) => holds = "intact"
  BY <1>3 DEF Restorable, ValidArchive
<1>5. PICK step \in {"record", "s3prune", "repair"}, ok \in BOOLEAN, kept \in Contents :
        /\ at' = [at EXCEPT ![a].pc = step, ![a].ok = ok, ![a].holds = kept]
        /\ step = "repair" => kept = "intact"
  <2>1. at[a].ok \in BOOLEAN /\ at[a].holds \in Contents /\ at \in [Actors -> Task]
    BY <1>1 DEF Task, BackupsTyped, ActorsTyped
  <2>2. CASE at' = [at EXCEPT ![a].pc = IF ~Restorable(volume[i]) THEN "record"
                                        ELSE IF Same(i) THEN "s3prune" ELSE "repair",
                              ![a].ok = Restorable(volume[i]), ![a].holds = volume[i].is]
    <3>1. PICK step \in {"record", "s3prune", "repair"}, ok \in BOOLEAN :
            /\ step = IF ~Restorable(volume[i]) THEN "record" ELSE IF Same(i) THEN "s3prune" ELSE "repair"
            /\ ok = Restorable(volume[i])
      BY DEF Restorable
    <3>2. at' = [at EXCEPT ![a].pc = step, ![a].ok = ok, ![a].holds = holds]
      BY <2>2, <3>1, <1>3
    <3> QED
      BY <1>4, <3>1, <3>2
  <2>3. CASE Restorable(volume[i]) /\ at' = [at EXCEPT ![a].pc = "repair", ![a].holds = volume[i].is]
    <3>1. at' = [at EXCEPT ![a].pc = "repair", ![a].ok = at[a].ok, ![a].holds = holds]
      BY <1>3, <2>1, <2>3 DEF Task
    <3> QED
      BY <1>4, <2>1, <2>3, <3>1
  <2>4. CASE Fails(a, "record")
    <3>1. at' = [at EXCEPT ![a].pc = "record", ![a].ok = FALSE, ![a].holds = at[a].holds]
      BY <2>1, <2>4 DEF Fails, Task
    <3> QED
      BY <2>1, <3>1
  <2> QED
    BY <1>2, <2>2, <2>3, <2>4 DEF VerifyMirroredCopy
<1>0. PICK r : r = [at[a] EXCEPT !.pc = step, !.ok = ok, !.holds = kept]
  OBVIOUS
<1>6. r \in Task /\ r.pc = step /\ r.name = i /\ r.holds = kept /\ Stays(a, r)
  BY <1>0, <1>1, <1>2 DEF Task, Stays, Places, Heavy
<1>7. Turns(a, r)
  BY <1>0, <1>5, <1>6 DEF Turns
<1>9. Copying(r) /\ r.pc \in Heavy
  BY <1>5, <1>6, <1>8 DEF Copying, Writing, Heavy
<1> QED
  BY <1>1, <1>6, <1>7, <1>9, QuietRun

LEMMA BucketChanges ==
  ASSUME FilesTyped, FileInv, NEW a, volume' = volume,
         bucket' \in [Archives -> Object \cup {Nothing}], OffsiteStep, NoNewForeign
  PROVE  FilesTyped' /\ FilesKept(a)
<1>1. Names(volume)' = Names(volume)
  BY DEF Names
<1>2. AllWhole' /\ PrunesOnly(a)
  BY <1>1 DEF AllWhole, FileInv, PrunesOnly, Names
<1> QED
  BY <1>1, <1>2 DEF FilesTyped, FilesKept

\* An object put where none was.
LEMMA BucketGains ==
  ASSUME FilesTyped, FileInv, NEW a, NEW i, NEW is \in Contents, now \in Nat,
         bucket[i] = Nothing, volume' = volume, bucket' = Uploaded(i, is)
  PROVE  FilesTyped' /\ FilesKept(a)
<1>1. PICK f \in Object : f = [owned |-> TRUE, key |-> "new", is |-> is, at |-> now]
  BY DEF Object
<1>2. f.owned /\ f # Nothing /\ DOMAIN bucket = Archives
  BY <1>1, NothingIsNoFile DEF FilesTyped
<1>3. /\ bucket' \in [Archives -> Object \cup {Nothing}]
      /\ \A j \in Archives : bucket'[j] = IF j = i THEN f ELSE bucket[j]
  BY <1>1, <1>2 DEF Uploaded, FilesTyped
<1>4. OffsiteStep
  BY <1>2, <1>3 DEF OffsiteStep, Names
<1>5. NoNewForeign
  BY <1>2, <1>3 DEF NoNewForeign, Foreign
<1> QED
  BY <1>3, <1>4, <1>5, BucketChanges

LEMMA RepairRuns ==
  ASSUME BackupsTyped, FileInv, NEW a \in Actors, RepairRemoves(a)
  PROVE  \E r : RunStep(a, r)
<1>1. /\ at[a].pc = "repair" /\ at[a].pc \in Heavy /\ UNCHANGED volume
      /\ UNCHANGED <<row, since, scheduler, now, status, work>>
  BY DEF RepairRemoves, clocks, leases, Heavy
<1>2. CASE bucket' = [bucket EXCEPT ![at[a].name] = Nothing] /\ Go(a, "reput")
  <2>1. PICK r : Turns(a, r) /\ r.pc = "reput" /\ r.holds = at[a].holds /\ Stays(a, r)
    BY <1>2, GoesOn, ResultKinds DEF BackupsTyped, Heavy
  <2>10. at[a].holds = "intact"
    BY <1>1 DEF FileInv, Copying, Writing
  <2>2. PICK i : i = at[a].name
    OBVIOUS
  <2>3. i \in Names(volume) /\ ~Foreign(i)
    BY <1>1, <2>2 DEF FileInv, Copying, Writing
  <2>4. Whole(i)
    BY <2>3 DEF FileInv, AllWhole, Whole, Names
  <2>5. /\ bucket' \in [Archives -> Object \cup {Nothing}]
        /\ \A j \in Archives : bucket'[j] = IF j = i THEN Nothing ELSE bucket[j]
    BY <1>2, <2>2 DEF BackupsTyped, FilesTyped
  <2>6. OffsiteStep
    BY <2>3, <2>4, <2>5 DEF OffsiteStep, Names, Foreign
  <2>7. NoNewForeign
    BY <2>5 DEF NoNewForeign, Foreign
  <2>8. FilesTyped' /\ FilesKept(a)
    BY <1>1, <2>5, <2>6, <2>7, BucketChanges DEF BackupsTyped
  <2>9. r.pc \in Heavy /\ r.pc \notin {"verify", "repair"}
    BY <2>1 DEF Heavy
  <2> QED
    BY <1>1, <2>1, <2>8, <2>9, <2>10, StoringRun
<1>3. CASE Fails(a, "record") /\ UNCHANGED bucket
  <2>1. PICK r : Turns(a, r) /\ r.pc = "record" /\ r.name = at[a].name /\ Stays(a, r)
    BY <1>3, FailsOn, ResultKinds DEF BackupsTyped, Heavy
  <2>2. Copying(r) /\ r.pc \in Heavy
    BY <2>1 DEF Copying, Writing, Heavy
  <2> QED
    BY <1>1, <1>3, <2>1, <2>2, QuietRun DEF stored
<1> QED
  BY <1>2, <1>3 DEF RepairRemoves

LEMMA UploadRuns ==
  ASSUME BackupsTyped, FileInv, NEW a \in Actors, UploadS3(a)
  PROVE  \E r : RunStep(a, r)
<1>1. /\ at[a].pc \in {"put", "reput"} /\ at[a].pc \in Heavy /\ UNCHANGED volume
      /\ UNCHANGED <<row, since, scheduler, now, status, work>> /\ now \in Nat
  BY DEF UploadS3, clocks, leases, Heavy, BackupsTyped, ClocksTyped
<1>2. PICK i : i = at[a].name
  OBVIOUS
<1>9. at[a].holds = "intact" /\ {"intact", "cut"} \subseteq Contents
  BY <1>1 DEF FileInv, Copying, Writing, Contents
<1>3. ASSUME NEW is \in Contents, bucket[i] = Nothing, bucket' = Uploaded(i, is)
      PROVE  FilesTyped' /\ FilesKept(a)
  BY <1>1, <1>3, BucketGains DEF BackupsTyped
<1>4. ASSUME bucket' = bucket
      PROVE  FilesTyped' /\ FilesKept(a)
  BY <1>1, <1>4, FilesStay, FilesRest DEF BackupsTyped, stored
<1>5. FilesTyped' /\ FilesKept(a)
  <2>1. /\ bucket[i] = Nothing
        /\ bucket' = Uploaded(i, "intact") \/ bucket' = Uploaded(i, "cut") \/ bucket' = bucket
    BY <1>2, <1>9 DEF UploadS3
  <2> QED
    BY <1>3, <1>4, <1>9, <2>1
<1>6. \E r : Turns(a, r) /\ r.pc \in {"check", "record"} /\ r.holds = at[a].holds /\ Stays(a, r)
  <2>1. CASE Go(a, "check")
    BY <2>1, GoesOn, ResultKinds DEF BackupsTyped, Heavy
  <2>2. CASE Fails(a, "record")
    BY <2>2, FailsOn, ResultKinds DEF BackupsTyped, Heavy
  <2> QED
    BY <2>1, <2>2 DEF UploadS3
<1>7. PICK r : Turns(a, r) /\ r.pc \in {"check", "record"} /\ r.holds = at[a].holds /\ Stays(a, r)
  BY <1>6
<1>8. r.pc \in Heavy /\ r.pc \notin {"verify", "repair"}
  BY <1>7 DEF Heavy
<1> QED
  BY <1>1, <1>5, <1>7, <1>8, <1>9, StoringRun

LEMMA CheckRuns ==
  ASSUME BackupsTyped, FileInv, NEW a \in Actors, VerifyS3Object(a)
  PROVE  \E r : RunStep(a, r)
<1>1. /\ at[a].pc = "check" /\ at[a].pc \in Heavy /\ UNCHANGED stored /\ UNCHANGED status
      /\ UNCHANGED <<row, since, scheduler, now, work>>
  BY DEF VerifyS3Object, clocks, leases, Heavy
<1>2. Go(a, "record") \/ Go(a, "s3prune") \/ Fails(a, "record")
  BY DEF VerifyS3Object
<1>3. \E r : Turns(a, r) /\ r.pc \in {"record", "s3prune"} /\ Stays(a, r)
  <2>1. {"record", "s3prune"} \subseteq Places
    BY DEF Places, Heavy
  <2> QED
    BY <1>2, <2>1, GoesOn, FailsOn DEF BackupsTyped
<1>4. PICK r : Turns(a, r) /\ r.pc \in {"record", "s3prune"} /\ Stays(a, r)
  BY <1>3
<1>5. Copying(r) /\ r.pc \in Heavy
  BY <1>4 DEF Copying, Writing, Heavy
<1> QED
  BY <1>1, <1>4, <1>5, QuietRun

LEMMA OffsitePruneRuns ==
  ASSUME BackupsTyped, FileInv, NEW a \in Actors, PruneS3(a)
  PROVE  \E r : RunStep(a, r)
<1>1. /\ at[a].pc = "s3prune" /\ at[a].pc \in Heavy /\ UNCHANGED volume /\ Go(a, "record")
      /\ UNCHANGED <<row, since, scheduler, now, status, work>>
  BY DEF PruneS3, clocks, leases, Heavy
<1>2. PICK r : Turns(a, r) /\ r.pc = "record" /\ r.name = at[a].name /\ Stays(a, r)
  BY <1>1, GoesOn, ResultKinds DEF BackupsTyped, Heavy
<1>3. r.pc \in Heavy /\ r.pc \notin {"verify", "repair"} /\ r.pc \notin Writing
  BY <1>2 DEF Heavy, Writing
<1>4. FilesTyped' /\ FilesKept(a)
  <2>2. ASSUME NEW gone \in SUBSET PrunableS3,
               bucket' = [i \in Archives |-> IF i \in gone THEN Nothing ELSE bucket[i]]
        PROVE  FilesTyped' /\ FilesKept(a)
    <3>1. \A i \in Archives :
            \/ bucket'[i] = bucket[i]
            \/ i \in Owned /\ NewerThan(i, Owned) >= Keep /\ Old(bucket[i]) /\ bucket'[i] = Nothing
      BY <2>2 DEF PrunableS3
    <3>2. bucket' \in [Archives -> Object \cup {Nothing}]
      BY <2>2 DEF BackupsTyped, FilesTyped
    <3>3. ASSUME NEW i, NewerThan(i, Owned) >= Keep
          PROVE  \E j \in Owned : j > i
      <4>1. CASE {j \in Owned : j > i} = {}
        <5>1. Cardinality({j \in Owned : j > i}) = 0
          BY <4>1, FS_EmptySet
        <5> QED
          BY <3>3, <5>1, Numbers DEF NewerThan
      <4> QED
        BY <4>1
    <3>4. OffsiteStep
      BY <3>1, <3>3 DEF OffsiteStep, Names, Owned
    <3>5. NoNewForeign
      BY <3>1 DEF NoNewForeign, Foreign
    <3> QED
      BY <1>1, <3>2, <3>4, <3>5, BucketChanges DEF BackupsTyped
  <2> QED
    BY <2>2 DEF PruneS3
<1> QED
  BY <1>1, <1>2, <1>3, <1>4, StoringRun

LEMMA RecordRuns ==
  ASSUME BackupsTyped, FileInv, NEW a \in Actors, RecordS3Result(a)
  PROVE  \E r : RunStep(a, r)
<1>1. /\ at[a].pc = "record" /\ at[a].pc \in Heavy /\ Finishes(a)
      /\ UNCHANGED stored /\ UNCHANGED <<row, since, scheduler, now>>
  BY DEF RecordS3Result, clocks, Heavy
<1>2. PICK is \in Results : is = IF at[a].ok THEN "ok" ELSE "failed"
  BY ResultKinds
<1>3. CASE status' = [status EXCEPT !["s3"] = [is |-> is, at |-> now]] /\ Go(a, "persist")
  BY <1>1, <1>3, EndedRun, ResultKinds
<1>4. CASE Fails(a, "persist") /\ UNCHANGED status
  BY <1>1, <1>4, FailedRun
<1> QED
  BY <1>2, <1>3, <1>4 DEF RecordS3Result

LEMMA RehearseRuns ==
  ASSUME BackupsTyped, FileInv, NEW a \in Actors, RehearseNewest(a)
  PROVE  \E r : RunStep(a, r)
<1>1. /\ at[a].pc = "rehearse" /\ at[a].pc \in Heavy /\ Finishes(a)
      /\ UNCHANGED stored /\ UNCHANGED <<row, since, scheduler, now>>
  BY DEF RehearseNewest, clocks, Heavy
<1>2. CASE status' = [status EXCEPT !["rehearsal"] = [is |-> "ok", at |-> now]] /\ Go(a, "persist")
  BY <1>1, <1>2, EndedRun, ResultKinds
<1>3. CASE Fails(a, "persist") /\ SetStatus("rehearsal", "failed")
  BY <1>1, <1>3, FailedRun, ResultKinds
<1> QED
  BY <1>2, <1>3 DEF RehearseNewest

LEMMA RotateRuns ==
  ASSUME BackupsTyped, FileInv, NEW a \in Actors, RotateKey(a)
  PROVE  \E r : RunStep(a, r)
<1> DEFINE rest == {i \in Names(volume) : i > at[a].name}
<1>1. /\ at[a].pc = "rotate" /\ at[a].pc \in Heavy /\ rest # {} /\ at[a] \in Task
      /\ UNCHANGED <<bucket, row, since, scheduler, now, status, work>>
  BY DEF RotateKey, clocks, leases, Heavy, BackupsTyped, ActorsTyped
<1>2. rest \in SUBSET Nat
  BY Numbers DEF Names
<1>3. PICK i \in rest : i = Min(rest)
  <2> HIDE DEF rest
  <2> QED
    BY <1>1, <1>2, LeastIn
<1>4. /\ i \in Nat /\ i \in Names(volume)
      /\ at' = [at EXCEPT ![a].name = i]
      /\ \/ volume' = [volume EXCEPT ![i].key = "new", ![i].is = "intact", ![i].at = now]
         \/ volume' = volume
  BY <1>2, <1>3, Drilled DEF RotateKey
<1>0. PICK r : r = [at[a] EXCEPT !.name = i]
  OBVIOUS
<1>5. r \in Task /\ r.pc = "rotate" /\ Stays(a, r) /\ at' = [at EXCEPT ![a] = r]
  BY <1>0, <1>1, <1>4 DEF Task, Stays
<1>6. Turns(a, r)
  BY <1>0, <1>5 DEF Turns
<1> HIDE DEF rest
<1>7. r.pc \in Heavy /\ r.pc \notin {"verify", "repair"} /\ r.pc \notin Writing
  BY <1>5 DEF Heavy, Writing
<1>8. FilesTyped' /\ FilesKept(a)
  <2>1. CASE volume' = volume
    BY <1>1, <2>1, FilesStay, FilesRest DEF BackupsTyped, stored
  <2>2. CASE volume' = [volume EXCEPT ![i].key = "new", ![i].is = "intact", ![i].at = now]
    <3>1. PICK f \in File : f = volume[i]
      BY <1>4 DEF Names, BackupsTyped, FilesTyped
    <3>2. PICK g : g = [f EXCEPT !.key = "new", !.is = "intact", !.at = now]
      OBVIOUS
    <3>3. g \in File /\ g.is = "intact"
      BY <3>1, <3>2 DEF File, Contents, BackupsTyped, ClocksTyped
    <3>4. volume' = [volume EXCEPT ![i] = g]
      BY <2>2, <3>1, <3>2 DEF BackupsTyped, FilesTyped
    <3> QED
      BY <1>1, <1>4, <3>3, <3>4, VolumeGains DEF BackupsTyped
  <2> QED
    BY <1>4, <2>1, <2>2
<1> QED
  BY <1>1, <1>5, <1>6, <1>7, <1>8, StoringRun

\* Any step of a run.
RunSteps(a) ==
  \/ CreateVerifiedDump(a) \/ Promote(a) \/ Prune(a) \/ RunVolumeDone(a)
  \/ Compare(a) \/ FreshDump(a) \/ VerifyMirroredCopy(a) \/ RepairRemoves(a)
  \/ UploadS3(a) \/ VerifyS3Object(a) \/ PruneS3(a) \/ RecordS3Result(a)
  \/ RehearseNewest(a) \/ RotateKey(a)

LEMMA RunsStep ==
  ASSUME BackupsTyped, FileInv, NEW a \in Actors, RunSteps(a)
  PROVE  \/ \E r : RunStep(a, r)
         \/ FreshDump(a) /\ at' = [at EXCEPT ![a] = Idle] /\ work' = Freed(work, a)
<1>1. CASE FreshDump(a)
  BY <1>1, FreshDumpRuns
<1>2. CASE CreateVerifiedDump(a) \/ Promote(a) \/ Prune(a) \/ RunVolumeDone(a)
  BY <1>2, DumpRuns, PromoteRuns, PruneRuns, VolumeDoneRuns
<1>3. CASE Compare(a) \/ VerifyMirroredCopy(a) \/ RepairRemoves(a) \/ UploadS3(a)
  BY <1>3, CompareRuns, VerifyRuns, RepairRuns, UploadRuns
<1>4. CASE VerifyS3Object(a) \/ PruneS3(a) \/ RecordS3Result(a) \/ RehearseNewest(a) \/ RotateKey(a)
  BY <1>4, CheckRuns, OffsitePruneRuns, RecordRuns, RehearseRuns, RotateRuns
<1> QED
  BY <1>1, <1>2, <1>3, <1>4 DEF RunSteps

-----------------------------------------------------------------------------
(* The clocks.                                                             *)

\* How late in its tick a run of a destination may begin.
Lag(d) == Before[d] * RunLimit

LEMMA Lags == /\ \A d \in Dests : Lag(d) \in Nat
              /\ Lag("volume") = 0
              /\ \A d \in Dests \ {"rehearsal"} : Lag(NextDest[d]) = Lag(d) + RunLimit
<1>1. RunLimit \in Nat
  BY Numbers
<1>2. /\ Before["volume"] = 0 /\ Before["s3"] = 1 /\ Before["rehearsal"] = 2
      /\ NextDest["volume"] = "s3" /\ NextDest["s3"] = "rehearsal"
  BY DEF Before, NextDest
<1>3. 0 * RunLimit = 0 /\ 1 * RunLimit = RunLimit /\ 2 * RunLimit = RunLimit + RunLimit
  BY <1>1
<1>4. Lag("volume") = 0 /\ Lag("s3") = RunLimit /\ Lag("rehearsal") = RunLimit + RunLimit
  BY <1>2, <1>3 DEF Lag
<1> QED
  BY <1>1, <1>2, <1>4 DEF Dests

Spaced(d, x, t) == x # Never => t + Lag(d) >= x + Backoff

\* An attempt has its retry clock, and so has the last heavy run.
RetryHeld ==
  \A d \in Dests :
    /\ since[d] <= now /\ row[d].attempt <= now
    /\ row[d].attempt # Never => row[d].retry = row[d].attempt + Backoff
    /\ Spaced(d, since[d], row[d].retry)

\* A tick looks what is due; a run has been marked.
Looking == {"settle", "clear", "due"}
Marking == {"acquire", "persist"} \cup Heavy

\* What a ticker found due, or set out to run, is spaced from the last heavy run; a tick is
\* no later than its runs so far allow.
TickOK(r) ==
  r.pc # "idle" =>
    /\ \A d \in r.due : r.pc \in Looking \/ d # r.dest => Spaced(d, since[d], r.t)
    /\ r.pc = "acquire" => Spaced(r.dest, since[r.dest], r.t) /\ row[r.dest].attempt \in {Never, r.t}
    /\ r.pc \notin Looking => since[r.dest] <= r.t + Lag(r.dest)
    /\ r.pc \in Looking \cup {"acquire"} => now <= r.t + Lag(r.dest)
    /\ r.pc \in Marking => r.begun <= r.t + Lag(r.dest) /\ now <= r.begun + RunLimit

OneScheduler == \A p \in Tickers : at[p].pc # "idle" => scheduler = p

ClockInv ==
  /\ RetryHeld /\ OneScheduler
  /\ \A a \in Actors : at[a].t <= now
  /\ \A p \in Tickers : TickOK(at[p])

\* Clocks that are cleared or stay.
Fades == \A d \in Dests : /\ since'[d] \in {since[d], Never}
                          /\ row'[d].attempt \in {row[d].attempt, Never}

ClockStep(a, r) ==
  /\ Turns(a, r) /\ now' = now /\ r.t <= now /\ RetryHeld'
  /\ a \in Tickers /\ r.pc # "idle" => scheduler' = a
  /\ \A p \in Tickers \ {a} : scheduler = p => scheduler' = p
  /\ a \in Tickers => TickOK(r)'
  /\ \/ Fades
     \/ a \in Tickers /\ \A p \in Tickers \ {a} : at[p].pc = "idle"

\* What TickOK says of a step, with the clocks as they will be.
TickNext(r) ==
  /\ \A d \in r.due : r.pc \in Looking \/ d # r.dest => Spaced(d, since'[d], r.t)
  /\ r.pc = "acquire" => Spaced(r.dest, since'[r.dest], r.t) /\ row'[r.dest].attempt \in {Never, r.t}
  /\ r.pc \notin Looking => since'[r.dest] <= r.t + Lag(r.dest)
  /\ r.pc \in Looking \cup {"acquire"} => now' <= r.t + Lag(r.dest)
  /\ r.pc \in Marking => r.begun <= r.t + Lag(r.dest) /\ now' <= r.begun + RunLimit

LEMMA TickIs ==
  ASSUME NEW r, r.pc # "idle" => TickNext(r)
  PROVE  TickOK(r)'
BY DEF TickOK, TickNext, Spaced, Lag

LEMMA TickFades ==
  ASSUME ClocksTyped, ClocksTyped', NEW r \in Task, TickOK(r), Fades, now' = now
  PROVE  TickOK(r)'
<1>1. SUFFICES ASSUME r.pc # "idle" PROVE TickNext(r)
  BY TickIs
<1>2. r.dest \in Dests /\ r.due \subseteq Dests /\ r.t \in Nat
  BY DEF Task
<1>3. \A d \in Dests : /\ since[d] \in Nat /\ since'[d] \in {since[d], 0}
                       /\ row'[d].attempt \in {row[d].attempt, 0}
  BY DEF ClocksTyped, Fades, Never
<1>4. \A d \in Dests : Spaced(d, since[d], r.t) => Spaced(d, since'[d], r.t)
  BY <1>3 DEF Spaced, Never
<1>5. ASSUME NEW d \in Dests, since[d] <= r.t + Lag(d) PROVE since'[d] <= r.t + Lag(d)
  <2>1. r.t + Lag(d) \in Nat
    BY <1>2, Lags
  <2> QED
    BY <1>3, <1>5, <2>1
<1> QED
  BY <1>1, <1>2, <1>3, <1>4, <1>5 DEF TickOK, TickNext, Never

LEMMA OthersIdle ==
  ASSUME ClockInv, NEW p \in Tickers, at[p].pc # "idle" \/ scheduler = p \/ scheduler = Nothing
  PROVE  \A q \in Tickers \ {p} : at[q].pc = "idle"
BY ActorsDistinct DEF ClockInv, OneScheduler

LEMMA ClockStepKeeps ==
  ASSUME BackupsTyped, ClocksTyped', ClockInv, NEW a \in Actors, NEW r, ClockStep(a, r)
  PROVE  ClockInv'
<1>1. at'[a] = r /\ r \in Task /\ \A b \in Actors \ {a} : at'[b] = at[b]
  BY DEF ClockStep, Turns, BackupsTyped, ActorsTyped
<1>2. RetryHeld'
  BY DEF ClockStep
<1>3. \A b \in Actors : at'[b].t <= now'
  BY <1>1 DEF ClockStep, ClockInv
<1>4. OneScheduler'
  BY <1>1 DEF ClockStep, ClockInv, OneScheduler, Actors
<1>5. ASSUME NEW p \in Tickers PROVE TickOK(at[p])'
  <2>1. CASE p = a
    BY <1>1, <2>1 DEF ClockStep, TickOK
  <2>2. CASE p # a
    <3>1. PICK q : q = at[p]
      OBVIOUS
    <3>2. at'[p] = q /\ TickOK(q) /\ q \in Task
      BY <1>1, <2>2, <3>1 DEF ClockInv, Actors, BackupsTyped, ActorsTyped
    <3>3. TickOK(q)'
      <4>1. CASE Fades
        BY <3>2, <4>1, TickFades DEF BackupsTyped, ClockStep
      <4>2. CASE at[p].pc = "idle"
        BY <3>1, <4>2 DEF TickOK
      <4> QED
        BY <2>2, <4>1, <4>2 DEF ClockStep
    <3> QED
      BY <3>2, <3>3 DEF TickOK
  <2> QED
    BY <2>1, <2>2
<1> QED
  BY <1>2, <1>3, <1>4, <1>5 DEF ClockInv

\* Nothing about the clocks changes in a run.
LEMMA SameRetries ==
  ASSUME RetryHeld, UNCHANGED <<row, since, now>>
  PROVE  RetryHeld' /\ Fades
BY DEF RetryHeld, Fades, Spaced, Lag

LEMMA RunStepTicks ==
  ASSUME BackupsTyped, ClockInv, NEW a \in Actors, NEW r, RunStep(a, r)
  PROVE  ClockStep(a, r)
<1>1. /\ Turns(a, r) /\ UNCHANGED <<row, since, scheduler, now>> /\ Stays(a, r)
      /\ at[a].pc \in Heavy /\ r.pc \in Heavy \cup {"persist"} /\ at[a] \in Task
  BY DEF RunStep, Safe, BackupsTyped, ActorsTyped
<1>2. /\ at[a].pc \notin Looking \cup {"idle", "acquire"} /\ at[a].pc \in Marking
      /\ r.pc \notin Looking \cup {"idle", "acquire"} /\ r.pc \in Marking
  BY <1>1 DEF Heavy, Looking, Marking
<1>3. RetryHeld' /\ Fades
  BY <1>1, SameRetries DEF ClockInv
<1>4. r.t <= now
  BY <1>1 DEF ClockInv, Stays
<1>5. ASSUME a \in Tickers PROVE scheduler' = a /\ TickOK(r)'
  <2>1. scheduler = a /\ TickOK(at[a])
    BY <1>2, <1>5 DEF ClockInv, OneScheduler
  <2>2. TickNext(r)
    BY <1>1, <1>2, <2>1 DEF TickOK, TickNext, Stays
  <2> QED
    BY <1>1, <2>1, <2>2, TickIs
<1> QED
  BY <1>1, <1>3, <1>4, <1>5 DEF ClockStep

-----------------------------------------------------------------------------
(* The other steps of an actor.                                            *)

BackupInv == BackupsTyped /\ FileInv /\ ClockInv

\* What every step of an actor does.
Step(a) == \E r : Safe(a, r) /\ ClockStep(a, r)

LEMMA QuietSafe ==
  ASSUME FileInv, BackupsTyped, NEW a \in Actors, NEW r, Turns(a, r), UNCHANGED stored,
         ClocksTyped', WorkKept(a, r), r.pc \notin {"verify"} \cup Writing
  PROVE  Safe(a, r)
<1>1. FilesTyped' /\ FilesKept(a) /\ Copying(r)'
  BY FilesStay, FilesRest DEF BackupsTyped, Copying, Writing
<1> QED
  BY <1>1 DEF Safe

\* A ticker that looks what is due.
LEMMA DueTick ==
  ASSUME NEW r, r.pc \in Looking, \A d \in r.due : Spaced(d, since'[d], r.t),
         now' <= r.t + Lag(r.dest)
  PROVE  TickOK(r)'
<1>1. r.pc # "acquire" /\ r.pc \notin Marking
  BY DEF Looking, Marking, Heavy
<1> QED
  BY <1>1, TickIs DEF TickNext

LEMMA Cleared ==
  ASSUME NEW c \in Clock, NEW d, d = [c EXCEPT !.attempt = Never]
  PROVE  d \in Clock /\ d.retry = c.retry /\ d.attempt = Never
BY DEF Clock, Never

\* An actor that ends, with its leases.
LEMMA Ends ==
  ASSUME BackupInv, NEW a \in Actors, at' = [at EXCEPT ![a] = Idle],
         scheduler' \in {scheduler, Freed(scheduler, a)}, work' \in {work, Freed(work, a)},
         UNCHANGED stored, UNCHANGED <<status, row, since, now>>
  PROVE  Step(a)
<1>1. Turns(a, Idle) /\ Idle.pc = "idle" /\ Idle.t = 0
  BY IdleTask DEF Turns
<1>2. WorkKept(a, Idle)
  BY <1>1 DEF WorkKept, Freed, Heavy
<1>3. ClocksTyped'
  BY ClocksStay DEF BackupInv, BackupsTyped
<1>4. Safe(a, Idle)
  BY <1>1, <1>2, <1>3, QuietSafe DEF BackupInv, Writing
<1>5. RetryHeld' /\ Fades
  BY SameRetries DEF BackupInv, ClockInv
<1>6. TickOK(Idle)'
  BY <1>1 DEF TickOK
<1>7. \A p \in Tickers \ {a} : scheduler = p => scheduler' = p
  BY DEF Freed
<1>8. Idle.t <= now
  BY <1>1 DEF BackupInv, BackupsTyped, ClocksTyped
<1>9. ClockStep(a, Idle)
  BY <1>1, <1>5, <1>6, <1>7, <1>8 DEF ClockStep
<1> QED
  BY <1>4, <1>9 DEF Step

LEMMA FreshDumpEnds ==
  ASSUME BackupInv, NEW a \in Actors, FreshDump(a), at' = [at EXCEPT ![a] = Idle], work' = Freed(work, a)
  PROVE  Step(a)
BY Ends DEF FreshDump, clocks

LEMMA DyingEnds ==
  ASSUME BackupInv, NEW a \in Actors, ProcessDies(a)
  PROVE  Step(a)
BY Ends DEF ProcessDies

LEMMA RotationEndsStep ==
  ASSUME BackupInv, NEW a \in Actors, RotationEnds(a)
  PROVE  Step(a)
BY Ends DEF RotationEnds, clocks, Freed

\* Whoever waited for the retry clock, is spaced.
LEMMA RetrySpaces ==
  ASSUME BackupInv, NEW d \in Dests, NEW t \in Nat, row[d].retry # Never => t >= row[d].retry
  PROVE  Spaced(d, since[d], t)
<1>1. PICK x \in Nat, w \in Nat : x = since[d] /\ w = row[d].retry
  BY DEF BackupInv, BackupsTyped, ClocksTyped, Clock
<1>2. PICK l \in Nat : l = Lag(d)
  BY Lags
<1>3. x # 0 => w + l >= x + Backoff
  BY <1>1, <1>2 DEF BackupInv, ClockInv, RetryHeld, Spaced, Never
<1>4. t >= w
  BY <1>1 DEF Never
<1>5. x # 0 => t + l >= x + Backoff
  BY <1>3, <1>4, Numbers
<1> QED
  BY <1>1, <1>2, <1>5 DEF Spaced, Never

LEMMA LoadStep ==
  ASSUME BackupInv, NEW p \in Tickers, LoadSchedulerState(p)
  PROVE  Step(p)
<1> DEFINE due == {d \in {"volume", "s3"} : CronDue(Fallback(d), now) /\ now > Retry(p, d)}
           marked == Interrupted
<1>15. PICK step \in {"due", "settle"} : step = IF Interrupted = {} THEN "due" ELSE "settle"
  OBVIOUS
<1>0. PICK r : r = [Idle EXCEPT !.pc = step, !.t = now, !.due = due, !.marked = marked]
  OBVIOUS
<1>1. /\ p \in Actors /\ now \in Nat /\ due \subseteq Dests /\ marked \subseteq Dests
      /\ scheduler = Nothing /\ scheduler' = p /\ UNCHANGED <<stored, status, work, now, since>>
  BY DEF LoadSchedulerState, Interrupted, BackupInv, BackupsTyped, ClocksTyped, Actors, Dests
<1>2. at' = [at EXCEPT ![p] = r]
  BY <1>0, <1>15 DEF LoadSchedulerState
<1>3. ASSUME NEW d \in due PROVE d \in Dests /\ Spaced(d, since[d], now)
  <2>1. d \in Dests /\ now > Retry(p, d) /\ now \in Nat
    BY <1>1
  <2>2. row[d].retry # Never => now >= row[d].retry
    BY <2>1 DEF Retry, BackupInv, BackupsTyped, ClocksTyped, Clock
  <2> QED
    BY <2>1, <2>2, RetrySpaces
<1> HIDE DEF due, marked
<1>4. /\ r \in Task /\ r.pc \in {"due", "settle"} /\ r.t = now /\ r.due = due
      /\ r.dest = "volume"
  BY <1>0, <1>1, <1>15, IdleTask DEF Task, Places
<1>5. Turns(p, r)
  BY <1>2, <1>4 DEF Turns
<1>6. \A d \in Dests : /\ row'[d] \in Clock /\ row'[d].retry = row[d].retry
                       /\ row'[d].attempt = row[d].attempt
  <2>1. ASSUME NEW d \in Dests PROVE row[d] \in Clock /\ Fallback(d) \in Nat
    BY <2>1 DEF BackupInv, BackupsTyped, ClocksTyped, Clock, Outcome, Fallback
  <2>2. ASSUME NEW d \in Dests
        PROVE  row'[d] = row[d] \/ row'[d] = [row[d] EXCEPT !.last = Fallback(d)]
    BY DEF LoadSchedulerState
  <2> QED
    BY <2>1, <2>2 DEF Clock
<1>7. ClocksTyped'
  <2>1. row' \in [Dests -> Clock]
    BY <1>6 DEF LoadSchedulerState
  <2> QED
    BY <1>1, <2>1 DEF BackupInv, BackupsTyped, ClocksTyped
<1>8. WorkKept(p, r)
  BY <1>1, <1>4 DEF WorkKept, Heavy
<1>9. Safe(p, r)
  BY <1>1, <1>4, <1>5, <1>7, <1>8, QuietSafe DEF BackupInv, Writing
<1>10. RetryHeld' /\ Fades
  BY <1>1, <1>6 DEF RetryHeld, Fades, BackupInv, ClockInv, Spaced, Lag
<1>11. TickOK(r)'
  <2>1. now' <= r.t + Lag(r.dest) /\ r.pc \in Looking
    BY <1>1, <1>4, Lags DEF Looking
  <2> QED
    BY <1>1, <1>3, <1>4, <2>1, DueTick
<1>12. \A q \in Tickers \ {p} : scheduler = q => scheduler' = q
  BY <1>1, ActorsDistinct
<1>13. r.t <= now
  BY <1>1, <1>4
<1>14. ClockStep(p, r)
  BY <1>1, <1>5, <1>10, <1>11, <1>12, <1>13 DEF ClockStep
<1> QED
  BY <1>9, <1>14 DEF Step

\* A ticker that goes on looking.
LEMMA LooksOn ==
  ASSUME BackupInv, NEW p \in Tickers, NEW r, Turns(p, r), at[p].pc \in {"settle", "clear"},
         r.pc \in Looking, Stays(p, r), UNCHANGED stored, UNCHANGED <<scheduler, work, now, since>>,
         ClocksTyped', RetryHeld', Fades
  PROVE  Step(p)
<1>1. p \in Actors /\ at[p].pc \in Looking /\ at[p].pc # "idle"
  BY DEF Actors, Looking
<1>2. r.pc \notin Heavy \cup {"verify"} \cup Writing
  BY DEF Looking, Heavy, Writing
<1>3. scheduler = p /\ TickOK(at[p]) /\ at[p].t <= now
  BY <1>1 DEF BackupInv, ClockInv, OneScheduler
<1>4. Safe(p, r)
  BY <1>1, <1>2, QuietSafe DEF BackupInv, WorkKept
<1>5. TickOK(r)'
  <2>1. \A d \in r.due : Spaced(d, since[d], r.t)
    BY <1>1, <1>3 DEF TickOK, Stays
  <2>2. now' <= r.t + Lag(r.dest)
    BY <1>1, <1>3 DEF TickOK, Stays
  <2> QED
    BY <2>1, <2>2, DueTick
<1>6. ClockStep(p, r)
  BY <1>1, <1>3, <1>5 DEF ClockStep, Stays
<1> QED
  BY <1>1, <1>4, <1>6 DEF Step

LEMMA SettleStep ==
  ASSUME BackupInv, NEW p \in Tickers, SettleInterruptedAttempts(p)
  PROVE  Step(p)
<1>1. /\ at[p].pc = "settle" /\ Go(p, "clear") /\ UNCHANGED stored
      /\ UNCHANGED <<row, since, now, scheduler, work>> /\ p \in Actors
      /\ UNCHANGED status \/ SetStatus(Settling(p), "failed")
  BY DEF SettleInterruptedAttempts, clocks, leases, Actors
<1>2. Settling(p) \in Dests /\ "failed" \in Results /\ "clear" \in Places
  BY DEF Settling, Dests, Results, Places
<1>3. ClocksTyped'
  BY <1>1, <1>2, ClocksStay DEF BackupInv, BackupsTyped
<1>4. PICK r : Turns(p, r) /\ r.pc = "clear" /\ Stays(p, r)
  BY <1>1, <1>2, GoesOn DEF BackupInv, BackupsTyped
<1>5. RetryHeld' /\ Fades
  BY <1>1, SameRetries DEF BackupInv, ClockInv
<1>6. r.pc \in Looking
  BY <1>4 DEF Looking
<1> QED
  BY <1>1, <1>3, <1>4, <1>5, <1>6, LooksOn

LEMMA ClearStep ==
  ASSUME BackupInv, NEW p \in Tickers, ClearSchedulerAttempt(p)
  PROVE  Step(p)
<1>1. PICK left : left = at[p].marked \ {Settling(p)}
  OBVIOUS
<1>2. PICK step \in {"due", "settle"} : step = IF left = {} THEN "due" ELSE "settle"
  OBVIOUS
<1>3. PICK r : r = [at[p] EXCEPT !.pc = step, !.marked = left]
  OBVIOUS
<1>4. /\ p \in Actors /\ at[p] \in Task /\ at[p].pc = "clear" /\ at' = [at EXCEPT ![p] = r]
      /\ UNCHANGED stored /\ UNCHANGED <<scheduler, work, now, since, status>>
  BY <1>1, <1>2, <1>3 DEF ClearSchedulerAttempt, BackupInv, BackupsTyped, ActorsTyped, Actors, leases
<1>5. r \in Task /\ r.pc \in Looking /\ Stays(p, r)
  BY <1>1, <1>2, <1>3, <1>4 DEF Task, Stays, Places, Looking
<1>6. Turns(p, r)
  BY <1>4, <1>5 DEF Turns
<1>7. PICK d \in Dests : d = Settling(p)
  BY DEF Settling, Dests
<1>8. PICK c \in Clock : c = row[d]
  BY DEF BackupInv, BackupsTyped, ClocksTyped
<1>9. PICK m \in Clock : /\ m.retry = c.retry /\ m.attempt \in {c.attempt, Never}
                         /\ row' = [row EXCEPT ![d] = m]
  <2>1. CASE row' = row
    BY <1>8, <2>1 DEF BackupInv, BackupsTyped, ClocksTyped
  <2>2. CASE row' = [row EXCEPT ![d].attempt = Never]
    <3>1. PICK m : m = [c EXCEPT !.attempt = Never]
      OBVIOUS
    <3>2. m \in Clock /\ m.retry = c.retry /\ m.attempt = Never
      BY <3>1, Cleared
    <3>3. row' = [row EXCEPT ![d] = m]
      BY <1>8, <2>2, <3>1 DEF BackupInv, BackupsTyped, ClocksTyped
    <3> QED
      BY <3>2, <3>3
  <2> QED
    BY <1>7, <2>1, <2>2 DEF ClearSchedulerAttempt
<1>10. row' \in [Dests -> Clock] /\ row'[d] = m /\ \A e \in Dests \ {d} : row'[e] = row[e]
  BY <1>9 DEF BackupInv, BackupsTyped, ClocksTyped
<1>11. ClocksTyped'
  BY <1>4, <1>10 DEF BackupInv, BackupsTyped, ClocksTyped
<1>12. \A e \in Dests : row'[e].retry = row[e].retry /\ row'[e].attempt \in {row[e].attempt, Never}
  BY <1>8, <1>9, <1>10
<1>13. RetryHeld' /\ Fades
  <2>1. 0 <= now
    BY DEF BackupInv, BackupsTyped, ClocksTyped
  <2> QED
    BY <1>4, <1>12, <2>1 DEF RetryHeld, Fades, BackupInv, ClockInv, Never, Spaced, Lag
<1> QED
  BY <1>4, <1>5, <1>6, <1>11, <1>13, LooksOn

-----------------------------------------------------------------------------
(* ... of a ticker that goes on to its next destination.                   *)

LEMMA OnwardTurns ==
  ASSUME BackupsTyped, NEW p \in Tickers, Onward(p)
  PROVE  \E r : /\ Turns(p, r)
                /\ \/ r.pc = "idle" /\ r.t = 0 /\ scheduler' = Nothing
                   \/ /\ r.pc = "due" /\ UNCHANGED scheduler
                      /\ r.due = at[p].due \ {at[p].dest} /\ r.t = at[p].t
                      /\ at[p].dest \in Dests \ {"rehearsal"} /\ r.dest = NextDest[at[p].dest]
<1>1. at[p] \in Task
  BY DEF BackupsTyped, ActorsTyped, Actors
<1>2. CASE at[p].dest = "rehearsal"
  BY <1>2, IdleTask DEF Onward, Turns
<1>3. CASE at[p].dest # "rehearsal"
  <2>1. PICK to \in Dests : to = NextDest[at[p].dest]
    BY <1>1, <1>3 DEF Task, Dests, NextDest
  <2>2. PICK rest \in SUBSET Dests : rest = at[p].due \ {at[p].dest}
    BY <1>1 DEF Task
  <2>3. PICK r : r = [at[p] EXCEPT !.pc = "due", !.dest = to, !.ok = TRUE, !.name = 0,
                             !.holds = "intact", !.due = rest]
    OBVIOUS
  <2>4. at' = [at EXCEPT ![p] = r] /\ UNCHANGED scheduler
    BY <1>3, <2>1, <2>2, <2>3 DEF Onward
  <2>5. r \in Task /\ r.pc = "due" /\ r.due = rest /\ r.t = at[p].t /\ r.dest = to
    BY <1>1, <2>3 DEF Task, Places, Contents
  <2>6. at[p].dest \in Dests
    BY <1>1 DEF Task
  <2> QED
    BY <1>3, <2>1, <2>2, <2>4, <2>5, <2>6 DEF Turns
<1> QED
  BY <1>2, <1>3

LEMMA OnwardStep ==
  ASSUME BackupInv, NEW p \in Tickers, at[p].pc \in {"due", "persist"}, Onward(p),
         UNCHANGED stored, ClocksTyped',
         now' = now, work' = work, RetryHeld', Fades
  PROVE  Step(p)
<1>1. PICK r : /\ Turns(p, r)
               /\ \/ r.pc = "idle" /\ r.t = 0 /\ scheduler' = Nothing
                  \/ /\ r.pc = "due" /\ UNCHANGED scheduler
                     /\ r.due = at[p].due \ {at[p].dest} /\ r.t = at[p].t
                     /\ at[p].dest \in Dests \ {"rehearsal"} /\ r.dest = NextDest[at[p].dest]
  BY OnwardTurns DEF BackupInv
<1>2. p \in Actors /\ at[p] \in Task /\ r \in Task /\ scheduler = p
  BY <1>1 DEF BackupInv, BackupsTyped, ActorsTyped, Actors, Turns, ClockInv, OneScheduler
<1>3. TickOK(at[p])
  BY DEF BackupInv, ClockInv
<1>4. TickOK(r)'
  <2>1. CASE r.pc = "idle"
    BY <2>1 DEF TickOK
  <2>2. CASE /\ r.pc = "due" /\ UNCHANGED scheduler
             /\ r.due = at[p].due \ {at[p].dest} /\ r.t = at[p].t
             /\ at[p].dest \in Dests \ {"rehearsal"} /\ r.dest = NextDest[at[p].dest]
    <3>1. ASSUME NEW d \in r.due PROVE Spaced(d, since'[d], r.t)
      <4>1. Spaced(d, since[d], r.t) /\ d \in Dests
        BY <1>2, <1>3, <2>2 DEF TickOK, Task
      <4>2. since'[d] \in {since[d], Never}
        BY <4>1 DEF Fades
      <4> QED
        BY <4>1, <4>2 DEF Spaced
    <3>2. now' <= r.t + Lag(r.dest)
      <4>1. PICK t \in Nat, b \in Nat, l \in Nat, n \in Nat :
              t = r.t /\ b = at[p].begun /\ l = Lag(at[p].dest) /\ n = now
        BY <1>2, <2>2, Lags DEF Task, BackupInv, BackupsTyped, ClocksTyped
      <4>2. n <= t + l \/ (b <= t + l /\ n <= b + RunLimit)
        BY <1>3, <2>2, <4>1 DEF TickOK, Looking, Marking
      <4>3. Lag(r.dest) = l + RunLimit
        BY <2>2, <4>1, Lags
      <4> QED
        BY <4>1, <4>2, <4>3, Numbers
    <3>3. r.pc \in Looking
      BY <2>2 DEF Looking
    <3> QED
      BY <3>1, <3>2, <3>3, DueTick
  <2> QED
    BY <1>1, <2>1, <2>2
<1>5. WorkKept(p, r)
  BY <1>1 DEF WorkKept, Heavy
<1>6. Safe(p, r)
  BY <1>1, <1>2, <1>5, QuietSafe DEF BackupInv, Writing
<1>7. \A q \in Tickers \ {p} : scheduler = q => scheduler' = q
  BY <1>2
<1>8. p \in Tickers /\ r.pc # "idle" => scheduler' = p
  BY <1>1, <1>2
<1>9. r.t <= now
  <2>1. CASE r.t = 0
    BY <2>1 DEF BackupInv, BackupsTyped, ClocksTyped
  <2>2. CASE r.t = at[p].t
    BY <1>2, <2>2 DEF BackupInv, ClockInv
  <2> QED
    BY <1>1, <2>1, <2>2
<1>10. ClockStep(p, r)
  BY <1>1, <1>4, <1>7, <1>8, <1>9 DEF ClockStep
<1> QED
  BY <1>2, <1>6, <1>10 DEF Step

LEMMA StatusRead ==
  ASSUME BackupsTyped, NEW p, status' = StatusWhenRead(p)
  PROVE  status' \in [Dests -> Outcome]
<1>1. \A d \in Dests : status[d] \in Outcome
  BY DEF BackupsTyped, ClocksTyped
<1>2. \A d \in Dests : [status[d] EXCEPT !.is = "failed"] \in Outcome
  BY <1>1 DEF Outcome, Results
<1>3. status' = status \/ status' = [status EXCEPT !["rehearsal"].is = "failed"]
  BY DEF StatusWhenRead
<1> QED
  BY <1>1, <1>2, <1>3 DEF BackupsTyped, ClocksTyped

LEMMA NotDueStep ==
  ASSUME BackupInv, NEW p \in Tickers, NotDue(p)
  PROVE  Step(p)
<1>1. UNCHANGED <<row, since, now, work>> /\ UNCHANGED stored /\ at[p].pc = "due" /\ Onward(p)
  BY DEF NotDue, clocks
<1>2. status' \in [Dests -> Outcome]
  BY StatusRead DEF NotDue, BackupInv
<1>3. ClocksTyped'
  BY <1>1, <1>2 DEF ClocksTyped, BackupInv, BackupsTyped
<1>4. RetryHeld' /\ Fades
  BY <1>1, SameRetries DEF BackupInv, ClockInv
<1> QED
  BY <1>1, <1>3, <1>4, OnwardStep

\* What is due now, or was due when the tick began and waits for its turn.
LEMMA DueSpaced ==
  ASSUME BackupInv, NEW p \in Tickers, at[p].pc = "due", Due(p)
  PROVE  at[p].dest \in Dests /\ Spaced(at[p].dest, since[at[p].dest], at[p].t)
<1>1. PICK d \in Dests, t \in Nat : d = at[p].dest /\ t = at[p].t
  BY DEF BackupInv, BackupsTyped, ActorsTyped, Actors, Task
<1>2. TickOK(at[p]) /\ at[p].pc \in Looking /\ at[p].pc # "idle"
  BY DEF BackupInv, ClockInv, Looking
<1>3. CASE d \in at[p].due
  BY <1>1, <1>2, <1>3 DEF TickOK
<1>4. CASE d = "rehearsal" /\ t >= Retry(p, d)
  <2>1. row[d].retry # Never => t >= row[d].retry
    BY <1>4 DEF Retry
  <2> QED
    BY <1>1, <2>1, RetrySpaces
<1> QED
  BY <1>1, <1>3, <1>4 DEF Due

LEMMA MarkStep ==
  ASSUME BackupInv, NEW p \in Tickers, MarkSchedulerAttempt(p)
  PROVE  Step(p)
<1>1. PICK d \in Dests, t \in Nat : d = at[p].dest /\ t = at[p].t
  BY DEF BackupInv, BackupsTyped, ActorsTyped, Actors, Task
<1>2. /\ at[p].pc = "due" /\ UNCHANGED <<work, now, since>> /\ UNCHANGED stored
      /\ at[p] \in Task /\ p \in Actors /\ scheduler = p /\ t <= now
  BY <1>1 DEF MarkSchedulerAttempt, BackupInv, BackupsTyped, ActorsTyped, Actors, ClockInv, OneScheduler
<1>3. Spaced(d, since[d], t)
  BY <1>1, <1>2, DueSpaced DEF MarkSchedulerAttempt
<1>9. now <= t + Lag(d) /\ \A e \in at[p].due : Spaced(e, since[e], t)
  <2>1. TickOK(at[p]) /\ at[p].pc \in Looking /\ at[p].pc # "idle"
    BY <1>2 DEF BackupInv, ClockInv, Looking
  <2> QED
    BY <1>1, <2>1 DEF TickOK
<1>4. status' \in [Dests -> Outcome]
  BY StatusRead DEF MarkSchedulerAttempt, BackupInv
<1>5. CASE Onward(p) /\ UNCHANGED row
  <2>1. ClocksTyped'
    BY <1>2, <1>4, <1>5 DEF ClocksTyped, BackupInv, BackupsTyped
  <2>2. RetryHeld' /\ Fades
    BY <1>2, <1>5, SameRetries DEF BackupInv, ClockInv
  <2> QED
    BY <1>2, <1>5, <2>1, <2>2, OnwardStep
<1>6. CASE /\ row' = Marked(d, t) /\ UNCHANGED scheduler
           /\ at' = [at EXCEPT ![p].pc = "acquire", ![p].begun = now]
  <2>0. PICK n \in Nat, l \in Nat : n = now /\ l = Lag(d)
    BY Lags DEF BackupInv, BackupsTyped, ClocksTyped
  <2>1. PICK r : r = [at[p] EXCEPT !.pc = "acquire", !.begun = n]
    OBVIOUS
  <2>16. at' = [at EXCEPT ![p] = r]
    BY <1>2, <1>6, <2>0, <2>1 DEF BackupInv, BackupsTyped, ActorsTyped
  <2>17. /\ r \in Task /\ r.pc = "acquire" /\ r.begun = n /\ r.dest = d /\ r.t = t
         /\ r.due = at[p].due
    BY <1>1, <1>2, <2>0, <2>1 DEF Task, Places
  <2>18. Turns(p, r)
    BY <2>16, <2>17 DEF Turns
  <2>2. PICK c \in Clock : c = row[d]
    BY DEF BackupInv, BackupsTyped, ClocksTyped
  <2>3. PICK m : m = [c EXCEPT !.attempt = t, !.retry = t + Backoff]
    OBVIOUS
  <2>4. m \in Clock /\ m.attempt = t /\ m.retry = t + Backoff
    <3>1. PICK k \in Nat : k = t + Backoff
      BY Numbers
    <3> QED
      BY <2>2, <2>3, <3>1 DEF Clock
  <2>5. row' = [row EXCEPT ![d] = m]
    BY <1>6, <2>2, <2>3 DEF Marked, BackupInv, BackupsTyped, ClocksTyped
  <2>6. row' \in [Dests -> Clock] /\ row'[d] = m /\ \A e \in Dests \ {d} : row'[e] = row[e]
    BY <2>4, <2>5 DEF BackupInv, BackupsTyped, ClocksTyped
  <2>7. ClocksTyped'
    BY <1>2, <1>4, <2>6 DEF ClocksTyped, BackupInv, BackupsTyped
  <2>8. since[d] <= n
    BY <2>0 DEF BackupInv, ClockInv, RetryHeld
  <2>19. PICK x \in Nat : x = since[d]
    BY DEF BackupInv, BackupsTyped, ClocksTyped
  <2>20. x <= t + l /\ n <= t + l /\ t <= n /\ x <= n
    BY <1>2, <1>9, <2>0, <2>8, <2>19
  <2>21. t + Backoff + l >= x + Backoff
    BY <2>20, Numbers
  <2>9. RetryHeld'
    <3>1. ASSUME NEW e \in Dests
          PROVE  /\ since[e] <= n /\ row'[e].attempt <= n
                 /\ row'[e].attempt # Never => row'[e].retry = row'[e].attempt + Backoff
                 /\ Spaced(e, since[e], row'[e].retry)
      <4>1. CASE e # d
        BY <2>0, <2>6, <4>1 DEF BackupInv, ClockInv, RetryHeld
      <4>2. CASE e = d
        <5>1. Spaced(d, since[d], m.retry)
          BY <2>0, <2>4, <2>19, <2>21 DEF Spaced
        <5> QED
          BY <2>4, <2>6, <2>19, <2>20, <4>2, <5>1
      <4> QED
        BY <4>1, <4>2
    <3> QED
      BY <1>2, <2>0, <3>1 DEF RetryHeld, Spaced, Lag
  <2>10. TickOK(r)'
    <3>1. \A e \in r.due : Spaced(e, since'[e], r.t)
      BY <1>2, <1>9, <2>17
    <3>2. Spaced(d, since'[d], t) /\ row'[d].attempt = t /\ since'[d] = x
      BY <1>2, <1>3, <2>4, <2>6, <2>19
    <3>3. n <= n + RunLimit
      BY Numbers
    <3>4. TickNext(r)
      BY <1>2, <2>0, <2>17, <2>20, <3>1, <3>2, <3>3 DEF TickNext
    <3> QED
      BY <3>4, TickIs
  <2>11. WorkKept(p, r)
    BY <1>2, <2>17 DEF WorkKept, Heavy
  <2>12. Safe(p, r)
    BY <1>2, <2>17, <2>18, <2>7, <2>11, QuietSafe DEF BackupInv, Writing
  <2>13. \A q \in Tickers \ {p} : at[q].pc = "idle"
    BY <1>2, OthersIdle DEF BackupInv
  <2>14. r.t <= now
    BY <1>2, <2>17
  <2>15. ClockStep(p, r)
    BY <1>2, <1>6, <2>18, <2>9, <2>10, <2>13, <2>14 DEF ClockStep
  <2> QED
    BY <1>2, <2>12, <2>15 DEF Step
<1> QED
  BY <1>1, <1>5, <1>6 DEF MarkSchedulerAttempt

LEMMA AcquireStep ==
  ASSUME BackupInv, NEW a \in Actors, AcquireWork(a)
  PROVE  Step(a)
<1>1. PICK d \in Dests, t \in Nat : d = at[a].dest /\ t = at[a].t
  BY DEF BackupInv, BackupsTyped, ActorsTyped, Task
<1>2. /\ at[a].pc = "acquire" /\ UNCHANGED <<row, scheduler, now>> /\ UNCHANGED stored
      /\ at[a] \in Task /\ t <= now
  BY <1>1 DEF AcquireWork, BackupInv, BackupsTyped, ActorsTyped, ClockInv
<1>7. PICK n \in Nat, l \in Nat : n = now /\ l = Lag(d)
  BY Lags DEF BackupInv, BackupsTyped, ClocksTyped
<1>3. a \in Tickers => /\ scheduler = a
                       /\ \A e \in at[a].due : e # d => Spaced(e, since[e], t)
                       /\ row[d].attempt \in {Never, t} /\ since[d] <= t + l /\ n <= t + l
                       /\ at[a].begun <= t + l /\ n <= at[a].begun + RunLimit
  <2>1. SUFFICES ASSUME a \in Tickers PROVE TickOK(at[a]) /\ scheduler = a
    <3>1. "acquire" \notin Looking /\ "acquire" \in Marking
      BY DEF Looking, Marking
    <3> QED
      BY <1>1, <1>2, <1>7, <3>1 DEF TickOK
  <2> QED
    BY <1>2, <2>1 DEF BackupInv, ClockInv, OneScheduler
<1>4. CASE /\ work = Nothing /\ work' = a /\ Go(a, FirstStep[d]) /\ UNCHANGED status
           /\ since' = IF a \in Tickers
                       THEN [since EXCEPT ![d] = IF row[d].attempt = Never THEN Never ELSE now] ELSE since
  <2>1. PICK step \in {"dump", "compare", "rehearse"} : step = FirstStep[d]
    BY DEF FirstStep, Dests
  <2>2. /\ step \in Places /\ step \in Heavy
        /\ step \notin Looking \cup {"idle", "acquire"} /\ step \in Marking
        /\ step \notin {"verify"} \cup Writing
    BY DEF Places, Heavy, Looking, Marking, Writing
  <2>3. PICK r : Turns(a, r) /\ r.pc = step /\ r.name = at[a].name /\ Stays(a, r)
    BY <1>4, <2>1, <2>2, GoesOn DEF BackupInv, BackupsTyped
  <2>4. PICK y \in {0, n} : y = IF row[d].attempt = Never THEN Never ELSE now
    BY <1>7 DEF Never
  <2>5. since' \in [Dests -> Nat] /\ \A e \in Dests \ {d} : since'[e] = since[e]
    BY <1>4, <2>4 DEF BackupInv, BackupsTyped, ClocksTyped
  <2>6. ClocksTyped'
    BY <1>2, <1>4, <2>5 DEF ClocksTyped, BackupInv, BackupsTyped
  <2>7. since'[d] = IF a \in Tickers THEN y ELSE since[d]
    BY <1>4, <2>4 DEF BackupInv, BackupsTyped, ClocksTyped
  <2>15. PICK x \in Nat, w \in Nat : x = since[d] /\ w = row[d].retry
    BY DEF BackupInv, BackupsTyped, ClocksTyped, Clock
  <2>16. ASSUME a \in Tickers, y # 0 PROVE w + l >= y + Backoff
    <3>1. row[d].attempt = t /\ row[d].attempt # Never /\ y = n
      BY <1>3, <2>4, <2>16 DEF Never
    <3>2. w = t + Backoff
      BY <2>15, <3>1 DEF BackupInv, ClockInv, RetryHeld
    <3> QED
      BY <1>3, <2>16, <3>1, <3>2, Numbers
  <2>8. RetryHeld'
    <3>1. /\ \A e \in Dests : row[e].attempt <= now
          /\ \A e \in Dests : row[e].attempt # Never => row[e].retry = row[e].attempt + Backoff
          /\ \A e \in Dests : since[e] <= now /\ Spaced(e, since[e], row[e].retry)
      BY DEF BackupInv, ClockInv, RetryHeld
    <3>2. since'[d] <= now /\ Spaced(d, since'[d], row[d].retry)
      <4>1. CASE a \in Tickers
        <5>1. since'[d] = y /\ y <= n
          BY <2>4, <2>7, <4>1
        <5>2. y # 0 => w + l >= y + Backoff
          BY <2>16, <4>1
        <5> QED
          BY <1>7, <2>15, <5>1, <5>2 DEF Spaced, Never
      <4>2. CASE a \notin Tickers
        BY <2>7, <3>1, <4>2
      <4> QED
        BY <4>1, <4>2
    <3>3. \A e \in Dests : since'[e] <= now /\ Spaced(e, since'[e], row[e].retry)
      BY <2>5, <3>1, <3>2
    <3> QED
      BY <1>2, <3>1, <3>3 DEF RetryHeld, Spaced, Lag
  <2>9. WorkKept(a, r)
    BY <1>4, ActorsDistinct DEF WorkKept, Actors
  <2>10. Safe(a, r)
    BY <1>2, <2>2, <2>3, <2>6, <2>9, QuietSafe DEF BackupInv
  <2>11. ASSUME a \in Tickers PROVE TickOK(r)' /\ \A q \in Tickers \ {a} : at[q].pc = "idle"
    <3>1. /\ r.dest = d /\ r.t = t /\ r.due = at[a].due /\ at[a].due \subseteq Dests
          /\ r.begun = at[a].begun
      BY <1>1, <1>2, <2>3 DEF Stays, Task
    <3>2. since'[d] <= t + l
      <4>1. 0 <= t + l /\ n <= t + l
        BY <1>3, <2>11
      <4> QED
        BY <2>4, <2>7, <2>11, <4>1
    <3>3. \A e \in r.due : e # d => Spaced(e, since'[e], t)
      BY <1>3, <2>5, <2>11, <3>1
    <3>4. TickNext(r)
      BY <1>2, <1>3, <1>7, <2>2, <2>3, <2>11, <3>1, <3>2, <3>3 DEF TickNext
    <3>5. TickOK(r)'
      BY <3>4, TickIs
    <3> QED
      BY <1>2, <2>11, <3>5, OthersIdle DEF BackupInv
  <2>12. Fades \/ a \in Tickers
    BY <1>2, <1>4 DEF Fades
  <2>13. r.t <= now
    BY <1>1, <1>2, <2>3 DEF Stays
  <2>14. ClockStep(a, r)
    BY <1>2, <1>3, <2>3, <2>8, <2>11, <2>12, <2>13 DEF ClockStep
  <2> QED
    BY <2>10, <2>14 DEF Step
<1>5. CASE /\ Fails(a, "persist") /\ UNCHANGED <<work, since>>
           /\ IF d = "rehearsal" THEN SetStatus(d, "failed") ELSE UNCHANGED status
  <2>1. PICK r : Turns(a, r) /\ r.pc = "persist" /\ r.name = at[a].name /\ Stays(a, r)
    BY <1>5, FailsOn, ResultKinds DEF BackupInv, BackupsTyped
  <2>2. UNCHANGED status \/ \E e \in Dests, is \in Results : SetStatus(e, is)
    BY <1>5, ResultKinds
  <2>3. ClocksTyped'
    BY <1>2, <1>5, <2>2, ClocksStay DEF BackupInv, BackupsTyped
  <2>4. RetryHeld' /\ Fades
    BY <1>2, <1>5, SameRetries DEF BackupInv, ClockInv
  <2>5. WorkKept(a, r)
    BY <1>5, <2>1 DEF WorkKept, Heavy
  <2>6. Safe(a, r)
    BY <1>2, <2>1, <2>3, <2>5, QuietSafe DEF BackupInv, Writing
  <2>7. ASSUME a \in Tickers PROVE TickOK(r)'
    <3>1. r.dest = d /\ r.t = t /\ r.due = at[a].due /\ r.begun = at[a].begun
      BY <1>1, <2>1 DEF Stays
    <3>2. since' = since /\ row' = row
      BY <1>2, <1>5
    <3>3. TickNext(r)
      BY <1>2, <1>3, <1>7, <2>1, <2>7, <3>1, <3>2 DEF TickNext, Looking
    <3> QED
      BY <3>3, TickIs
  <2>8. r.t <= now
    BY <1>1, <1>2, <2>1 DEF Stays
  <2>9. ClockStep(a, r)
    BY <1>2, <1>3, <2>1, <2>4, <2>7, <2>8 DEF ClockStep
  <2> QED
    BY <2>6, <2>9 DEF Step
<1> QED
  BY <1>1, <1>4, <1>5 DEF AcquireWork

\* An operator starts, goes on or ends; the scheduler is none of its business.
LEMMA OperatorStep ==
  ASSUME BackupInv, NEW o \in Operators, NEW r, Turns(o, r), r.t <= now, UNCHANGED stored, now' = now,
         ClocksTyped', RetryHeld', Fades, scheduler' = scheduler,
         WorkKept(o, r), r.pc \notin {"verify"} \cup Writing
  PROVE  Step(o)
<1>1. o \in Actors /\ o \notin Tickers
  BY ActorsDistinct DEF Actors
<1>2. Safe(o, r)
  BY <1>1, QuietSafe DEF BackupInv
<1>3. ClockStep(o, r)
  BY <1>1 DEF ClockStep
<1> QED
  BY <1>2, <1>3 DEF Step

LEMMA StartTurns ==
  ASSUME BackupInv, NEW o \in Operators, NEW step \in Places, NEW job \in Jobs, NEW d \in Dests,
         Starts(o, step, job, d)
  PROVE  \E r : Turns(o, r) /\ r.pc = step /\ r.t = now
<1>1. PICK r : r = [Idle EXCEPT !.pc = step, !.job = job, !.dest = d, !.t = now]
  OBVIOUS
<1>2. r \in Task /\ r.pc = step /\ r.t = now
  BY <1>1, IdleTask DEF Task, BackupInv, BackupsTyped, ClocksTyped
<1> QED
  BY <1>1, <1>2 DEF Starts, Turns

LEMMA StartStep ==
  ASSUME BackupInv, NEW o \in Operators, RunScheduled(o) \/ Manual(o) \/ StartRotation(o)
  PROVE  Step(o)
<1>1. /\ UNCHANGED <<row, since, now, scheduler, status>> /\ UNCHANGED stored
      /\ work' = work \/ (work = Nothing /\ work' = o)
  BY DEF RunScheduled, Manual, StartRotation, clocks, leases
<1>2. \E step \in {"acquire", "dump", "freshdump", "rotate"}, job \in Jobs, d \in Dests :
        Starts(o, step, job, d) /\ (step # "acquire" => work' = o)
  <2>1. {"cli", "panel", "rotate"} \subseteq Jobs /\ {"volume", "s3"} \subseteq Dests
    BY DEF Jobs, Dests
  <2> QED
    BY <2>1 DEF RunScheduled, Manual, StartRotation
<1>3. PICK step \in {"acquire", "dump", "freshdump", "rotate"}, job \in Jobs, d \in Dests :
        Starts(o, step, job, d) /\ (step # "acquire" => work' = o)
  BY <1>2
<1>4. step \in Places
  BY DEF Places, Heavy
<1>5. PICK r : Turns(o, r) /\ r.pc = step /\ r.t = now
  BY <1>3, <1>4, StartTurns
<1>6. ClocksTyped'
  BY <1>1, ClocksStay DEF BackupInv, BackupsTyped
<1>7. RetryHeld' /\ Fades
  BY <1>1, SameRetries DEF BackupInv, ClockInv
<1>8. WorkKept(o, r)
  BY <1>1, <1>3, <1>5, ActorsDistinct DEF WorkKept, Heavy, Actors
<1>9. r.t <= now
  BY <1>5 DEF BackupInv, BackupsTyped, ClocksTyped
<1>10. r.pc \notin {"verify"} \cup Writing
  BY <1>5 DEF Writing
<1> QED
  BY <1>1, <1>5, <1>6, <1>7, <1>8, <1>9, <1>10, OperatorStep

LEMMA ContinueStep ==
  ASSUME BackupInv, NEW o \in Operators, NEW both \in BOOLEAN, Continues(o, both), UNCHANGED stored,
         now' = now, ClocksTyped', RetryHeld', Fades
  PROVE  Step(o)
<1>1. o \in Actors /\ o \notin Tickers
  BY ActorsDistinct DEF Actors
<1>2. scheduler' = scheduler /\ work' = Freed(work, o)
  BY <1>1 DEF Continues
<1>3. PICK r : r = IF both THEN [Idle EXCEPT !.pc = "acquire", !.job = "cli", !.dest = "s3"] ELSE Idle
  OBVIOUS
<1>4. at' = [at EXCEPT ![o] = r]
  BY <1>1, <1>3 DEF Continues
<1>5. r \in Task /\ r.pc \in {"idle", "acquire"} /\ r.t = 0
  BY <1>3, IdleTask DEF Task, Places, Jobs, Dests
<1>6. Turns(o, r)
  BY <1>4, <1>5 DEF Turns
<1>7. WorkKept(o, r)
  BY <1>2, <1>5 DEF WorkKept, Heavy, Freed
<1>8. r.t <= now
  BY <1>5 DEF BackupInv, BackupsTyped, ClocksTyped
<1>9. r.pc \notin {"verify"} \cup Writing
  BY <1>5 DEF Writing
<1> QED
  BY <1>2, <1>6, <1>7, <1>8, <1>9, OperatorStep

\* What a result does to the clocks: success clears them, failure sets the retry.
LEMMA ResultClocks ==
  ASSUME BackupInv, NEW a \in Actors, PersistSchedulerResult(a)
  PROVE  ClocksTyped' /\ RetryHeld' /\ Fades
<1>1. PICK d \in Dests, t \in Nat, n \in Nat : d = at[a].dest /\ t = at[a].t /\ n = now
  BY DEF BackupInv, BackupsTyped, ActorsTyped, Task, ClocksTyped
<1>2. PICK stamp \in {t, n} : stamp = Stamp(a)
  BY <1>1 DEF Stamp
<1>3. t <= n /\ stamp \in Nat /\ stamp <= n /\ t <= stamp
  BY <1>1, <1>2 DEF BackupInv, ClockInv
<1>4. PICK c \in Clock, x \in Nat : c = row[d] /\ x = since[d]
  BY DEF BackupInv, BackupsTyped, ClocksTyped
<1>15. PICK l \in Nat : l = Lag(d)
  BY Lags
<1>5. x <= n /\ (a \in Tickers => x <= t + l)
  <2>1. x <= n
    BY <1>1, <1>4 DEF BackupInv, ClockInv, RetryHeld
  <2>2. a \in Tickers => TickOK(at[a])
    BY DEF BackupInv, ClockInv
  <2>3. at[a].pc = "persist"
    BY DEF PersistSchedulerResult
  <2> QED
    BY <1>1, <1>4, <1>15, <2>1, <2>2, <2>3 DEF TickOK, Looking
<1>6. PICK m \in Clock : /\ row' = [row EXCEPT ![d] = m] /\ m.attempt = Never
                         /\ ~at[a].ok => m.retry = stamp + Backoff
  <2>1. CASE at[a].ok
    <3>1. PICK m : m = [last |-> stamp, retry |-> Never, attempt |-> Never]
      OBVIOUS
    <3>2. m \in Clock /\ m.attempt = Never
      BY <1>3, <3>1 DEF Clock, Never
    <3> QED
      BY <1>1, <1>2, <2>1, <3>1, <3>2 DEF PersistSchedulerResult, Result
  <2>2. CASE ~at[a].ok
    <3>1. PICK k \in Nat : k = stamp + Backoff
      BY <1>3, Numbers
    <3>2. PICK m : m = [c EXCEPT !.retry = k, !.attempt = Never]
      OBVIOUS
    <3>3. m \in Clock /\ m.attempt = Never /\ m.retry = k
      BY <3>1, <3>2 DEF Clock, Never
    <3>4. row' = [row EXCEPT ![d].retry = k, ![d].attempt = Never]
      BY <1>1, <1>2, <2>2, <3>1 DEF PersistSchedulerResult, Result
    <3>5. row' = [row EXCEPT ![d] = m]
      BY <1>4, <3>2, <3>4 DEF BackupInv, BackupsTyped, ClocksTyped, Clock
    <3> QED
      BY <2>2, <3>1, <3>3, <3>5
  <2> QED
    BY <2>1, <2>2
<1>7. /\ row' \in [Dests -> Clock] /\ row'[d] = m
      /\ \A e \in Dests \ {d} : row'[e] = row[e]
  BY <1>6 DEF BackupInv, BackupsTyped, ClocksTyped
<1>8. PICK y \in {x, 0} : /\ y = since'[d]
                          /\ at[a].ok \/ a \in Operators => y = 0
  BY <1>1, <1>4 DEF PersistSchedulerResult, BackupInv, BackupsTyped, ClocksTyped, Never
<1>9. since' \in [Dests -> Nat] /\ \A e \in Dests \ {d} : since'[e] = since[e]
  BY <1>1 DEF PersistSchedulerResult, BackupInv, BackupsTyped, ClocksTyped, Never
<1>10. now' = now /\ status' = status
  BY DEF PersistSchedulerResult
<1>11. ClocksTyped'
  BY <1>7, <1>9, <1>10 DEF BackupInv, BackupsTyped, ClocksTyped
<1>12. Spaced(d, y, m.retry)
  <2>1. SUFFICES ASSUME y # 0 PROVE m.retry + l >= y + Backoff
    BY <1>15 DEF Spaced, Never
  <2>2. a \in Tickers /\ ~at[a].ok /\ y = x
    BY <1>8, <2>1 DEF Actors
  <2>3. y <= stamp + l /\ m.retry = stamp + Backoff
    BY <1>3, <1>5, <1>6, <1>15, <2>2
  <2> QED
    BY <1>3, <1>15, <2>3, Numbers
<1>13. RetryHeld'
  <2>1. ASSUME NEW e \in Dests
        PROVE  /\ since'[e] <= now /\ row'[e].attempt <= now
               /\ row'[e].attempt # 0 => row'[e].retry = row'[e].attempt + Backoff
               /\ Spaced(e, since'[e], row'[e].retry)
    <3>1. CASE e # d
      BY <1>7, <1>9, <3>1 DEF BackupInv, ClockInv, RetryHeld, Never
    <3>2. CASE e = d
      <4>1. y <= n /\ 0 <= n
        BY <1>5
      <4> QED
        BY <1>1, <1>6, <1>7, <1>8, <1>12, <3>2, <4>1 DEF Never
    <3> QED
      BY <3>1, <3>2
  <2> QED
    BY <1>10, <2>1 DEF RetryHeld, Never, Spaced, Lag
<1>14. Fades
  BY <1>4, <1>6, <1>7, <1>8, <1>9 DEF Fades, Never
<1> QED
  BY <1>11, <1>13, <1>14

LEMMA PersistStep ==
  ASSUME BackupInv, NEW a \in Actors, PersistSchedulerResult(a)
  PROVE  Step(a)
<1>1. PICK both \in BOOLEAN : both = (at[a].job = "cli" /\ at[a].dest = "volume" /\ at[a].ok)
  OBVIOUS
<1>2. /\ at[a].pc = "persist" /\ UNCHANGED stored /\ now' = now /\ Continues(a, both)
      /\ ClocksTyped' /\ RetryHeld' /\ Fades
  BY <1>1, ResultClocks DEF PersistSchedulerResult
<1>3. CASE a \in Tickers
  BY <1>2, <1>3, OnwardStep DEF Continues
<1>4. CASE a \in Operators
  BY <1>2, <1>4, ContinueStep
<1> QED
  BY <1>3, <1>4 DEF Actors

LEMMA PersistFailsStep ==
  ASSUME BackupInv, NEW a \in Actors, PersistFails(a)
  PROVE  Step(a)
<1>1. /\ at[a].pc = "persist" /\ UNCHANGED stored /\ now' = now /\ Continues(a, FALSE)
      /\ UNCHANGED <<status, row, since, now>>
  BY DEF PersistFails
<1>2. ClocksTyped' /\ RetryHeld' /\ Fades
  BY <1>1, ClocksStay, SameRetries DEF BackupInv, BackupsTyped, ClockInv
<1>3. CASE a \in Tickers
  BY <1>1, <1>2, <1>3, OnwardStep DEF Continues
<1>4. CASE a \in Operators
  BY <1>1, <1>2, <1>4, ContinueStep
<1> QED
  BY <1>3, <1>4 DEF Actors

-----------------------------------------------------------------------------
(* The whole specification.                                                *)

\* A run's step, whoever takes it.
LEMMA RunsAre ==
  ASSUME BackupInv, NEW a \in Actors, RunSteps(a)
  PROVE  Step(a)
<1>1. CASE \E r : RunStep(a, r)
  <2>1. PICK r : RunStep(a, r)
    BY <1>1
  <2> QED
    BY <2>1, RunStepTicks DEF Step, RunStep, BackupInv
<1>2. CASE FreshDump(a) /\ at' = [at EXCEPT ![a] = Idle] /\ work' = Freed(work, a)
  BY <1>2, FreshDumpEnds
<1> QED
  BY <1>1, <1>2, RunsStep DEF BackupInv

\* Bytes rot, time passes.
Ambient == Rot \/ ClockTicks

LEMMA StepsAre ==
  ASSUME BackupInv, BackupsNext
  PROVE  Ambient \/ \E a \in Actors : Step(a)
<1>1. ASSUME NEW p \in Tickers, LoadSchedulerState(p) \/ SettleInterruptedAttempts(p)
                                \/ ClearSchedulerAttempt(p) \/ NotDue(p) \/ MarkSchedulerAttempt(p)
      PROVE  \E a \in Actors : Step(a)
  BY <1>1, LoadStep, SettleStep, ClearStep, NotDueStep, MarkStep DEF Actors
<1>2. ASSUME NEW o \in Operators, RunScheduled(o) \/ Manual(o) \/ StartRotation(o) \/ RotationEnds(o)
      PROVE  \E a \in Actors : Step(a)
  BY <1>2, StartStep, RotationEndsStep DEF Actors
<1>3. ASSUME NEW o \in Operators, RotateKey(o)
      PROVE  \E a \in Actors : Step(a)
  BY <1>3, RunsAre DEF Actors, RunSteps
<1>4. ASSUME NEW a \in Actors, RunSteps(a)
      PROVE  Step(a)
  BY <1>4, RunsAre
<1>5. ASSUME NEW a \in Actors,
             AcquireWork(a) \/ PersistSchedulerResult(a) \/ PersistFails(a) \/ ProcessDies(a)
      PROVE  Step(a)
  BY <1>5, AcquireStep, PersistStep, PersistFailsStep, DyingEnds
<1> QED
  BY <1>1, <1>2, <1>3, <1>4, <1>5 DEF BackupsNext, RunSteps, Ambient

LEMMA StepKeeps ==
  ASSUME BackupInv, NEW a \in Actors, Step(a)
  PROVE  BackupInv' /\ FilesKept(a)
<1>1. PICK r : Safe(a, r) /\ ClockStep(a, r)
  BY DEF Step
<1>2. FileInv' /\ BackupsTyped' /\ FilesKept(a) /\ ClocksTyped'
  BY <1>1, SafeKeepsFiles DEF BackupInv, Safe
<1>3. ClockInv'
  BY <1>1, <1>2, ClockStepKeeps DEF BackupInv
<1> QED
  BY <1>2, <1>3 DEF BackupInv

\* What rots changes its bytes and nothing else.
LEMMA RotIs ==
  ASSUME BackupInv, Rot
  PROVE  /\ FilesTyped' /\ UNCHANGED <<status, row, since, scheduler, work, at, now>>
         /\ Names(volume)' = Names(volume) /\ Names(bucket)' = Names(bucket)
         /\ \A i \in Names(volume) : /\ volume'[i].made = volume[i].made
                                     /\ volume[i].is # "cut" => volume'[i].is # "cut"
         /\ \A i \in Names(bucket) : /\ bucket'[i].owned = bucket[i].owned
                                     /\ bucket[i].is # "cut" => bucket'[i].is # "cut"
<1>1. UNCHANGED <<status, row, since, scheduler, work, at, now>>
  BY DEF Rot, clocks, leases
<1>2. FilesTyped
  BY DEF BackupInv, BackupsTyped
<1>3. CASE /\ \E i \in Names(bucket) :
                bucket[i].is = "intact" /\ bucket' = [bucket EXCEPT ![i].is = "rotten"]
           /\ UNCHANGED volume
  <2>1. PICK i \in Names(bucket) : bucket' = [bucket EXCEPT ![i].is = "rotten"]
    BY <1>3
  <2>2. PICK f \in Object : f = bucket[i]
    BY <1>2 DEF Names, FilesTyped
  <2>3. PICK g : g = [f EXCEPT !.is = "rotten"]
    OBVIOUS
  <2>4. g \in Object /\ g.owned = f.owned /\ g.is = "rotten"
    BY <2>3 DEF Object, Contents
  <2>5. g # Nothing
    BY <2>4, NothingIsNoFile
  <2>6. /\ bucket' \in [Archives -> Object \cup {Nothing}]
        /\ \A j \in Archives : bucket'[j] = IF j = i THEN g ELSE bucket[j]
    BY <1>2, <2>1, <2>2, <2>3, <2>4 DEF FilesTyped
  <2>7. Names(bucket)' = Names(bucket) /\ Names(volume)' = Names(volume)
    BY <1>3, <2>5, <2>6 DEF Names
  <2>8. FilesTyped'
    BY <1>2, <1>3, <2>6, <2>7 DEF FilesTyped
  <2>9. \A j \in Names(bucket) : /\ bucket'[j].owned = bucket[j].owned
                                /\ bucket[j].is # "cut" => bucket'[j].is # "cut"
    BY <2>2, <2>4, <2>6 DEF Names
  <2> QED
    BY <1>1, <1>3, <2>7, <2>8, <2>9
<1>4. CASE /\ \E i \in Names(volume) :
                volume[i].is = "intact" /\ volume' = [volume EXCEPT ![i].is = "rotten"]
           /\ UNCHANGED bucket
  <2>1. PICK i \in Names(volume) : volume' = [volume EXCEPT ![i].is = "rotten"]
    BY <1>4
  <2>2. PICK f \in File : f = volume[i]
    BY <1>2 DEF Names, FilesTyped
  <2>3. PICK g : g = [f EXCEPT !.is = "rotten"]
    OBVIOUS
  <2>4. g \in File /\ g.made = f.made /\ g.is = "rotten"
    BY <2>3 DEF File, Contents
  <2>5. g # Nothing
    BY <2>4, NothingIsNoFile
  <2>6. /\ volume' \in [Archives -> File \cup {Nothing}]
        /\ \A j \in Archives : volume'[j] = IF j = i THEN g ELSE volume[j]
    BY <1>2, <2>1, <2>2, <2>3, <2>4 DEF FilesTyped
  <2>7. Names(bucket)' = Names(bucket) /\ Names(volume)' = Names(volume)
    BY <1>4, <2>5, <2>6 DEF Names
  <2>8. FilesTyped'
    BY <1>2, <1>4, <2>6, <2>7 DEF FilesTyped
  <2>9. \A j \in Names(volume) : /\ volume'[j].made = volume[j].made
                                /\ volume[j].is # "cut" => volume'[j].is # "cut"
    BY <2>2, <2>4, <2>6 DEF Names
  <2> QED
    BY <1>1, <1>4, <2>7, <2>8, <2>9
<1> QED
  BY <1>3, <1>4 DEF Rot

LEMMA RotKeeps ==
  ASSUME BackupInv, Rot
  PROVE  BackupInv' /\ (\A a : FilesKept(a))
<1>1. /\ FilesTyped' /\ UNCHANGED <<status, row, since, scheduler, work, at, now>>
      /\ Names(volume)' = Names(volume) /\ Names(bucket)' = Names(bucket)
      /\ \A i \in Names(volume) : volume[i].is # "cut" => volume'[i].is # "cut"
      /\ \A i \in Names(bucket) : bucket'[i].owned = bucket[i].owned
  BY RotIs
<1>2. OffsiteStep
  BY <1>1 DEF OffsiteStep, Names
<1>3. NoNewForeign
  BY <1>1 DEF NoNewForeign, Foreign, Names
<1>4. AllWhole' /\ \A a : PrunesOnly(a)
  BY <1>1 DEF AllWhole, PrunesOnly, Names, BackupInv, FileInv
<1>5. \A a : FilesKept(a)
  BY <1>2, <1>3, <1>4 DEF FilesKept
<1>6. BackupsTyped'
  BY <1>1 DEF BackupInv, BackupsTyped, ClocksTyped, ActorsTyped
<1>7. FileInv'
  <2>1. \A q \in Task : Copying(q) => Copying(q)'
    BY <1>1, <1>3 DEF Copying, Writing, NoNewForeign, Names
  <2>2. \A a \in Actors : Copying(at[a])'
    <3>1. TAKE a \in Actors
    <3>2. PICK q \in Task : q = at[a]
      BY DEF BackupInv, BackupsTyped, ActorsTyped
    <3>3. Copying(q)' /\ at'[a] = q
      BY <1>1, <2>1, <3>2 DEF BackupInv, FileInv
    <3> QED
      BY <3>3 DEF Copying, Writing
  <2> QED
    BY <1>1, <1>4, <2>2 DEF BackupInv, FileInv, HoldsWork
<1>8. ClockInv'
  BY <1>1 DEF BackupInv, ClockInv, RetryHeld, OneScheduler, TickOK, Spaced, Lag
<1> QED
  BY <1>5, <1>6, <1>7, <1>8 DEF BackupInv

LEMMA TimeKeeps ==
  ASSUME BackupInv, ClockTicks
  PROVE  BackupInv' /\ UNCHANGED <<volume, bucket, status, row, at>> /\ now' = now + 1
<1>1. UNCHANGED <<volume, bucket, status, row, since, scheduler, work, at>> /\ now' = now + 1
  BY DEF ClockTicks, stored, clocks, leases
<1>2. now \in Nat /\ now' \in Nat
  BY <1>1 DEF BackupInv, BackupsTyped, ClocksTyped
<1>3. BackupsTyped'
  BY <1>1, <1>2 DEF BackupInv, BackupsTyped, ClocksTyped, ActorsTyped, FilesTyped, Names
<1>4. FileInv'
  BY <1>1 DEF BackupInv, FileInv, AllWhole, HoldsWork, Copying, Writing, Foreign, Names
<1>5. RetryHeld'
  <2>1. \A d \in Dests : since[d] \in Nat /\ row[d].attempt \in Nat
    BY DEF BackupInv, BackupsTyped, ClocksTyped, Clock
  <2>2. \A d \in Dests : since[d] <= now + 1 /\ row[d].attempt <= now + 1
    BY <1>2, <2>1 DEF BackupInv, ClockInv, RetryHeld
  <2> QED
    BY <1>1, <2>2 DEF RetryHeld, BackupInv, ClockInv, Spaced, Lag
<1>6. \A a \in Actors : at'[a].t <= now'
  <2>1. \A a \in Actors : at[a].t \in Nat /\ at[a].t <= now
    BY DEF BackupInv, ClockInv, BackupsTyped, ActorsTyped, Task
  <2> QED
    BY <1>1, <1>2, <2>1
<1>7. ASSUME NEW p \in Tickers PROVE TickOK(at[p])'
  <2>1. PICK q \in Task : q = at[p]
    BY DEF BackupInv, BackupsTyped, ActorsTyped, Actors
  <2>2. TickOK(q) /\ p \in Actors
    BY <2>1 DEF BackupInv, ClockInv, Actors
  <2>3. q.pc \in {"idle"} \cup Slow /\ (q.pc \in Slow => now < q.begun + RunLimit)
    BY <2>1, <2>2 DEF ClockTicks
  <2>4. q.pc \notin Looking \cup {"acquire"}
    BY <2>3 DEF Slow, Looking
  <2>5. now < q.begun + RunLimit => now + 1 <= q.begun + RunLimit
    BY <1>2, Numbers DEF Task
  <2>6. q.pc # "idle" => TickNext(q)
    BY <1>1, <2>2, <2>3, <2>4, <2>5 DEF TickOK, TickNext
  <2>7. TickOK(q)'
    BY <2>6, TickIs
  <2> QED
    BY <1>1, <2>1, <2>7 DEF TickOK
<1>8. OneScheduler'
  BY <1>1 DEF BackupInv, ClockInv, OneScheduler
<1> QED
  BY <1>1, <1>3, <1>4, <1>5, <1>6, <1>7, <1>8 DEF BackupInv, ClockInv

LEMMA BackupsStart == BackupsInit => BackupInv
<1> SUFFICES ASSUME BackupsInit PROVE BackupInv
  OBVIOUS
<1>1. FilesTyped
  <2>1. PICK f : f = [key |-> "old", is |-> "intact", at |-> 0, made |-> 0]
    OBVIOUS
  <2>2. f \in File
    BY <2>1 DEF File, Contents
  <2>3. PICK first \in {Nothing, f} : volume = [i \in Archives |-> IF i = 1 THEN first ELSE Nothing]
    BY <2>1 DEF BackupsInit
  <2>4. volume \in [Archives -> File \cup {Nothing}] /\ Names(volume) \subseteq {1}
    BY <2>2, <2>3 DEF Names
  <2>5. IsFiniteSet(Names(volume))
    BY <2>4, FS_Singleton, FS_Subset
  <2>6. bucket \in [Archives -> Object \cup {Nothing}]
    <3>1. PICK object \in {Nothing} \cup [owned : BOOLEAN, key : {"old"}, is : {"intact"}, at : {0}] :
            bucket = [i \in Archives |-> IF i = 1 THEN object ELSE Nothing]
      BY DEF BackupsInit
    <3>2. [owned : BOOLEAN, key : {"old"}, is : {"intact"}, at : {0}] \subseteq Object
      <4> SUFFICES ASSUME NEW o \in [owned : BOOLEAN, key : {"old"}, is : {"intact"}, at : {0}]
                   PROVE  o \in Object
        OBVIOUS
      <4>1. /\ o = [owned |-> o.owned, key |-> o.key, is |-> o.is, at |-> o.at]
            /\ o.owned \in BOOLEAN /\ o.key = "old" /\ o.is = "intact" /\ o.at = 0
        OBVIOUS
      <4>2. PICK b \in BOOLEAN : o = [owned |-> b, key |-> "old", is |-> "intact", at |-> 0]
        BY <4>1
      <4> QED
        BY <4>2 DEF Object, Contents
    <3> QED
      BY <3>1, <3>2, Zenon
  <2> QED
    BY <2>4, <2>5, <2>6 DEF FilesTyped
<1>2. ClocksTyped
  BY DEF BackupsInit, ClocksTyped, Outcome, Results, Clock, Never
<1>3. ActorsTyped /\ \A a \in Actors : at[a] = Idle
  BY IdleTask DEF BackupsInit, ActorsTyped
<1>4. FileInv
  <2>1. AllWhole
    <3>1. \A i \in Names(volume) : volume[i] = [key |-> "old", is |-> "intact", at |-> 0, made |-> 0]
      BY DEF BackupsInit, Names
    <3> QED
      BY <3>1 DEF AllWhole
  <2> QED
    BY <1>3, <2>1, IdleTask DEF FileInv, HoldsWork, Copying, Writing, Heavy
<1>5. ClockInv
  <2>1. RetryHeld
    BY DEF BackupsInit, RetryHeld, Never, Spaced
  <2> QED
    BY <1>3, <2>1, IdleTask DEF BackupsInit, ClockInv, OneScheduler, TickOK, Actors
<1> QED
  BY <1>1, <1>2, <1>3, <1>4, <1>5 DEF BackupInv, BackupsTyped

LEMMA BackupsSteps == BackupInv /\ [BackupsNext]_backupVars => BackupInv'
<1> SUFFICES ASSUME BackupInv, [BackupsNext]_backupVars PROVE BackupInv'
  OBVIOUS
<1>1. CASE BackupsNext
  BY <1>1, StepsAre, StepKeeps, RotKeeps, TimeKeeps DEF Ambient
<1>2. CASE UNCHANGED backupVars
  <2>1. BackupsTyped' /\ FileInv'
    BY <1>2 DEF backupVars, BackupInv, BackupsTyped, FilesTyped, ClocksTyped, ActorsTyped, Names, FileInv,
                AllWhole, HoldsWork, Copying, Writing, Foreign
  <2>2. ClockInv'
    BY <1>2 DEF backupVars, BackupInv, ClockInv, RetryHeld, OneScheduler, TickOK, Spaced, Lag
  <2> QED
    BY <2>1, <2>2 DEF BackupInv
<1> QED
  BY <1>1, <1>2

LEMMA BackupsHold == BackupsSpec => []BackupInv
BY BackupsStart, BackupsSteps, PTL DEF BackupsSpec

-----------------------------------------------------------------------------
(* The recovery point.                                                     *)

Stocked == Names(volume) # {}
\* The newest archive is at least as young as t.
HasTop(t) == \E i \in Names(volume) : volume[i].made >= t /\ \A j \in Names(volume) : j <= i
Backed(t) == t <= now /\ (t # Never => HasTop(t))

Reported ==
  /\ Backed(row["volume"].last) /\ Backed(status["volume"].at)
  /\ status["s3"].is = "ok" => Stocked \/ WholeOffsite

\* What a run counts on: its dump comes after every other, and so does its copy.
Mirroring == {"compare", "freshdump", "verify", "repair", "put", "reput", "check", "s3prune",
              "record", "rehearse"}
VolumeOK(r) ==
  /\ r.pc = "promote" => r.name \in Archives /\ \A j \in Names(volume) : j < r.name
  /\ r.pc \in {"prune", "done"} => HasTop(now)
  /\ r.pc \in Mirroring => r.dest # "volume"
  /\ r.pc = "persist" /\ r.ok /\ r.dest = "volume" => HasTop(now)
CopyOK(r) ==
  /\ r.pc # "reput"
  /\ r.pc = "put" => r.name \in Archives /\ \A j \in Names(bucket) : j < r.name
  /\ r.pc \in {"check", "s3prune"} => r.name \in Owned /\ \A j \in Owned : j <= r.name
  /\ r.pc = "s3prune" => bucket[r.name].is # "cut"
  /\ r.pc = "record" /\ r.ok => WholeOffsite
PointOK(r) == VolumeOK(r) /\ (Stocked \/ CopyOK(r))

PointInv == Reported /\ \A a \in Actors : PointOK(at[a])

\* What a step leaves of the archives.
Keeping ==
  /\ \A t \in Nat : t <= now /\ HasTop(t) => HasTop(t)'
  /\ Stocked => Stocked'
  /\ WholeOffsite => Stocked' \/ WholeOffsite'

\* A step of an actor, as far as recovery points go.
Rests(a) == \A b \in Actors \ {a} : at'[b] = at[b]
PointStep(a) ==
  /\ now' = now /\ Rests(a) /\ PointOK(at[a])' /\ Reported' /\ Keeping
  /\ UNCHANGED stored \/ at[a].pc \in Heavy

LEMMA PointsKept ==
  ASSUME BackupInv, PointInv, NEW a \in Actors, PointStep(a)
  PROVE  PointInv'
<1>1. Reported' /\ Keeping /\ now' = now /\ now \in Nat
  BY DEF PointStep, BackupInv, BackupsTyped, ClocksTyped
<1>2. ASSUME NEW b \in Actors \ {a} PROVE PointOK(at[b])'
  <2>1. PICK q : q = at[b] /\ q = at'[b]
    BY DEF PointStep, Rests
  <2>2. PointOK(q)
    BY <2>1 DEF PointInv
  <2>3. PointOK(q)'
    <3>1. CASE UNCHANGED stored
      BY <1>1, <2>2, <3>1
      DEF PointOK, VolumeOK, CopyOK, stored, HasTop, Names, Owned, WholeOffsite, Stocked
    <3>2. CASE at[a].pc \in Heavy
      <4>1. q.pc \notin Heavy
        BY <2>1, <3>2 DEF BackupInv, FileInv, HoldsWork
      <4>2. q.pc = "persist" /\ q.ok /\ q.dest = "volume" => HasTop(now)'
        <5>1. PICK n \in Nat : n = now /\ n = now'
          BY <1>1
        <5>2. n <= n /\ (q.pc = "persist" /\ q.ok /\ q.dest = "volume" => HasTop(n))
          BY <2>2, <5>1 DEF PointOK, VolumeOK
        <5>3. q.pc = "persist" /\ q.ok /\ q.dest = "volume" => HasTop(n)'
          BY <1>1, <5>1, <5>2 DEF Keeping
        <5> QED
          BY <5>1, <5>3 DEF HasTop
      <4> QED
        BY <4>1, <4>2 DEF PointOK, VolumeOK, CopyOK, Heavy, Mirroring
    <3> QED
      BY <3>1, <3>2 DEF PointStep
  <2> QED
    BY <2>1, <2>3 DEF PointOK, VolumeOK, CopyOK
<1> QED
  BY <1>1, <1>2 DEF PointInv, PointStep

\* Reports after a step.
LEMMA ReportsOn ==
  ASSUME Keeping, now' = now, NEW l \in Nat, NEW s \in Nat,
         l = row'["volume"].last, s = status'["volume"].at, Backed(l), Backed(s),
         status'["s3"].is = "ok" => Stocked \/ WholeOffsite
  PROVE  Reported'
<1>1. ASSUME NEW t \in Nat, Backed(t) PROVE Backed(t)'
  BY <1>1 DEF Backed, Keeping
<1>2. Backed(l)' /\ Backed(s)'
  BY <1>1
<1>3. Backed(row["volume"].last)' /\ Backed(status["volume"].at)'
  BY <1>2 DEF Backed, HasTop
<1> QED
  BY <1>3 DEF Reported, Keeping

LEMMA SameReports ==
  ASSUME BackupsTyped, Reported, Keeping, now' = now,
         row'["volume"].last = row["volume"].last, status'["volume"].at = status["volume"].at,
         status'["s3"].is = "ok" => status["s3"].is = "ok"
  PROVE  Reported'
<1>1. PICK l \in Nat, s \in Nat : l = row["volume"].last /\ s = status["volume"].at
  BY DEF BackupsTyped, ClocksTyped, Clock, Outcome, Dests
<1>2. Backed(l) /\ Backed(s)
  BY <1>1 DEF Reported
<1> QED
  BY <1>1, <1>2, ReportsOn DEF Reported

LEMMA RestKeeping == ASSUME UNCHANGED stored PROVE Keeping
BY DEF Keeping, stored, HasTop, Stocked, WholeOffsite, Names, Owned

\* A failed run, or a rehearsal, reports nothing that has to be backed.
LEMMA StatusNoted ==
  ASSUME BackupsTyped,
         \/ status' = status
         \/ \E d \in Dests : SetStatus(d, "failed")
         \/ status' = [status EXCEPT !["rehearsal"] = [is |-> "ok", at |-> now]]
         \/ status' = [status EXCEPT !["rehearsal"].is = "failed"]
  PROVE  status'["volume"].at = status["volume"].at /\ (status'["s3"].is = "ok" => status["s3"].is = "ok")
<1>1. DOMAIN status = Dests /\ {"volume", "s3", "rehearsal"} \subseteq Dests
  BY DEF BackupsTyped, ClocksTyped, Dests
<1>2. status["volume"] \in Outcome /\ status["s3"] \in Outcome
  BY <1>1 DEF BackupsTyped, ClocksTyped
<1>3. PICK v \in Outcome, m \in Outcome : v = status["volume"] /\ m = status["s3"]
  BY <1>2
<1>4. /\ [v EXCEPT !.is = "failed"].at = v.at /\ [m EXCEPT !.is = "failed"].is = "failed"
  BY DEF Outcome
<1>5. CASE \E d \in Dests : SetStatus(d, "failed")
  <2>1. PICK d \in Dests : status' = [status EXCEPT ![d].is = "failed"]
    BY <1>5 DEF SetStatus
  <2>2. /\ status'["volume"] = v \/ status'["volume"] = [v EXCEPT !.is = "failed"]
        /\ status'["s3"] = m \/ status'["s3"] = [m EXCEPT !.is = "failed"]
    BY <1>1, <1>3, <2>1
  <2> QED
    BY <1>3, <1>4, <2>2
<1>6. CASE status' = status
  BY <1>6
<1>7. CASE status' = [status EXCEPT !["rehearsal"] = [is |-> "ok", at |-> now]]
  BY <1>1, <1>7
<1>8. CASE status' = [status EXCEPT !["rehearsal"].is = "failed"]
  BY <1>1, <1>8
<1> QED
  BY <1>5, <1>6, <1>7, <1>8

\* Where an actor counts on nothing.
LEMMA AtEase ==
  ASSUME NEW a, at'[a].pc \in {"idle", "settle", "clear", "due", "acquire", "dump", "rotate"}
  PROVE  PointOK(at[a])'
BY DEF PointOK, VolumeOK, CopyOK, Mirroring

LEMMA FailedAtEase ==
  ASSUME NEW a, at'[a].pc = "persist", at'[a].ok = FALSE \/ at'[a].dest # "volume"
  PROVE  PointOK(at[a])'
BY DEF PointOK, VolumeOK, CopyOK, Mirroring

LEMMA ActorMoves ==
  ASSUME BackupsTyped, NEW a \in Actors, NEW step, Go(a, step) \/ Fails(a, step)
  PROVE  /\ at'[a].pc = step /\ at'[a].name = at[a].name /\ at'[a].dest = at[a].dest /\ Rests(a)
         /\ Go(a, step) => at'[a].ok = at[a].ok
         /\ Fails(a, step) => at'[a].ok = FALSE
<1>1. at[a] \in Task /\ DOMAIN at = Actors
  BY DEF BackupsTyped, ActorsTyped
<1>2. ASSUME Go(a, step)
      PROVE  /\ at'[a].pc = step /\ at'[a].name = at[a].name /\ at'[a].dest = at[a].dest /\ Rests(a)
             /\ at'[a].ok = at[a].ok
  <2>1. PICK r : r = [at[a] EXCEPT !.pc = step]
    OBVIOUS
  <2>2. at' = [at EXCEPT ![a] = r]
    BY <1>1, <1>2, <2>1 DEF Go
  <2>3. r.pc = step /\ r.name = at[a].name /\ r.dest = at[a].dest /\ r.ok = at[a].ok
    BY <1>1, <2>1 DEF Task
  <2> QED
    BY <1>1, <2>2, <2>3 DEF Rests
<1>3. ASSUME Fails(a, step)
      PROVE  /\ at'[a].pc = step /\ at'[a].name = at[a].name /\ at'[a].dest = at[a].dest /\ Rests(a)
             /\ at'[a].ok = FALSE
  <2>1. PICK r : r = [at[a] EXCEPT !.pc = step, !.ok = FALSE]
    OBVIOUS
  <2>2. at' = [at EXCEPT ![a] = r]
    BY <1>1, <1>3, <2>1 DEF Fails
  <2>3. r.pc = step /\ r.name = at[a].name /\ r.dest = at[a].dest /\ r.ok = FALSE
    BY <1>1, <2>1 DEF Task
  <2> QED
    BY <1>1, <2>2, <2>3 DEF Rests
<1> QED
  BY <1>2, <1>3

\* A step that touches no file and reports nothing new.
LEMMA QuietPoint ==
  ASSUME BackupInv, PointInv, NEW a \in Actors, UNCHANGED stored, now' = now, Rests(a),
         PointOK(at[a])', row'["volume"].last = row["volume"].last,
         \/ status' = status
         \/ \E d \in Dests : SetStatus(d, "failed")
         \/ status' = [status EXCEPT !["rehearsal"] = [is |-> "ok", at |-> now]]
         \/ status' = [status EXCEPT !["rehearsal"].is = "failed"]
  PROVE  PointStep(a)
<1>1. Keeping
  BY RestKeeping
<1>2. Reported'
  BY <1>1, StatusNoted, SameReports DEF BackupInv, PointInv
<1> QED
  BY <1>1, <1>2 DEF PointStep

\* ... and leaves the actor where it counts on nothing.
LEMMA FailedPoint ==
  ASSUME BackupInv, PointInv, NEW a \in Actors, Fails(a, "persist"), UNCHANGED stored, now' = now,
         row' = row, status' = status \/ \E d \in Dests : SetStatus(d, "failed")
  PROVE  PointStep(a)
BY ActorMoves, FailedAtEase, QuietPoint DEF BackupInv

LEMMA RecordedPoint ==
  ASSUME BackupInv, PointInv, NEW a \in Actors, Fails(a, "record"), at[a].pc \in Mirroring,
         UNCHANGED stored, now' = now, row' = row, status' = status
  PROVE  PointStep(a)
<1>1. at[a].dest # "volume"
  BY DEF PointInv, PointOK, VolumeOK
<1>2. at'[a].pc = "record" /\ at'[a].ok = FALSE /\ at'[a].dest = at[a].dest /\ Rests(a)
  BY ActorMoves DEF BackupInv
<1>3. PointOK(at[a])'
  BY <1>1, <1>2 DEF PointOK, VolumeOK, CopyOK
<1> QED
  BY <1>2, <1>3, QuietPoint

LEMMA EndsPoint ==
  ASSUME BackupInv, PointInv, NEW a \in Actors, at' = [at EXCEPT ![a] = Idle], UNCHANGED stored,
         now' = now, row' = row, status' = status
  PROVE  PointStep(a)
<1>1. at'[a].pc = "idle" /\ Rests(a)
  BY IdleTask DEF BackupInv, BackupsTyped, ActorsTyped, Rests
<1> QED
  BY <1>1, AtEase, QuietPoint

\* The ticker's bookkeeping.
LEMMA TickPoint ==
  ASSUME BackupInv, PointInv, NEW p \in Tickers,
         SettleInterruptedAttempts(p) \/ ClearSchedulerAttempt(p) \/ NotDue(p) \/ MarkSchedulerAttempt(p)
  PROVE  PointStep(p)
<1>1. p \in Actors /\ at[p] \in Task /\ DOMAIN at = Actors /\ UNCHANGED stored /\ now' = now
  BY DEF Actors, BackupInv, BackupsTyped, ActorsTyped, SettleInterruptedAttempts,
         ClearSchedulerAttempt, NotDue, MarkSchedulerAttempt
<1>2. /\ \A d \in Dests : row[d] \in Clock /\ DOMAIN row = Dests
      /\ "volume" \in Dests
  BY DEF BackupInv, BackupsTyped, ClocksTyped, Dests
<1>3. ASSUME Onward(p) PROVE at'[p].pc \in {"idle", "due"} /\ Rests(p)
  <2>1. PICK r : Turns(p, r) /\ r.pc \in {"idle", "due"}
    BY <1>3, OnwardTurns DEF BackupInv
  <2> QED
    BY <1>1, <2>1 DEF Turns, Rests
<1>4. ASSUME status' = StatusWhenRead(p)
      PROVE  status' = status \/ status' = [status EXCEPT !["rehearsal"].is = "failed"]
  BY <1>4 DEF StatusWhenRead
<1>5. CASE SettleInterruptedAttempts(p)
  <2>1. Go(p, "clear") /\ row' = row /\ (status' = status \/ SetStatus(Settling(p), "failed"))
    BY <1>5 DEF SettleInterruptedAttempts, clocks
  <2>2. Settling(p) \in Dests
    BY DEF Settling, Dests
  <2>3. at'[p].pc = "clear" /\ Rests(p)
    BY <1>1, <2>1, ActorMoves DEF BackupInv
  <2> QED
    BY <1>1, <2>1, <2>2, <2>3, AtEase, QuietPoint
<1>6. CASE ClearSchedulerAttempt(p)
  <2>1. PICK left : left = at[p].marked \ {Settling(p)}
    OBVIOUS
  <2>7. PICK step \in {"due", "settle"} : step = IF left = {} THEN "due" ELSE "settle"
    OBVIOUS
  <2>2. PICK r : r = [at[p] EXCEPT !.pc = step, !.marked = left]
    OBVIOUS
  <2>3. at' = [at EXCEPT ![p] = r]
    BY <1>6, <2>1, <2>7, <2>2 DEF ClearSchedulerAttempt, BackupInv, BackupsTyped, ActorsTyped
  <2>8. r.pc = step
    BY <1>1, <2>2 DEF Task
  <2>4. at'[p].pc \in {"due", "settle"} /\ Rests(p)
    BY <1>1, <2>3, <2>8 DEF Rests
  <2>5. row'["volume"].last = row["volume"].last
    <3>1. PICK c \in Clock : c = row["volume"]
      BY <1>2
    <3>2. [c EXCEPT !.attempt = Never].last = c.last
      BY DEF Clock
    <3>3. row'["volume"] = c \/ row'["volume"] = [c EXCEPT !.attempt = Never]
      BY <1>2, <1>6, <3>1 DEF ClearSchedulerAttempt
    <3> QED
      BY <3>1, <3>2, <3>3
  <2>6. status' = status
    BY <1>6 DEF ClearSchedulerAttempt
  <2> QED
    BY <1>1, <2>4, <2>5, <2>6, AtEase, QuietPoint
<1>7. CASE NotDue(p)
  <2>1. Onward(p) /\ row' = row /\ status' = StatusWhenRead(p)
    BY <1>7 DEF NotDue, clocks
  <2> QED
    BY <1>1, <1>3, <1>4, <2>1, AtEase, QuietPoint
<1>8. CASE MarkSchedulerAttempt(p)
  <2>1. /\ status' = StatusWhenRead(p)
        /\ \/ row' = row /\ Onward(p)
           \/ /\ row' = Marked(at[p].dest, at[p].t)
              /\ at' = [at EXCEPT ![p].pc = "acquire", ![p].begun = now]
    BY <1>8 DEF MarkSchedulerAttempt
  <2>2. row'["volume"].last = row["volume"].last
    <3>1. PICK c \in Clock : c = row["volume"]
      BY <1>2
    <3>2. PICK t : t = at[p].t
      OBVIOUS
    <3>3. [c EXCEPT !.attempt = t, !.retry = t + Backoff].last = c.last
      BY DEF Clock
    <3>4. row'["volume"] = c \/ row'["volume"] = [c EXCEPT !.attempt = t, !.retry = t + Backoff]
      <4>1. CASE row' = row
        BY <3>1, <4>1
      <4>2. CASE row' = Marked(at[p].dest, t)
        <5>1. PICK d : d = at[p].dest
          OBVIOUS
        <5>2. row' = [row EXCEPT ![d].attempt = t, ![d].retry = t + Backoff]
          BY <4>2, <5>1 DEF Marked
        <5>3. CASE d = "volume"
          BY <1>2, <3>1, <5>2, <5>3
        <5>4. CASE d # "volume"
          BY <1>2, <3>1, <5>2, <5>4
        <5> QED
          BY <5>3, <5>4
      <4> QED
        BY <2>1, <3>2, <4>1, <4>2
    <3> QED
      BY <3>1, <3>3, <3>4
  <2>3. at'[p].pc \in {"idle", "due", "acquire"} /\ Rests(p)
    <3>1. CASE Onward(p)
      BY <1>3, <3>1
    <3>2. CASE at' = [at EXCEPT ![p].pc = "acquire", ![p].begun = now]
      <4>1. PICK r : r = [at[p] EXCEPT !.pc = "acquire", !.begun = now]
        OBVIOUS
      <4>2. at' = [at EXCEPT ![p] = r] /\ r.pc = "acquire"
        BY <1>1, <3>2, <4>1 DEF Task
      <4> QED
        BY <1>1, <4>2 DEF Rests
    <3> QED
      BY <2>1, <3>1, <3>2
  <2> QED
    BY <1>1, <1>4, <2>1, <2>2, <2>3, AtEase, QuietPoint
<1> QED
  BY <1>5, <1>6, <1>7, <1>8

\* What a row lacks, comes from a report.
LEMMA LoadPoint ==
  ASSUME BackupInv, PointInv, NEW p \in Tickers, LoadSchedulerState(p)
  PROVE  PointStep(p)
<1>1. /\ p \in Actors /\ UNCHANGED stored /\ now' = now /\ status' = status
      /\ row' = [d \in Dests |-> IF d = "rehearsal" THEN row[d] ELSE [row[d] EXCEPT !.last = Fallback(d)]]
  BY DEF Actors, LoadSchedulerState
<1>2. at'[p].pc \in {"due", "settle"} /\ Rests(p)
  <2>1. PICK step \in {"due", "settle"} : step = IF Interrupted = {} THEN "due" ELSE "settle"
    OBVIOUS
  <2>4. PICK due, marked :
          /\ due = {d \in {"volume", "s3"} : CronDue(Fallback(d), now) /\ now > Retry(p, d)}
          /\ marked = Interrupted
    OBVIOUS
  <2>2. PICK r : r = [Idle EXCEPT !.pc = step, !.t = now, !.due = due, !.marked = marked]
    OBVIOUS
  <2>3. at' = [at EXCEPT ![p] = r]
    BY <2>1, <2>2, <2>4 DEF LoadSchedulerState
  <2>5. r.pc = step
    BY <2>2, IdleTask DEF Task
  <2> QED
    BY <1>1, <2>3, <2>5 DEF Rests, BackupInv, BackupsTyped, ActorsTyped
<1>3. PICK l \in Nat, s \in Nat : l = row["volume"].last /\ s = status["volume"].at
  BY DEF BackupInv, BackupsTyped, ClocksTyped, Clock, Outcome, Dests
<1>4. Backed(l) /\ Backed(s) /\ Keeping
  BY <1>1, <1>3, RestKeeping DEF PointInv, Reported
<1>5. PICK k \in {l, s} : k = Fallback("volume")
  BY <1>3 DEF Fallback
<1>6. row'["volume"].last = k
  BY <1>1, <1>5 DEF BackupInv, BackupsTyped, ClocksTyped, Clock, Dests
<1>7. Backed(k)
  BY <1>4
<1>8. Reported'
  BY <1>1, <1>3, <1>4, <1>6, <1>7, ReportsOn DEF PointInv, Reported
<1> QED
  BY <1>1, <1>2, <1>4, <1>8, AtEase DEF PointStep

\* An operator starts.
LEMMA StartPoint ==
  ASSUME BackupInv, PointInv, NEW o \in Operators, RunScheduled(o) \/ Manual(o) \/ StartRotation(o)
  PROVE  PointStep(o)
<1>1. o \in Actors /\ UNCHANGED stored /\ now' = now /\ row' = row /\ status' = status
  BY DEF Actors, RunScheduled, Manual, StartRotation, clocks
<1>2. PICK step \in {"acquire", "dump", "freshdump", "rotate"}, job \in Jobs, d \in Dests :
        Starts(o, step, job, d) /\ (step = "freshdump" => d = "s3")
  <2>1. {"cli", "panel", "rotate"} \subseteq Jobs /\ {"volume", "s3"} \subseteq Dests
    BY DEF Jobs, Dests
  <2> QED
    BY <2>1 DEF RunScheduled, Manual, StartRotation
<1>3. PICK r : r = [Idle EXCEPT !.pc = step, !.job = job, !.dest = d, !.t = now]
  OBVIOUS
<1>6. at' = [at EXCEPT ![o] = r]
  BY <1>2, <1>3 DEF Starts
<1>7. r.pc = step /\ r.dest = d
  BY <1>3, IdleTask DEF Task
<1>4. r.pc = step /\ r.dest = d /\ at'[o] = r /\ Rests(o)
  BY <1>1, <1>6, <1>7 DEF Rests, BackupInv, BackupsTyped, ActorsTyped
<1>5. PointOK(at[o])'
  BY <1>2, <1>4 DEF PointOK, VolumeOK, CopyOK, Mirroring
<1> QED
  BY <1>1, <1>4, <1>5, QuietPoint

LEMMA AcquirePoint ==
  ASSUME BackupInv, PointInv, NEW a \in Actors, AcquireWork(a)
  PROVE  PointStep(a)
<1>1. UNCHANGED stored /\ now' = now /\ row' = row
  BY DEF AcquireWork
<1>2. PICK d \in Dests : d = at[a].dest
  BY DEF BackupInv, BackupsTyped, ActorsTyped, Task
<1>3. CASE Go(a, FirstStep[d]) /\ status' = status
  <2>1. /\ at'[a].pc = FirstStep[d] /\ at'[a].dest = d /\ Rests(a)
    BY <1>2, <1>3, ActorMoves DEF BackupInv
  <2>2. \/ at'[a].pc = "dump"
        \/ at'[a].pc \in {"compare", "rehearse"} /\ at'[a].dest # "volume"
    BY <2>1 DEF FirstStep, Dests
  <2>3. PointOK(at[a])'
    BY <2>2 DEF PointOK, VolumeOK, CopyOK, Mirroring
  <2> QED
    BY <1>1, <1>3, <2>1, <2>3, QuietPoint
<1>4. CASE Fails(a, "persist") /\ (status' = status \/ SetStatus(d, "failed"))
  BY <1>1, <1>4, FailedPoint
<1> QED
  BY <1>2, <1>3, <1>4 DEF AcquireWork

LEMMA PersistPoint ==
  ASSUME BackupInv, PointInv, NEW a \in Actors, PersistSchedulerResult(a) \/ PersistFails(a)
  PROVE  PointStep(a)
<1>1. UNCHANGED stored /\ now' = now /\ status' = status /\ at[a].pc = "persist" /\ Keeping
  BY RestKeeping DEF PersistSchedulerResult, PersistFails
<1>2. at'[a].pc \in {"idle", "due", "acquire"} /\ Rests(a)
  <2>1. PICK both \in BOOLEAN : Continues(a, both)
    BY DEF PersistSchedulerResult, PersistFails
  <2>2. CASE a \in Tickers
    <3>1. PICK r : Turns(a, r) /\ r.pc \in {"idle", "due"}
      BY <2>1, <2>2, OnwardTurns DEF Continues, BackupInv
    <3> QED
      BY <3>1 DEF Turns, Rests, BackupInv, BackupsTyped, ActorsTyped
  <2>3. CASE a \notin Tickers
    <3>1. PICK r : r = IF both THEN [Idle EXCEPT !.pc = "acquire", !.job = "cli", !.dest = "s3"] ELSE Idle
      OBVIOUS
    <3>2. at' = [at EXCEPT ![a] = r] /\ r.pc \in {"idle", "acquire"}
      BY <2>1, <2>3, <3>1, IdleTask DEF Continues, Task
    <3> QED
      BY <3>2 DEF Rests, BackupInv, BackupsTyped, ActorsTyped
  <2> QED
    BY <2>2, <2>3
<1>3. PICK l \in Nat, s \in Nat, t \in Nat, n \in Nat :
        l = row["volume"].last /\ s = status["volume"].at /\ t = at[a].t /\ n = now
  BY DEF BackupInv, BackupsTyped, ClocksTyped, ActorsTyped, Clock, Outcome, Dests, Task
<1>4. Backed(l) /\ Backed(s) /\ t <= n
  BY <1>3 DEF PointInv, Reported, BackupInv, ClockInv
<1>5. CASE row' = row
  BY <1>1, <1>2, <1>5, AtEase, QuietPoint
<1>6. CASE row' = Result(a)
  <2>1. PICK d \in Dests, stamp \in {t, n} : d = at[a].dest /\ stamp = Stamp(a)
    BY <1>3 DEF Stamp, BackupInv, BackupsTyped, ActorsTyped, Task
  <2>2. "volume" \in Dests /\ DOMAIN row = Dests /\ row["volume"] \in Clock
    BY DEF Dests, BackupInv, BackupsTyped, ClocksTyped
  <2>3. PICK k \in {l, stamp} : row'["volume"].last = k /\ (k = l \/ (d = "volume" /\ at[a].ok))
    <3>1. CASE d # "volume"
      <4>1. row'["volume"] = row["volume"]
        BY <1>6, <2>1, <2>2, <3>1 DEF Result
      <4> QED
        BY <1>3, <4>1
    <3>2. CASE d = "volume" /\ at[a].ok
      <4>1. row'["volume"] = [last |-> stamp, retry |-> Never, attempt |-> Never]
        BY <1>6, <2>1, <2>2, <3>2 DEF Result
      <4> QED
        BY <3>2, <4>1
    <3>3. CASE d = "volume" /\ ~at[a].ok
      <4>1. PICK c, b : c \in Clock /\ c = row["volume"] /\ b = stamp + Backoff
        BY <2>2
      <4>2. row'["volume"] = [c EXCEPT !.retry = b, !.attempt = Never]
        BY <1>6, <2>1, <2>2, <3>3, <4>1 DEF Result
      <4>3. [c EXCEPT !.retry = b, !.attempt = Never].last = c.last
        BY DEF Clock
      <4> QED
        BY <1>3, <4>1, <4>2, <4>3
    <3> QED
      BY <3>1, <3>2, <3>3
  <2>4. Backed(k)
    <3>1. CASE k = l
      BY <1>4, <3>1
    <3>2. CASE k = stamp /\ d = "volume" /\ at[a].ok
      <4>1. HasTop(n)
        BY <1>1, <1>3, <2>1, <3>2 DEF PointInv, PointOK, VolumeOK
      <4>2. PICK i \in Names(volume) : volume[i].made >= n /\ \A j \in Names(volume) : j <= i
        BY <4>1 DEF HasTop
      <4>3. volume[i].made \in Nat
        BY DEF Names, BackupInv, BackupsTyped, FilesTyped, File
      <4>4. k <= n /\ volume[i].made >= k
        BY <1>4, <3>2, <4>2, <4>3
      <4> QED
        BY <1>3, <4>2, <4>4 DEF Backed, HasTop
    <3> QED
      BY <2>3, <3>1, <3>2
  <2>6. k \in Nat /\ k = row'["volume"].last /\ s = status'["volume"].at
    BY <1>1, <1>3, <2>1, <2>3
  <2>7. status'["s3"].is = "ok" => Stocked \/ WholeOffsite
    BY <1>1 DEF PointInv, Reported
  <2>5. Reported'
    BY <1>1, <1>4, <2>4, <2>6, <2>7, ReportsOn
  <2> QED
    BY <1>1, <1>2, <2>5, AtEase DEF PointStep
<1> QED
  BY <1>5, <1>6 DEF PersistSchedulerResult, PersistFails

\* Nothing is reported of a volume but what has been put there.
LEMMA DonePoint ==
  ASSUME BackupInv, PointInv, NEW a \in Actors, RunVolumeDone(a)
  PROVE  PointStep(a)
<1>1. UNCHANGED stored /\ now' = now /\ row' = row /\ at[a].pc = "done" /\ Keeping
  BY RestKeeping DEF RunVolumeDone, clocks
<1>2. CASE Fails(a, "persist") /\ UNCHANGED status
  BY <1>1, <1>2, FailedPoint
<1>3. CASE status' = [status EXCEPT !["volume"] = [is |-> "ok", at |-> now]] /\ Go(a, "persist")
  <2>1. at'[a].pc = "persist" /\ Rests(a)
    BY <1>3, ActorMoves DEF BackupInv
  <2>2. PICK n \in Nat, l \in Nat : n = now /\ l = row["volume"].last
    BY DEF BackupInv, BackupsTyped, ClocksTyped, Clock, Dests
  <2>3. HasTop(n)
    BY <1>1, <2>2 DEF PointInv, PointOK, VolumeOK
  <2>4. Backed(n) /\ Backed(l)
    BY <2>2, <2>3 DEF Backed, PointInv, Reported
  <2>5. status'["volume"].at = n /\ status'["s3"] = status["s3"]
    BY <1>3, <2>2 DEF BackupInv, BackupsTyped, ClocksTyped, Dests
  <2>6. Reported'
    BY <1>1, <2>2, <2>4, <2>5, ReportsOn DEF PointInv, Reported
  <2>7. PointOK(at[a])'
    <3>1. HasTop(n)' /\ now' = n
      BY <1>1, <2>2, <2>3 DEF Keeping
    <3>2. HasTop(now)'
      BY <3>1 DEF HasTop
    <3> QED
      BY <2>1, <3>2 DEF PointOK, VolumeOK, CopyOK, Mirroring
  <2> QED
    BY <1>1, <2>1, <2>6, <2>7 DEF PointStep
<1> QED
  BY <1>2, <1>3 DEF RunVolumeDone

LEMMA RehearsePoint ==
  ASSUME BackupInv, PointInv, NEW a \in Actors, RehearseNewest(a)
  PROVE  PointStep(a)
<1>1. UNCHANGED stored /\ now' = now /\ row' = row /\ at[a].pc = "rehearse"
  BY DEF RehearseNewest, clocks
<1>2. at[a].dest # "volume" /\ "rehearsal" \in Dests
  BY <1>1 DEF PointInv, PointOK, VolumeOK, Mirroring, Dests
<1>3. CASE Fails(a, "persist") /\ SetStatus("rehearsal", "failed")
  BY <1>1, <1>2, <1>3, FailedPoint
<1>4. CASE Go(a, "persist") /\ status' = [status EXCEPT !["rehearsal"] = [is |-> "ok", at |-> now]]
  <2>1. at'[a].pc = "persist" /\ at'[a].dest # "volume" /\ Rests(a)
    BY <1>2, <1>4, ActorMoves DEF BackupInv
  <2> QED
    BY <1>1, <1>4, <2>1, FailedAtEase, QuietPoint
<1> QED
  BY <1>3, <1>4 DEF RehearseNewest

LEMMA DumpPoint ==
  ASSUME BackupInv, PointInv, NEW a \in Actors, CreateVerifiedDump(a)
  PROVE  PointStep(a)
<1>1. UNCHANGED stored /\ now' = now /\ row' = row
  BY DEF CreateVerifiedDump, clocks
<1>2. CASE Dumps(a, "promote") /\ UNCHANGED status
  <2>1. PICK i \in Unused : \E r : Turns(a, r) /\ r.pc = "promote" /\ r.name = i
    BY <1>2, DumpTurns, ResultKinds DEF BackupInv, Heavy
  <2>2. PICK r : Turns(a, r) /\ r.pc = "promote" /\ r.name = i
    BY <2>1
  <2>3. at'[a] = r /\ Rests(a)
    BY <2>2 DEF Turns, Rests, BackupInv, BackupsTyped, ActorsTyped
  <2>4. i \in Archives /\ \A j \in Names(volume) : i > j
    BY DEF Unused
  <2>5. \A j \in Names(volume)' : j < i
    BY <1>1, <2>4 DEF Names, stored
  <2>6. PointOK(at[a])'
    BY <2>2, <2>3, <2>4, <2>5 DEF PointOK, VolumeOK, CopyOK, Mirroring
  <2> QED
    BY <1>1, <1>2, <2>3, <2>6, QuietPoint
<1>3. CASE SetStatus("volume", "failed") /\ Fails(a, "persist")
  BY <1>1, <1>3, ResultKinds, FailedPoint
<1> QED
  BY <1>2, <1>3 DEF CreateVerifiedDump

LEMMA FreshPoint ==
  ASSUME BackupInv, PointInv, NEW a \in Actors, FreshDump(a)
  PROVE  PointStep(a)
<1>1. UNCHANGED stored /\ now' = now /\ row' = row /\ status' = status /\ at[a].pc = "freshdump"
  BY DEF FreshDump, clocks
<1>2. CASE Dumps(a, "put")
  <2>1. PICK i \in Unused : \E r : Turns(a, r) /\ r.pc = "put" /\ r.name = i /\ Stays(a, r)
    BY <1>2, DumpTurns, ResultKinds DEF BackupInv, Heavy
  <2>2. PICK r : Turns(a, r) /\ r.pc = "put" /\ r.name = i /\ r.dest = at[a].dest
    BY <2>1 DEF Stays
  <2>3. at'[a] = r /\ Rests(a)
    BY <2>2 DEF Turns, Rests, BackupInv, BackupsTyped, ActorsTyped
  <2>4. i \in Archives /\ \A j \in Names(bucket) : i > j
    BY DEF Unused
  <2>5. \A j \in Names(bucket)' : j < i
    BY <1>1, <2>4 DEF Names, stored
  <2>6. r.dest # "volume"
    BY <1>1, <2>2 DEF PointInv, PointOK, VolumeOK, Mirroring
  <2>7. PointOK(at[a])'
    BY <2>2, <2>3, <2>4, <2>5, <2>6 DEF PointOK, VolumeOK, CopyOK
  <2> QED
    BY <1>1, <2>3, <2>7, QuietPoint
<1>3. CASE at' = [at EXCEPT ![a] = Idle]
  BY <1>1, <1>3, EndsPoint
<1>4. CASE Fails(a, "persist")
  BY <1>1, <1>4, FailedPoint
<1> QED
  BY <1>2, <1>3, <1>4 DEF FreshDump

\* Where an archive is on the volume, the copy may be anything.
LEMMA StockedPoint ==
  ASSUME BackupInv, PointInv, NEW a \in Actors, Stocked, UNCHANGED stored, now' = now,
         Rests(a), row' = row, status' = status,
         at'[a].pc \in Mirroring, at'[a].dest = at[a].dest, at[a].pc \in Mirroring
  PROVE  PointStep(a)
<1>1. at'[a].dest # "volume" /\ Stocked'
  BY RestKeeping DEF PointInv, PointOK, VolumeOK, Keeping
<1>2. PointOK(at[a])'
  BY <1>1 DEF PointOK, VolumeOK, Mirroring
<1> QED
  BY <1>2, QuietPoint

LEMMA ComparePoint ==
  ASSUME BackupInv, PointInv, NEW a \in Actors, Compare(a)
  PROVE  PointStep(a)
<1>1. /\ UNCHANGED stored /\ now' = now /\ row' = row /\ status' = status /\ at[a].pc = "compare"
      /\ at[a].pc \in Mirroring /\ at[a] \in Task
  BY DEF Compare, clocks, Mirroring, BackupInv, BackupsTyped, ActorsTyped
<1>2. CASE Go(a, "freshdump")
  <2>1. at'[a].pc = "freshdump" /\ at'[a].dest = at[a].dest /\ Rests(a)
    BY <1>2, ActorMoves DEF BackupInv
  <2>2. at'[a].dest # "volume"
    BY <1>1, <2>1 DEF PointInv, PointOK, VolumeOK
  <2>3. PointOK(at[a])'
    BY <2>1, <2>2 DEF PointOK, VolumeOK, CopyOK
  <2> QED
    BY <1>1, <2>1, <2>3, QuietPoint
<1>3. CASE /\ Names(volume) # {}
           /\ LET n == Newest(volume) IN
                at' = [at EXCEPT ![a].name = n, ![a].holds = volume[n].is,
                  ![a].pc = IF bucket[n] # Nothing THEN "verify"
                            ELSE IF Restorable(volume[n]) THEN "put" ELSE "record",
                  ![a].ok = bucket[n] # Nothing \/ Restorable(volume[n])]
  <2>1. PICK n, h, step, done :
          /\ n = Newest(volume) /\ h = volume[n].is
          /\ step = IF bucket[n] # Nothing THEN "verify"
                    ELSE IF Restorable(volume[n]) THEN "put" ELSE "record"
          /\ done = (bucket[n] # Nothing \/ Restorable(volume[n]))
    OBVIOUS
  <2>2. PICK r : r = [at[a] EXCEPT !.name = n, !.holds = h, !.pc = step, !.ok = done]
    OBVIOUS
  <2>3. at' = [at EXCEPT ![a] = r]
    BY <1>3, <2>1, <2>2
  <2>4. r.pc = step /\ r.dest = at[a].dest
    BY <1>1, <2>2 DEF Task
  <2>5. step \in Mirroring
    BY <2>1 DEF Mirroring
  <2>6. at'[a] = r /\ Rests(a)
    BY <2>3 DEF Rests, BackupInv, BackupsTyped, ActorsTyped
  <2> QED
    BY <1>1, <1>3, <2>4, <2>5, <2>6, StockedPoint DEF Stocked
<1>4. CASE Fails(a, "record")
  BY <1>1, <1>4, RecordedPoint
<1>5. CASE Fails(a, "persist")
  BY <1>1, <1>5, FailedPoint
<1> QED
  BY <1>2, <1>3, <1>4, <1>5 DEF Compare

LEMMA VerifyPoint ==
  ASSUME BackupInv, PointInv, NEW a \in Actors, VerifyMirroredCopy(a)
  PROVE  PointStep(a)
<1>1. /\ UNCHANGED stored /\ now' = now /\ row' = row /\ status' = status /\ at[a].pc = "verify"
      /\ at[a].pc \in Mirroring /\ at[a] \in Task
  BY DEF VerifyMirroredCopy, clocks, Mirroring, BackupInv, BackupsTyped, ActorsTyped
<1>2. PICK i : i = at[a].name /\ i \in Names(volume)
  BY <1>1 DEF BackupInv, FileInv, Copying
<1>3. Stocked
  BY <1>2 DEF Stocked
<1>4. CASE at' = [at EXCEPT ![a].pc = IF ~Restorable(volume[i]) THEN "record"
                                      ELSE IF Same(i) THEN "s3prune" ELSE "repair",
                            ![a].ok = Restorable(volume[i]), ![a].holds = volume[i].is]
  <2>1. PICK step, ok, h :
          /\ step = IF ~Restorable(volume[i]) THEN "record" ELSE IF Same(i) THEN "s3prune" ELSE "repair"
          /\ ok = Restorable(volume[i]) /\ h = volume[i].is
    OBVIOUS
  <2>2. PICK r : r = [at[a] EXCEPT !.pc = step, !.ok = ok, !.holds = h]
    OBVIOUS
  <2>3. at' = [at EXCEPT ![a] = r]
    BY <1>4, <2>1, <2>2
  <2>4. r.pc = step /\ r.dest = at[a].dest
    BY <1>1, <2>2 DEF Task
  <2>5. step \in Mirroring
    BY <2>1 DEF Mirroring
  <2>6. at'[a] = r /\ Rests(a)
    BY <2>3 DEF Rests, BackupInv, BackupsTyped, ActorsTyped
  <2> QED
    BY <1>1, <1>3, <2>4, <2>5, <2>6, StockedPoint
<1>5. CASE at' = [at EXCEPT ![a].pc = "repair", ![a].holds = volume[i].is]
  <2>1. PICK h : h = volume[i].is
    OBVIOUS
  <2>2. PICK r : r = [at[a] EXCEPT !.pc = "repair", !.holds = h]
    OBVIOUS
  <2>3. at' = [at EXCEPT ![a] = r]
    BY <1>5, <2>1, <2>2
  <2>4. r.pc = "repair" /\ r.dest = at[a].dest
    BY <1>1, <2>2 DEF Task
  <2>5. "repair" \in Mirroring
    BY DEF Mirroring
  <2>6. at'[a] = r /\ Rests(a)
    BY <2>3 DEF Rests, BackupInv, BackupsTyped, ActorsTyped
  <2> QED
    BY <1>1, <1>3, <2>4, <2>5, <2>6, StockedPoint
<1>6. CASE Fails(a, "record")
  BY <1>1, <1>6, RecordedPoint
<1> QED
  BY <1>2, <1>4, <1>5, <1>6 DEF VerifyMirroredCopy

LEMMA CheckPoint ==
  ASSUME BackupInv, PointInv, NEW a \in Actors, VerifyS3Object(a)
  PROVE  PointStep(a)
<1>1. /\ UNCHANGED stored /\ now' = now /\ row' = row /\ status' = status /\ at[a].pc = "check"
      /\ at[a].pc \in Mirroring /\ at[a] \in Task
  BY DEF VerifyS3Object, clocks, Mirroring, BackupInv, BackupsTyped, ActorsTyped
<1>2. CASE Fails(a, "record")
  BY <1>1, <1>2, RecordedPoint
<1>3. CASE bucket[at[a].name].is = at[a].holds /\ (Go(a, "record") \/ Go(a, "s3prune"))
  <2>1. PICK step \in {"record", "s3prune"} : Go(a, step)
    BY <1>3
  <2>2. /\ at'[a].pc = step /\ at'[a].dest = at[a].dest /\ at'[a].name = at[a].name /\ Rests(a)
    BY <2>1, ActorMoves DEF BackupInv
  <2>3. step \in Mirroring
    BY DEF Mirroring
  <2>4. CASE Stocked
    BY <1>1, <2>2, <2>3, <2>4, StockedPoint
  <2>5. CASE ~Stocked
    <3>1. PICK i : i = at[a].name
      OBVIOUS
    <3>2. i \in Owned /\ \A j \in Owned : j <= i
      BY <1>1, <2>5, <3>1 DEF PointInv, PointOK, CopyOK
    <3>3. bucket[i].is = "intact"
      BY <1>1, <1>3, <3>1 DEF BackupInv, FileInv, Copying, Writing
    <3>4. WholeOffsite /\ at[a].dest # "volume"
      BY <1>1, <3>2, <3>3 DEF WholeOffsite, PointInv, PointOK, VolumeOK
    <3>5. /\ i \in Owned' /\ (\A j \in Owned' : j <= i) /\ bucket'[i].is = "intact" /\ WholeOffsite'
      BY <1>1, <3>2, <3>3, <3>4 DEF Owned, Names, stored, WholeOffsite
    <3>6. PointOK(at[a])'
      BY <2>2, <3>1, <3>4, <3>5 DEF PointOK, VolumeOK, CopyOK
    <3> QED
      BY <1>1, <2>2, <3>6, QuietPoint
  <2> QED
    BY <2>4, <2>5
<1> QED
  BY <1>2, <1>3 DEF VerifyS3Object

LEMMA RecordPoint ==
  ASSUME BackupInv, PointInv, NEW a \in Actors, RecordS3Result(a)
  PROVE  PointStep(a)
<1>1. UNCHANGED stored /\ now' = now /\ row' = row /\ at[a].pc = "record" /\ Keeping
  BY RestKeeping DEF RecordS3Result, clocks
<1>2. CASE Fails(a, "persist") /\ UNCHANGED status
  BY <1>1, <1>2, FailedPoint
<1>3. CASE /\ status' = [status EXCEPT !["s3"] = [is |-> IF at[a].ok THEN "ok" ELSE "failed", at |-> now]]
           /\ Go(a, "persist")
  <2>1. at'[a].pc = "persist" /\ at'[a].dest = at[a].dest /\ Rests(a)
    BY <1>3, ActorMoves DEF BackupInv
  <2>2. at[a].dest # "volume" /\ (at[a].ok => Stocked \/ WholeOffsite)
    BY <1>1 DEF PointInv, PointOK, VolumeOK, CopyOK, Mirroring
  <2>3. PICK is : is = IF at[a].ok THEN "ok" ELSE "failed"
    OBVIOUS
  <2>4. status'["volume"] = status["volume"] /\ status'["s3"].is = is
    BY <1>3, <2>3 DEF BackupInv, BackupsTyped, ClocksTyped, Dests
  <2>5. PICK l \in Nat, s \in Nat : l = row["volume"].last /\ s = status["volume"].at
    BY DEF BackupInv, BackupsTyped, ClocksTyped, Clock, Outcome, Dests
  <2>6. Backed(l) /\ Backed(s) /\ l = row'["volume"].last /\ s = status'["volume"].at
    BY <1>1, <2>4, <2>5 DEF PointInv, Reported
  <2>7. status'["s3"].is = "ok" => Stocked \/ WholeOffsite
    BY <2>2, <2>3, <2>4
  <2>8. Reported'
    BY <1>1, <2>6, <2>7, ReportsOn
  <2>9. PointOK(at[a])'
    BY <2>1, <2>2, FailedAtEase
  <2> QED
    BY <1>1, <2>1, <2>8, <2>9 DEF PointStep
<1> QED
  BY <1>2, <1>3 DEF RecordS3Result

\* The newest archive is never pruned.
LEMMA NewestStays ==
  ASSUME FilesTyped, NEW i \in Names(volume), \A j \in Names(volume) : j <= i
  PROVE  i \notin Prunable
<1>1. {j \in Names(volume) : j > i} = {}
  <2>1. \A j \in Names(volume) : j \in Nat /\ j <= i
    BY Numbers DEF Names
  <2> QED
    BY <2>1
<1>2. NewerThan(i, Names(volume)) = 0
  BY <1>1, FS_EmptySet DEF NewerThan
<1> QED
  BY <1>2, Numbers DEF Prunable

\* A step that changes the volume.
LEMMA VolumePoint ==
  ASSUME BackupInv, PointInv, NEW a \in Actors, at[a].pc \in Heavy, now' = now, row' = row,
         status' = status, Rests(a), Stocked', \A t \in Nat : t <= now /\ HasTop(t) => HasTop(t)',
         VolumeOK(at[a])'
  PROVE  PointStep(a)
<1>1. Keeping
  BY DEF Keeping
<1>2. Reported'
  BY <1>1, SameReports DEF BackupInv, PointInv
<1> QED
  BY <1>1, <1>2 DEF PointStep, PointOK

LEMMA PromotePoint ==
  ASSUME BackupInv, PointInv, NEW a \in Actors, Promote(a)
  PROVE  PointStep(a)
<1>1. now' = now /\ row' = row /\ at[a].pc = "promote" /\ at[a].pc \in Heavy /\ UNCHANGED bucket
  BY DEF Promote, clocks, Heavy
<1>2. CASE SetStatus("volume", "failed") /\ Fails(a, "persist") /\ UNCHANGED volume
  BY <1>1, <1>2, ResultKinds, FailedPoint DEF stored
<1>3. CASE /\ volume' = [volume EXCEPT ![at[a].name] =
                           [key |-> "new", is |-> at[a].holds, at |-> now, made |-> now]]
           /\ Go(a, "prune") /\ UNCHANGED status
  <2>1. PICK i \in Archives, n \in Nat : i = at[a].name /\ n = now /\ \A j \in Names(volume) : j < i
    BY <1>1 DEF PointInv, PointOK, VolumeOK, BackupInv, BackupsTyped, ClocksTyped
  <2>2. PICK f : f = [key |-> "new", is |-> at[a].holds, at |-> n, made |-> n]
    OBVIOUS
  <2>3. f \in File /\ f.made = n
    BY <2>2 DEF File, BackupInv, BackupsTyped, ActorsTyped, Task
  <2>4. f # Nothing /\ i \in Nat
    BY <2>3, NothingIsNoFile, Numbers
  <2>5. volume' = [volume EXCEPT ![i] = f] /\ DOMAIN volume = Archives
    BY <1>3, <2>1, <2>2 DEF BackupInv, BackupsTyped, FilesTyped
  <2>6. Names(volume)' = Names(volume) \cup {i} /\ volume'[i] = f
    BY <2>4, <2>5, <2>1 DEF Names
  <2>7. \A j \in Names(volume)' : j <= i
    <3>1. \A j \in Names(volume) : j \in Nat
      BY Numbers DEF Names
    <3> QED
      BY <2>1, <2>4, <2>6, <3>1
  <2>8. \A t \in Nat : t <= n => HasTop(t)'
    BY <2>3, <2>6, <2>7 DEF HasTop
  <2>9. at'[a].pc = "prune" /\ Rests(a)
    BY <1>3, ActorMoves DEF BackupInv
  <2>10. HasTop(now)'
    <3>1. n <= n /\ now' = n
      BY <1>1, <2>1
    <3>2. HasTop(n)'
      BY <2>8, <3>1
    <3> QED
      BY <3>1, <3>2 DEF HasTop
  <2>11. VolumeOK(at[a])'
    BY <2>9, <2>10 DEF VolumeOK, Mirroring
  <2>12. Stocked'
    BY <2>6 DEF Stocked
  <2> QED
    BY <1>1, <1>3, <2>1, <2>8, <2>9, <2>11, <2>12, VolumePoint
<1> QED
  BY <1>2, <1>3 DEF Promote

LEMMA PrunePoint ==
  ASSUME BackupInv, PointInv, NEW a \in Actors, Prune(a)
  PROVE  PointStep(a)
<1>1. /\ now' = now /\ row' = row /\ status' = status /\ at[a].pc = "prune" /\ at[a].pc \in Heavy
      /\ Go(a, "done") /\ now \in Nat
  BY DEF Prune, clocks, Heavy, BackupInv, BackupsTyped, ClocksTyped
<1>2. PICK gone \in SUBSET Prunable :
        volume' = [i \in Archives |-> IF i \in gone THEN Nothing ELSE volume[i]]
  BY DEF Prune
<1>3. /\ Names(volume)' \subseteq Names(volume)
      /\ \A i \in Names(volume) \ Prunable : i \in Names(volume)' /\ volume'[i] = volume[i]
  BY <1>2 DEF Names
<1>4. ASSUME NEW t \in Nat, HasTop(t) PROVE HasTop(t)'
  <2>1. PICK i \in Names(volume) : volume[i].made >= t /\ \A j \in Names(volume) : j <= i
    BY <1>4 DEF HasTop
  <2>2. i \notin Prunable
    BY <2>1, NewestStays DEF BackupInv, BackupsTyped
  <2> QED
    BY <1>3, <2>1, <2>2 DEF HasTop
<1>5. HasTop(now)
  BY <1>1 DEF PointInv, PointOK, VolumeOK
<1>6. PICK n \in Nat : n = now
  BY <1>1
<1>7. HasTop(n)' /\ now' = n
  BY <1>1, <1>4, <1>5, <1>6
<1>8. HasTop(now)' /\ Stocked'
  BY <1>7 DEF HasTop, Stocked
<1>9. at'[a].pc = "done" /\ Rests(a)
  BY <1>1, ActorMoves DEF BackupInv
<1>10. VolumeOK(at[a])'
  BY <1>8, <1>9 DEF VolumeOK, Mirroring
<1> QED
  BY <1>1, <1>4, <1>8, <1>9, <1>10, VolumePoint

LEMMA RotatePoint ==
  ASSUME BackupInv, PointInv, NEW a \in Actors, RotateKey(a)
  PROVE  PointStep(a)
<1> DEFINE rest == {i \in Names(volume) : i > at[a].name}
<1>1. /\ now' = now /\ row' = row /\ status' = status /\ UNCHANGED bucket /\ at[a].pc = "rotate"
      /\ at[a].pc \in Heavy /\ rest # {} /\ at[a] \in Task
  BY DEF RotateKey, clocks, leases, Heavy, BackupInv, BackupsTyped, ActorsTyped
<1>2. rest \in SUBSET Nat
  BY Numbers DEF Names
<1>3. PICK i \in rest : i = Min(rest)
  <2> HIDE DEF rest
  <2> QED
    BY <1>1, <1>2, LeastIn
<1>4. /\ i \in Names(volume) /\ at' = [at EXCEPT ![a].name = i]
      /\ \/ volume' = [volume EXCEPT ![i].key = "new", ![i].is = "intact", ![i].at = now]
         \/ volume' = volume
  BY <1>3, Drilled DEF RotateKey
<1> HIDE DEF rest
<1>5. PICK r : r = [at[a] EXCEPT !.name = i]
  OBVIOUS
<1>6. at' = [at EXCEPT ![a] = r] /\ r.pc = "rotate"
  BY <1>1, <1>4, <1>5 DEF Task
<1>7. at'[a].pc = "rotate" /\ Rests(a)
  BY <1>6 DEF Rests, BackupInv, BackupsTyped, ActorsTyped
<1>8. CASE volume' = volume
  BY <1>1, <1>7, <1>8, AtEase, QuietPoint DEF stored
<1>9. CASE volume' = [volume EXCEPT ![i].key = "new", ![i].is = "intact", ![i].at = now]
  <2>1. PICK f \in File : f = volume[i]
    BY <1>4 DEF Names, BackupInv, BackupsTyped, FilesTyped
  <2>2. PICK g : g = [f EXCEPT !.key = "new", !.is = "intact", !.at = now]
    OBVIOUS
  <2>3. g \in File /\ g.made = f.made
    BY <2>2 DEF File, Contents, BackupInv, BackupsTyped, ClocksTyped
  <2>4. g # Nothing
    BY <2>3, NothingIsNoFile
  <2>5. volume' = [volume EXCEPT ![i] = g] /\ DOMAIN volume = Archives
    BY <1>9, <2>1, <2>2 DEF BackupInv, BackupsTyped, FilesTyped
  <2>6. Names(volume)' = Names(volume) /\ \A j \in Names(volume) : volume'[j].made = volume[j].made
    BY <1>4, <2>1, <2>3, <2>4, <2>5 DEF Names
  <2>7. Stocked' /\ \A t \in Nat : HasTop(t) => HasTop(t)'
    BY <1>4, <2>6 DEF Stocked, HasTop
  <2>8. VolumeOK(at[a])'
    BY <1>7 DEF VolumeOK, Mirroring
  <2> QED
    BY <1>1, <1>7, <2>7, <2>8, VolumePoint
<1> QED
  BY <1>4, <1>8, <1>9

\* A step that changes the bucket.
LEMMA BucketPoint ==
  ASSUME BackupInv, PointInv, NEW a \in Actors, at[a].pc \in Mirroring, at'[a].pc \in Mirroring,
         at'[a].dest = at[a].dest, now' = now, row' = row, status' = status,
         volume' = volume, Rests(a),
         ~Stocked => CopyOK(at[a])' /\ (WholeOffsite => WholeOffsite')
  PROVE  PointStep(a)
<1>1. /\ \A t \in Nat : HasTop(t) => HasTop(t)'
      /\ Stocked' = Stocked
  BY DEF HasTop, Stocked, Names
<1>2. Keeping
  BY <1>1 DEF Keeping
<1>3. Reported'
  BY <1>2, SameReports DEF BackupInv, PointInv
<1>4. at'[a].dest # "volume"
  BY DEF PointInv, PointOK, VolumeOK
<1>5. PointOK(at[a])'
  BY <1>1, <1>4 DEF PointOK, VolumeOK, Mirroring
<1>6. at[a].pc \in Heavy
  BY DEF Mirroring, Heavy
<1> QED
  BY <1>2, <1>3, <1>5, <1>6 DEF PointStep

LEMMA RepairPoint ==
  ASSUME BackupInv, PointInv, NEW a \in Actors, RepairRemoves(a)
  PROVE  PointStep(a)
<1>1. /\ now' = now /\ row' = row /\ status' = status /\ volume' = volume /\ at[a].pc = "repair"
      /\ at[a].pc \in Mirroring
  BY DEF RepairRemoves, clocks, leases, Mirroring
<1>2. Stocked
  BY <1>1 DEF BackupInv, FileInv, Copying, Stocked
<1>3. PICK step \in {"reput", "record"} : Go(a, step) \/ Fails(a, step)
  BY DEF RepairRemoves
<1>4. at'[a].pc = step /\ at'[a].dest = at[a].dest /\ Rests(a)
  BY <1>3, ActorMoves DEF BackupInv
<1>5. step \in Mirroring
  BY DEF Mirroring
<1> QED
  BY <1>1, <1>2, <1>4, <1>5, BucketPoint

LEMMA UploadPoint ==
  ASSUME BackupInv, PointInv, NEW a \in Actors, UploadS3(a)
  PROVE  PointStep(a)
<1>1. /\ now' = now /\ row' = row /\ status' = status /\ volume' = volume
      /\ at[a].pc \in {"put", "reput"} /\ at[a].pc \in Mirroring
  BY DEF UploadS3, clocks, leases, Mirroring
<1>2. PICK i, n : i = at[a].name /\ n = now
  OBVIOUS
<1>3. bucket[i] = Nothing
  BY <1>2 DEF UploadS3
<1>4. \/ \E is \in Contents : bucket' = Uploaded(i, is)
      \/ bucket' = bucket /\ Fails(a, "record")
  <2>1. at[a].holds = "intact" /\ {"intact", "cut"} \subseteq Contents
    BY <1>1 DEF Contents, BackupInv, FileInv, Copying, Writing
  <2> QED
    BY <1>2, <2>1 DEF UploadS3
<1>5. PICK step \in {"check", "record"} :
        \/ Go(a, step) /\ step = "check"
        \/ Fails(a, step) /\ step = "record"
  BY DEF UploadS3
<1>6. /\ at'[a].pc = step /\ at'[a].dest = at[a].dest /\ at'[a].name = i /\ Rests(a)
      /\ step = "record" => at'[a].ok = FALSE
  BY <1>2, <1>5, ActorMoves DEF BackupInv
<1>7. step \in Mirroring
  BY DEF Mirroring
<1>8. ASSUME ~Stocked PROVE CopyOK(at[a])' /\ (WholeOffsite => WholeOffsite')
  <2>1. i \in Archives /\ \A j \in Names(bucket) : j < i
    BY <1>1, <1>2, <1>8 DEF PointInv, PointOK, CopyOK
  <2>2. CASE \E is \in Contents : bucket' = Uploaded(i, is)
    <3>1. PICK is \in Contents : bucket' = Uploaded(i, is)
      BY <2>2
    <3>2. PICK f \in Object : f = [owned |-> TRUE, key |-> "new", is |-> is, at |-> now]
      BY DEF Object, BackupInv, BackupsTyped, ClocksTyped
    <3>3. f.owned = TRUE /\ f # Nothing
      BY <3>2, NothingIsNoFile
    <3>4. bucket' = [bucket EXCEPT ![i] = f] /\ DOMAIN bucket = Archives
      BY <3>1, <3>2 DEF Uploaded, BackupInv, BackupsTyped, FilesTyped
    <3>5. Names(bucket)' = Names(bucket) \cup {i} /\ bucket'[i] = f
      BY <2>1, <3>3, <3>4 DEF Names
    <3>6. /\ i \in Owned' /\ \A j \in Owned' : j = i \/ (j \in Owned /\ bucket'[j] = bucket[j])
          /\ \A j \in Owned : j \in Owned' /\ bucket'[j] = bucket[j]
      BY <1>3, <3>3, <3>4, <3>5 DEF Owned, Names
    <3>7. \A j \in Owned' : j <= i
      <4>1. \A j \in Owned : j < i /\ j \in Nat
        BY <2>1, Numbers DEF Owned, Names
      <4>2. i <= i /\ i \in Nat
        BY <2>1, Numbers
      <4> QED
        BY <3>6, <4>1, <4>2
    <3>8. WholeOffsite => WholeOffsite'
      BY <3>6 DEF WholeOffsite
    <3> QED
      BY <1>6, <3>6, <3>7, <3>8 DEF CopyOK
  <2>3. CASE bucket' = bucket /\ Fails(a, "record")
    <3>1. at'[a].pc = "record" /\ at'[a].ok = FALSE
      BY <2>3, ActorMoves DEF BackupInv
    <3>2. WholeOffsite => WholeOffsite'
      BY <2>3 DEF WholeOffsite, Owned, Names
    <3> QED
      BY <3>1, <3>2 DEF CopyOK
  <2> QED
    BY <1>4, <2>2, <2>3
<1> QED
  BY <1>1, <1>6, <1>7, <1>8, BucketPoint

LEMMA PruneS3Point ==
  ASSUME BackupInv, PointInv, NEW a \in Actors, PruneS3(a)
  PROVE  PointStep(a)
<1>1. /\ now' = now /\ row' = row /\ status' = status /\ volume' = volume
      /\ at[a].pc = "s3prune" /\ at[a].pc \in Mirroring /\ Go(a, "record")
  BY DEF PruneS3, clocks, leases, Mirroring
<1>2. /\ at'[a].pc = "record" /\ at'[a].dest = at[a].dest /\ Rests(a) /\ "record" \in Mirroring
  BY <1>1, ActorMoves DEF BackupInv, Mirroring
<1>3. ASSUME ~Stocked PROVE CopyOK(at[a])' /\ (WholeOffsite => WholeOffsite')
  <2>1. PICK i \in Owned : (\A j \in Owned : j <= i) /\ bucket[i].is # "cut"
    BY <1>1, <1>3 DEF PointInv, PointOK, CopyOK
  <2>2. i \notin PrunableS3
    <3>1. \A j \in Owned : j \in Nat
      BY Numbers DEF Owned, Names
    <3>2. {j \in Owned : j > i} = {}
      BY <2>1, <3>1
    <3>3. NewerThan(i, Owned) = 0
      BY <3>2, FS_EmptySet DEF NewerThan
    <3> QED
      BY <3>3, Numbers DEF PrunableS3
  <2>3. PICK gone \in SUBSET PrunableS3 :
          bucket' = [j \in Archives |-> IF j \in gone THEN Nothing ELSE bucket[j]]
    BY DEF PruneS3
  <2>4. bucket'[i] = bucket[i] /\ i \in Owned'
    BY <2>2, <2>3 DEF Owned, Names
  <2>5. WholeOffsite'
    BY <2>1, <2>4 DEF WholeOffsite
  <2> QED
    BY <1>2, <2>5 DEF CopyOK
<1> QED
  BY <1>1, <1>2, <1>3, BucketPoint

LEMMA RotPoint ==
  ASSUME BackupInv, PointInv, Rot
  PROVE  PointInv'
<1>1. /\ UNCHANGED <<status, row, at, now>>
      /\ Names(volume)' = Names(volume) /\ Names(bucket)' = Names(bucket)
      /\ \A i \in Names(volume) : volume'[i].made = volume[i].made
      /\ \A i \in Names(bucket) : /\ bucket'[i].owned = bucket[i].owned
                                  /\ bucket[i].is # "cut" => bucket'[i].is # "cut"
  BY RotIs
<1>2. Owned' = Owned /\ (WholeOffsite => WholeOffsite') /\ Stocked' = Stocked
  BY <1>1 DEF Owned, WholeOffsite, Stocked
<1>3. \A t \in Nat : HasTop(t) => HasTop(t)'
  BY <1>1 DEF HasTop
<1>4. Keeping
  BY <1>2, <1>3 DEF Keeping
<1>5. Reported'
  BY <1>1, <1>4, SameReports DEF BackupInv, PointInv
<1>6. HasTop(now) => HasTop(now)'
  <2>1. PICK n \in Nat : n = now
    BY DEF BackupInv, BackupsTyped, ClocksTyped
  <2>2. HasTop(n) => HasTop(n)'
    BY <1>3
  <2> QED
    BY <1>1, <2>1, <2>2 DEF HasTop
<1>7. ASSUME NEW a \in Actors PROVE PointOK(at[a])'
  <2>1. PICK q : q = at[a]
    OBVIOUS
  <2>2. PointOK(q)
    BY <2>1 DEF PointInv
  <2>3. CopyOK(q) => CopyOK(q)'
    BY <1>1, <1>2 DEF CopyOK, Owned
  <2>4. VolumeOK(q) => VolumeOK(q)'
    BY <1>1, <1>6 DEF VolumeOK
  <2>5. PointOK(q)'
    BY <1>2, <2>2, <2>3, <2>4 DEF PointOK
  <2> QED
    BY <1>1, <2>1, <2>5 DEF PointOK, VolumeOK, CopyOK
<1> QED
  BY <1>5, <1>7 DEF PointInv

LEMMA TimePoint ==
  ASSUME BackupInv, PointInv, ClockTicks
  PROVE  PointInv'
<1>1. UNCHANGED <<volume, bucket, status, row, at>> /\ now' = now + 1 /\ now \in Nat
  BY TimeKeeps DEF BackupInv, BackupsTyped, ClocksTyped
<1>2. ASSUME NEW t \in Nat, Backed(t) PROVE Backed(t)'
  BY <1>1, <1>2 DEF Backed, HasTop, Names
<1>3. PICK l \in Nat, s \in Nat : l = row["volume"].last /\ s = status["volume"].at
  BY DEF BackupInv, BackupsTyped, ClocksTyped, Clock, Outcome, Dests
<1>4. Backed(l)' /\ Backed(s)'
  BY <1>2, <1>3 DEF PointInv, Reported
<1>5. Backed(row["volume"].last)' /\ Backed(status["volume"].at)'
  BY <1>1, <1>3, <1>4 DEF Backed, HasTop
<1>6. Reported'
  BY <1>1, <1>5 DEF PointInv, Reported, Stocked, WholeOffsite, Owned, Names
<1>7. ASSUME NEW a \in Actors PROVE PointOK(at[a])'
  <2>1. PICK q : q = at[a]
    OBVIOUS
  <2>2. q.pc \in {"idle"} \cup Slow /\ PointOK(q)
    BY <2>1 DEF PointInv, ClockTicks
  <2>3. q.pc \notin {"prune", "done", "persist"}
    BY <2>2 DEF Slow
  <2>4. PointOK(q)'
    BY <1>1, <2>2, <2>3 DEF PointOK, VolumeOK, CopyOK, Stocked, WholeOffsite, Owned, Names
  <2> QED
    BY <1>1, <2>1, <2>4 DEF PointOK, VolumeOK, CopyOK
<1> QED
  BY <1>6, <1>7 DEF PointInv

LEMMA PointSteps ==
  ASSUME BackupInv, PointInv, BackupsNext
  PROVE  PointInv'
<1>1. ASSUME NEW p \in Tickers, LoadSchedulerState(p) \/ SettleInterruptedAttempts(p)
                                \/ ClearSchedulerAttempt(p) \/ NotDue(p) \/ MarkSchedulerAttempt(p)
      PROVE  \E a \in Actors : PointStep(a)
  BY <1>1, LoadPoint, TickPoint DEF Actors
<1>2. ASSUME NEW o \in Operators,
             RunScheduled(o) \/ Manual(o) \/ StartRotation(o) \/ RotateKey(o) \/ RotationEnds(o)
      PROVE  \E a \in Actors : PointStep(a)
  <2>1. o \in Actors
    BY DEF Actors
  <2>2. CASE RotationEnds(o)
    BY <2>1, <2>2, EndsPoint DEF RotationEnds, clocks
  <2> QED
    BY <1>2, <2>1, <2>2, StartPoint, RotatePoint
<1>3. ASSUME NEW a \in Actors,
             \/ CreateVerifiedDump(a) \/ Promote(a) \/ Prune(a) \/ RunVolumeDone(a)
             \/ Compare(a) \/ FreshDump(a) \/ VerifyMirroredCopy(a) \/ RepairRemoves(a)
      PROVE  \E b \in Actors : PointStep(b)
  BY <1>3, DumpPoint, PromotePoint, PrunePoint, DonePoint, ComparePoint, FreshPoint, VerifyPoint,
     RepairPoint
<1>4. ASSUME NEW a \in Actors,
             \/ UploadS3(a) \/ VerifyS3Object(a) \/ PruneS3(a) \/ RecordS3Result(a)
             \/ RehearseNewest(a) \/ AcquireWork(a) \/ PersistSchedulerResult(a) \/ PersistFails(a)
      PROVE  \E b \in Actors : PointStep(b)
  BY <1>4, UploadPoint, CheckPoint, PruneS3Point, RecordPoint, RehearsePoint, AcquirePoint, PersistPoint
<1>5. ASSUME NEW a \in Actors, ProcessDies(a)
      PROVE  \E b \in Actors : PointStep(b)
  BY <1>5, EndsPoint DEF ProcessDies
<1>6. Rot \/ ClockTicks \/ \E a \in Actors : PointStep(a)
  BY <1>1, <1>2, <1>3, <1>4, <1>5 DEF BackupsNext
<1> QED
  BY <1>6, PointsKept, RotPoint, TimePoint

LEMMA PointStart == BackupsInit => PointInv
<1> SUFFICES ASSUME BackupsInit PROVE PointInv
  OBVIOUS
<1>1. row["volume"].last = 0 /\ status["volume"].at = 0 /\ status["s3"].is = "none" /\ now = 1
  BY DEF BackupsInit, Dests, Never
<1>2. Reported
  BY <1>1 DEF Reported, Backed, Never
<1>3. \A a \in Actors : at[a].pc = "idle"
  BY IdleTask DEF BackupsInit
<1>4. \A a \in Actors : PointOK(at[a])
  BY <1>3 DEF PointOK, VolumeOK, CopyOK, Mirroring
<1> QED
  BY <1>2, <1>4 DEF PointInv

LEMMA PointsHold == BackupsSpec => []PointInv
<1>1. BackupInv /\ PointInv /\ UNCHANGED backupVars => PointInv'
  BY DEF backupVars, PointInv, Reported, Backed, PointOK, VolumeOK, CopyOK, HasTop, Stocked,
         WholeOffsite, Owned, Names
<1>2. BackupInv /\ PointInv /\ [BackupsNext]_backupVars => PointInv'
  BY <1>1, PointSteps
<1> QED
  BY <1>2, PointStart, BackupsHold, PTL DEF BackupsSpec

(* For every number of processes, operators and archives, whatever fails   *)
(* and whoever dies: the volume holds an archive written whole no earlier  *)
(* than the last volume run that is reported as good, and while the mirror *)
(* is, there is one on the volume or a whole one in the bucket (backup.go, *)
(* runVolume, prune, runS3Mirror, pruneS3; rotate.go).                     *)
THEOREM RecoveryPointHolds == BackupsSpec => []RecoveryPointKept
<1>1. BackupInv /\ PointInv => RecoveryPointKept
  <2> SUFFICES ASSUME BackupInv, PointInv PROVE RecoveryPointKept
    OBVIOUS
  <2>1. ASSUME NEW t, t # Never, Backed(t)
        PROVE  \E i \in Names(volume) : Whole(i) /\ volume[i].made >= t
    BY <2>1 DEF Backed, HasTop, Whole, BackupInv, FileInv, AllWhole, Names
  <2>2. Backed(row["volume"].last) /\ Backed(status["volume"].at)
    BY DEF PointInv, Reported
  <2> QED
    BY <2>1, <2>2 DEF RecoveryPointKept, PointInv, Reported, Stocked
<1> QED
  BY <1>1, BackupsHold, PointsHold, PTL

\* A step keeps the bucket's rules.
LEMMA OffsiteOverStep ==
  ASSUME BackupInv, [BackupsNext]_backupVars
  PROVE  OffsiteStep
<1>1. CASE UNCHANGED stored
  BY <1>1, FilesRest DEF FilesKept, BackupInv
<1>2. CASE BackupsNext
  <2>1. CASE Rot
    BY <2>1, RotKeeps DEF FilesKept
  <2>2. CASE ClockTicks
    BY <1>1, <2>2 DEF ClockTicks
  <2>3. CASE \E a \in Actors : Step(a)
    BY <2>3, StepKeeps DEF FilesKept
  <2> QED
    BY <1>2, <2>1, <2>2, <2>3, StepsAre DEF Ambient
<1> QED
  BY <1>1, <1>2 DEF backupVars, stored

(* For every number of processes and archives, whatever fails and whoever  *)
(* dies, also when a repair is set off by a copy that could not be read:   *)
(* nobody touches an object of the bucket that is not this installation's, *)
(* and an own one leaves it only while the dump it is replaced from is on  *)
(* the volume, written whole, or when it is old and a newer own object is  *)
(* beside it (backup.go, repairS3Mirror, pruneS3, s3ObjectOwned).          *)
THEOREM OffsiteHolds == BackupsSpec => OffsiteKept
<1>1. BackupInv /\ [BackupsNext]_backupVars => OffsiteStep
  BY OffsiteOverStep
<1> QED
  BY <1>1, BackupsHold, PTL DEF BackupsSpec, OffsiteKept, OffsiteStep

(* From the start of a heavy scheduled run of a destination to the start   *)
(* of the next is at least a backoff, less the deadlines of the runs its   *)
(* tick had before it - unless it succeeded or an operator's run answered  *)
(* for it - although the process may die anywhere in between, its memory   *)
(* with it, and another one take over (scheduler.go, markSchedulerAttempt; *)
(* backup.go, tick).                                                       *)
THEOREM AttemptsHold == BackupsSpec => AttemptsSpaced
<1> DEFINE Apart == \A p \in Tickers : LET d == at[p].dest IN
      at[p].pc = "acquire" /\ at'[p].pc = FirstStep[d] /\ since[d] # Never
        => now + Before[d] * RunLimit >= since[d] + Backoff
<1>1. ASSUME BackupInv PROVE Apart
  <2>1. SUFFICES ASSUME NEW p \in Tickers, at[p].pc = "acquire", since[at[p].dest] # Never
                 PROVE  now + Lag(at[p].dest) >= since[at[p].dest] + Backoff
    BY DEF Lag
  <2>2. PICK d \in Dests, t \in Nat : d = at[p].dest /\ t = at[p].t
    BY <1>1 DEF BackupInv, BackupsTyped, ActorsTyped, Actors, Task
  <2>3. PICK n \in Nat, x \in Nat, l \in Nat : n = now /\ x = since[d] /\ l = Lag(d)
    BY <1>1, Lags DEF BackupInv, BackupsTyped, ClocksTyped
  <2>4. t + l >= x + Backoff
    BY <1>1, <2>1, <2>2, <2>3 DEF BackupInv, ClockInv, TickOK, Spaced
  <2>5. t <= n
    BY <1>1, <2>2, <2>3 DEF BackupInv, ClockInv, Actors
  <2>6. n + l >= x + Backoff
    BY <2>4, <2>5, Numbers
  <2> QED
    BY <2>2, <2>3, <2>6
<1> QED
  BY <1>1, BackupsHold, PTL DEF BackupsSpec, AttemptsSpaced
=============================================================================
