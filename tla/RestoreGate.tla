---------------------------- MODULE RestoreGate ----------------------------
(***************************************************************************)
(* Replacing the database under a running service.                         *)
(*                                                                         *)
(* Every serving process holds a shared, session-scoped advisory lock (the *)
(* application lease); a restore needs it exclusively.  Inside a process   *)
(* the maintenance flag, the activity lock and the registry of background  *)
(* tasks drain what is running before the restore may ask for the lease.   *)
(* An offline restore is a process of its own.  Sessions are lost,         *)
(* processes die, statements fail and waiting times out.                   *)
(***************************************************************************)
EXTENDS Naturals, FiniteSets

CONSTANTS Instances,   \* serving processes (containers that restart)
          Slots,       \* goroutines of one process: requests and tasks
          Cli,         \* the process of an offline restore
          None,        \* no owner
          MaxLosses,   \* bound: lost lease sessions
          MaxRestores, \* bound: committed restores
          MaxStops     \* bound: crashes and shutdowns of processes

ASSUME NamesDistinct == Cli \notin Instances /\ None \notin Instances \cup {Cli}
ASSUME NoneIsNoSlot == None \notin Slots
ASSUME BoundsNat == MaxLosses \in Nat /\ MaxRestores \in Nat /\ MaxStops \in Nat

VARIABLES
  shared,      \* sessions that hold the shared lease
  exclusive,   \* the session that holds it exclusively, or None
  run,         \* per instance: down, booting, serving, stopping, closed
  maintenance, leaseLost, draining,   \* per instance: the atomic flags
  readers, writer,                    \* per instance: the activity lock
  pc,          \* per instance and slot: where the goroutine is
  awaited,     \* per instance: registered tasks a restore still waits for
  cli,         \* where the offline restore is
  db,          \* what is in the database: [schema, mail]
  spent        \* used bounds: [losses, restores, stops, overrun]

vars == <<shared, exclusive, run, maintenance, leaseLost, draining, readers,
          writer, pc, awaited, cli, db, spent>>
flags == <<maintenance, leaseLost, draining>>
lease == <<shared, exclusive>>
locks == <<readers, writer>>

(* A goroutine of a request passes the gate (gated, admitted) and works;   *)
(* one of a task passes the check (checked) and is registered (task).      *)
Gate      == {"idle", "gated", "admitted", "working", "checked", "task"}
(* The request that restores: drain, lock, upgrade the lease, load,        *)
(* reconcile, and finish in the order release - reopen - unlock.           *)
Swap      == {"locked", "exclusive", "loaded", "migrated", "held", "finishing"}
Reopening == {"clear", "store", "recheck"}
Restoring == {"drain", "lock"} \cup Swap \cup Reopening
Pcs == Gate \cup Restoring
Runs == {"down", "booting", "serving", "stopping", "closed"}
CliPcs == {"idle", "leased", "loaded", "migrated", "held"}
Schemas == {"current", "old"}
(* Queued mail: the live queue's own; restored from a backup; held; released*)
(* by an operator; sent although it was restored and nobody released it.   *)
Mails == {"own", "restored", "held", "released", "resent"}

TypeOK ==
  /\ shared \in SUBSET Instances
  /\ exclusive \in Instances \cup {Cli, None}
  /\ run \in [Instances -> Runs]
  /\ maintenance \in [Instances -> BOOLEAN]
  /\ leaseLost \in [Instances -> BOOLEAN]
  /\ draining \in [Instances -> BOOLEAN]
  /\ readers \in [Instances -> SUBSET Slots]
  /\ writer \in [Instances -> Slots \cup {None}]
  /\ pc \in [Instances -> [Slots -> Pcs]]
  /\ awaited \in [Instances -> SUBSET Slots]
  /\ cli \in CliPcs
  /\ db \in [schema : Schemas, mail : Mails]
  /\ spent \in [losses : Nat, restores : Nat, stops : Nat, overrun : BOOLEAN]

Init ==
  /\ shared = {} /\ exclusive = None
  /\ run = [i \in Instances |-> "down"]
  /\ maintenance = [i \in Instances |-> FALSE]
  /\ leaseLost = [i \in Instances |-> FALSE]
  /\ draining = [i \in Instances |-> FALSE]
  /\ readers = [i \in Instances |-> {}]
  /\ writer = [i \in Instances |-> None]
  /\ pc = [i \in Instances |-> [s \in Slots |-> "idle"]]
  /\ awaited = [i \in Instances |-> {}]
  /\ cli = "idle"
  /\ db = [schema |-> "current", mail |-> "own"]
  /\ spent = [losses |-> 0, restores |-> 0, stops |-> 0, overrun |-> FALSE]

Goes(i, s, from, to) == pc[i][s] = from /\ pc' = [pc EXCEPT ![i][s] = to]

-----------------------------------------------------------------------------
(*                  The lease: db/maintenance.go                           *)

(* (FlagActive: the flag alone, as before lease losses were kept apart.)   *)
FlagActive(i) == maintenance[i]

MaintenanceActive(i) == maintenance[i] \/ leaseLost[i]

SharedFree(p) == exclusive \in {None, p}
ExclusiveFree(p) == exclusive = None /\ shared \subseteq {p}

(* A booting process registers before it migrates, or exits.  The program  *)
(* starts with fresh flags.                                                *)
AcquireApplicationLease(i) ==
  /\ run[i] = "down" /\ SharedFree(i)
  /\ run' = [run EXCEPT ![i] = "booting"]
  /\ shared' = shared \cup {i}
  /\ UNCHANGED <<exclusive, flags, locks, pc, awaited, cli, db, spent>>

(* Ordinary boot: migrations run, and nothing else of a reconciliation     *)
(* that concerns queued mail.                                              *)
BootMigrate(i) ==
  /\ run[i] = "booting"
  /\ run' = [run EXCEPT ![i] = "serving"]
  /\ db' = [db EXCEPT !.schema = "current"]
  /\ UNCHANGED <<lease, flags, locks, pc, awaited, cli, spent>>

(* PostgreSQL drops a session's advisory locks with the session.           *)
LoseSession(i) ==
  /\ spent.losses < MaxLosses
  /\ i \in shared \/ exclusive = i
  /\ shared' = shared \ {i}
  /\ exclusive' = IF exclusive = i THEN None ELSE exclusive
  /\ spent' = [spent EXCEPT !.losses = @ + 1]
  /\ UNCHANGED <<run, flags, locks, pc, awaited, cli, db>>

(* The lease mutex is held from the upgrade to its release, so heartbeats  *)
(* pause for that long.                                                    *)
Upgraded(i) == \E s \in Slots :
  pc[i][s] \in {"exclusive", "loaded", "migrated", "held", "finishing"}

(* The heartbeat finds the session gone: fail closed, then shut down.      *)
Monitor(i) ==
  /\ run[i] = "serving" /\ i \notin shared /\ ~Upgraded(i)
  /\ leaseLost' = [leaseLost EXCEPT ![i] = TRUE]
  /\ maintenance' = [maintenance EXCEPT ![i] = TRUE]
  /\ run' = [run EXCEPT ![i] = "stopping"]
  /\ draining' = [draining EXCEPT ![i] = TRUE]
  /\ UNCHANGED <<lease, locks, pc, awaited, cli, db, spent>>

-----------------------------------------------------------------------------
(*                 Requests: server.go, maintenanceGate                    *)

RequestArrives(i, s) ==
  /\ run[i] = "serving" /\ ~MaintenanceActive(i)
  /\ Goes(i, s, "idle", "gated")
  /\ UNCHANGED <<lease, run, flags, locks, awaited, cli, db, spent>>

AdmitReader(i, s) ==
  /\ writer[i] = None
  /\ Goes(i, s, "gated", "admitted")
  /\ readers' = [readers EXCEPT ![i] = @ \cup {s}]
  /\ UNCHANGED <<lease, run, flags, writer, awaited, cli, db, spent>>

(* The second look at the flags, under the activity lock.                  *)
MaintenanceGate(i, s) ==
  /\ pc[i][s] = "admitted"
  /\ pc' = [pc EXCEPT ![i][s] = IF MaintenanceActive(i) THEN "idle" ELSE "working"]
  /\ readers' = IF MaintenanceActive(i)
                THEN [readers EXCEPT ![i] = @ \ {s}] ELSE readers
  /\ UNCHANGED <<lease, run, flags, writer, awaited, cli, db, spent>>

(* A request ends; it may have been the one that releases held mail.       *)
RequestEnds(i, s) ==
  /\ Goes(i, s, "working", "idle")
  /\ readers' = [readers EXCEPT ![i] = @ \ {s}]
  /\ db' \in {db, [db EXCEPT !.mail = IF @ = "held" THEN "released" ELSE @]}
  /\ UNCHANGED <<lease, run, flags, writer, awaited, cli, spent>>

-----------------------------------------------------------------------------
(*              Background tasks: server/backup_resources.go               *)

Admits(i) == ~MaintenanceActive(i) /\ ~draining[i]

TaskStarts(i, s) ==
  /\ run[i] \in {"serving", "stopping"} /\ Admits(i)
  /\ Goes(i, s, "idle", "checked")
  /\ UNCHANGED <<lease, run, flags, locks, awaited, cli, db, spent>>

(* Registration looks again, under the registry's mutex.                   *)
(* (RegisterUnchecked: without looking again.)                             *)
RegisterUnchecked(i, s) ==
  /\ Goes(i, s, "checked", "task")
  /\ UNCHANGED <<lease, run, flags, locks, awaited, cli, db, spent>>

BackgroundTask(i, s) ==
  /\ pc[i][s] = "checked"
  /\ pc' = [pc EXCEPT ![i][s] = IF Admits(i) THEN "task" ELSE "idle"]
  /\ UNCHANGED <<lease, run, flags, locks, awaited, cli, db, spent>>

(* The maintenance tick delivers queued mail whose turn has come.          *)
ProcessMailOutbox(i, s) ==
  /\ pc[i][s] = "task" /\ db.mail = "restored"
  /\ db' = [db EXCEPT !.mail = "resent"]
  /\ UNCHANGED <<lease, run, flags, locks, pc, awaited, cli, spent>>

TaskEnds(i, s) ==
  /\ Goes(i, s, "task", "idle")
  /\ awaited' = [awaited EXCEPT ![i] = @ \ {s}]
  /\ UNCHANGED <<lease, run, flags, locks, cli, db, spent>>

-----------------------------------------------------------------------------
(*              A restore in the process: beginRestore                     *)

Registered(i) == {s \in Slots : pc[i][s] = "task"}

(* One restore wins the flag; it gives up its own admission and asks every *)
(* registered task to stop.                                                *)
BeginRestore(i, s) ==
  /\ ~leaseLost[i] /\ ~maintenance[i]
  /\ Goes(i, s, "working", "drain")
  /\ maintenance' = [maintenance EXCEPT ![i] = TRUE]
  /\ readers' = [readers EXCEPT ![i] = @ \ {s}]
  /\ awaited' = [awaited EXCEPT ![i] = Registered(i)]
  /\ UNCHANGED <<lease, run, leaseLost, draining, writer, cli, db, spent>>

CancelBackground(i, s) ==
  /\ awaited[i] = {}
  /\ Goes(i, s, "drain", "lock")
  /\ UNCHANGED <<lease, run, flags, locks, awaited, cli, db, spent>>

TryLockActivity(i, s) ==
  /\ readers[i] = {} /\ writer[i] = None
  /\ Goes(i, s, "lock", "locked")
  /\ writer' = [writer EXCEPT ![i] = s]
  /\ UNCHANGED <<lease, run, flags, readers, awaited, cli, db, spent>>

(* The drain's deadline passes while tasks or requests still run.          *)
DrainTimesOut(i, s) ==
  /\ \/ pc[i][s] = "drain" /\ awaited[i] # {}
     \/ pc[i][s] = "lock"  /\ (readers[i] # {} \/ writer[i] # None)
  /\ pc' = [pc EXCEPT ![i][s] = "clear"]
  /\ awaited' = [awaited EXCEPT ![i] = {}]
  /\ UNCHANGED <<lease, run, flags, locks, cli, db, spent>>

(* The upgrade: refused when the lease was lost (the flag stays), or while *)
(* another session holds the lease (the flag is cleared again).            *)
Exclusive(i, s) ==
  /\ pc[i][s] = "locked"
  /\ IF ~leaseLost[i] /\ i \in shared /\ ExclusiveFree(i)
     THEN /\ exclusive' = i
          /\ pc' = [pc EXCEPT ![i][s] = "exclusive"]
          /\ UNCHANGED writer
     ELSE /\ pc' = [pc EXCEPT ![i][s] = IF leaseLost[i] THEN "idle" ELSE "clear"]
          /\ writer' = [writer EXCEPT ![i] = None]
          /\ UNCHANGED exclusive
  /\ UNCHANGED <<shared, run, flags, readers, awaited, cli, db, spent>>

Loaded == {[schema |-> v, mail |-> "restored"] : v \in Schemas}

(* pg_restore commits in one transaction, or leaves the database alone;    *)
(* an error may hide a commit.                                             *)
RestoreRaw(i, s) ==
  /\ pc[i][s] = "exclusive"
  /\ \/ /\ spent.restores < MaxRestores
        /\ db' \in Loaded
        /\ \E to \in {"loaded", "finishing"} : pc' = [pc EXCEPT ![i][s] = to]
        /\ spent' = [spent EXCEPT !.restores = @ + 1]
     \/ /\ pc' = [pc EXCEPT ![i][s] = "finishing"]
        /\ UNCHANGED <<db, spent>>
  /\ UNCHANGED <<lease, run, flags, locks, awaited, cli>>

Migrated == [db EXCEPT !.schema = "current"]
HeldOutbox == [db EXCEPT !.mail = IF @ = "restored" THEN "held" ELSE @]

(* ReconcileAfterRestore: migrate, then hold the queue; each may fail, and *)
(* a failure leaves maintenance on.                                        *)
ReconcileAfterRestore(i, s) ==
  /\ \/ Goes(i, s, "loaded", "migrated") /\ db' = Migrated
     \/ Goes(i, s, "migrated", "held") /\ db' = HeldOutbox
     \/ /\ pc[i][s] \in {"loaded", "migrated", "held"}
        /\ pc' = [pc EXCEPT ![i][s] = "finishing"]
        /\ UNCHANGED db
  /\ UNCHANGED <<lease, run, flags, locks, awaited, cli, spent>>

(* finish(true): the lease first; a failed release (a dead session) keeps  *)
(* maintenance on.                                                         *)
FinishRestored(i, s) ==
  /\ pc[i][s] = "held"
  /\ pc' = [pc EXCEPT ![i][s] = IF exclusive = i THEN "clear" ELSE "idle"]
  /\ exclusive' = IF exclusive = i THEN None ELSE exclusive
  /\ writer' = IF exclusive = i THEN writer ELSE [writer EXCEPT ![i] = None]
  /\ UNCHANGED <<shared, run, flags, readers, awaited, cli, db, spent>>

(* finish(false): nothing is reopened.                                     *)
FinishFailed(i, s) ==
  /\ Goes(i, s, "finishing", "idle")
  /\ exclusive' = IF exclusive = i THEN None ELSE exclusive
  /\ writer' = [writer EXCEPT ![i] = None]
  /\ UNCHANGED <<shared, run, flags, readers, awaited, cli, db, spent>>

Unlocked(i, s) == IF writer[i] = s THEN [writer EXCEPT ![i] = None] ELSE writer

(* clearRestoreMaintenance: load, store, load again; a lease loss wins.    *)
ClearLooks(i, s) ==
  /\ pc[i][s] = "clear"
  /\ pc' = [pc EXCEPT ![i][s] = IF leaseLost[i] THEN "idle" ELSE "store"]
  /\ writer' = IF leaseLost[i] THEN Unlocked(i, s) ELSE writer
  /\ UNCHANGED <<lease, run, flags, readers, awaited, cli, db, spent>>

ClearStores(i, s) ==
  /\ Goes(i, s, "store", "recheck")
  /\ maintenance' = [maintenance EXCEPT ![i] = FALSE]
  /\ UNCHANGED <<lease, run, leaseLost, draining, locks, awaited, cli, db, spent>>

ClearRechecks(i, s) ==
  /\ Goes(i, s, "recheck", "idle")
  /\ maintenance' = [maintenance EXCEPT ![i] = @ \/ leaseLost[i]]
  /\ writer' = Unlocked(i, s)
  /\ UNCHANGED <<lease, run, leaseLost, draining, readers, awaited, cli, db, spent>>

-----------------------------------------------------------------------------
(*            Stopping: main.go, run and drainAndStop; a crash             *)

Busy(i) == {s \in Slots : pc[i][s] # "idle"}
Serves(i) == run[i] \in {"serving", "stopping"}

(* SIGTERM: no task is admitted any more and HTTP accepts nothing new.     *)
BeginShutdown(i) ==
  /\ run[i] = "serving" /\ spent.stops < MaxStops
  /\ run' = [run EXCEPT ![i] = "stopping"]
  /\ draining' = [draining EXCEPT ![i] = TRUE]
  /\ spent' = [spent EXCEPT !.stops = @ + 1]
  /\ UNCHANGED <<lease, maintenance, leaseLost, locks, pc, awaited, cli, db>>

(* (CloseFirst: without waiting for what holds the lease.)                 *)
CloseFirst(i) ==
  /\ run[i] = "stopping"
  /\ run' = [run EXCEPT ![i] = "closed"]
  /\ shared' = shared \ {i}
  /\ exclusive' = IF exclusive = i THEN None ELSE exclusive
  /\ UNCHANGED <<flags, locks, pc, awaited, cli, db, spent>>

(* The lease is given up when everything has ended, or at the deadline.    *)
(* Closing waits for the lease mutex, hence for a restore that owns it.    *)
DrainAndStop(i) ==
  /\ run[i] = "stopping" /\ ~Upgraded(i)
  /\ run' = [run EXCEPT ![i] = "closed"]
  /\ shared' = shared \ {i}
  /\ spent' = [spent EXCEPT !.overrun = @ \/ Busy(i) # {}]
  /\ UNCHANGED <<exclusive, flags, locks, pc, awaited, cli, db>>

(* What a process leaves behind: nothing.                                  *)
Gone(i) ==
  /\ run' = [run EXCEPT ![i] = "down"]
  /\ maintenance' = [maintenance EXCEPT ![i] = FALSE]
  /\ leaseLost' = [leaseLost EXCEPT ![i] = FALSE]
  /\ draining' = [draining EXCEPT ![i] = FALSE]
  /\ readers' = [readers EXCEPT ![i] = {}]
  /\ writer' = [writer EXCEPT ![i] = None]
  /\ pc' = [pc EXCEPT ![i] = [s \in Slots |-> "idle"]]
  /\ awaited' = [awaited EXCEPT ![i] = {}]
  /\ shared' = shared \ {i}
  /\ exclusive' = IF exclusive = i THEN None ELSE exclusive

Exit(i) == run[i] = "closed" /\ Gone(i) /\ UNCHANGED <<cli, db, spent>>

Crash(i) ==
  /\ run[i] # "down" /\ spent.stops < MaxStops
  /\ Gone(i)
  /\ spent' = [spent EXCEPT !.stops = @ + 1]
  /\ UNCHANGED <<cli, db>>

-----------------------------------------------------------------------------
(*            The offline restore: main.go, runRestore                     *)

AcquireOfflineRestoreLease ==
  /\ cli = "idle" /\ ExclusiveFree(Cli)
  /\ cli' = "leased" /\ exclusive' = Cli
  /\ UNCHANGED <<shared, run, flags, locks, pc, awaited, db, spent>>

CliRestore ==
  /\ cli = "leased" /\ spent.restores < MaxRestores
  /\ cli' = "loaded" /\ db' \in Loaded
  /\ spent' = [spent EXCEPT !.restores = @ + 1]
  /\ UNCHANGED <<lease, run, flags, locks, pc, awaited>>

CliReconcile ==
  /\ \/ cli = "loaded"   /\ cli' = "migrated" /\ db' = Migrated
     \/ cli = "migrated" /\ cli' = "held"     /\ db' = HeldOutbox
  /\ UNCHANGED <<lease, run, flags, locks, pc, awaited, spent>>

(* The command ends: done, aborted, failed in between, or killed; its      *)
(* session goes with it.                                                   *)
CliEnds ==
  /\ cli # "idle"
  /\ cli' = "idle"
  /\ exclusive' = IF exclusive = Cli THEN None ELSE exclusive
  /\ UNCHANGED <<shared, run, flags, locks, pc, awaited, db, spent>>

-----------------------------------------------------------------------------
RestoreStep(i, s) ==
  \/ CancelBackground(i, s) \/ TryLockActivity(i, s) \/ DrainTimesOut(i, s)
  \/ Exclusive(i, s) \/ RestoreRaw(i, s) \/ ReconcileAfterRestore(i, s)
  \/ FinishRestored(i, s) \/ FinishFailed(i, s)
  \/ ClearLooks(i, s) \/ ClearStores(i, s) \/ ClearRechecks(i, s)

JobStep(i, s) ==
  \/ AdmitReader(i, s) \/ MaintenanceGate(i, s) \/ RequestEnds(i, s)
  \/ BackgroundTask(i, s) \/ TaskEnds(i, s)

Next ==
  \/ \E i \in Instances :
       \/ AcquireApplicationLease(i) \/ BootMigrate(i) \/ Monitor(i)
       \/ BeginShutdown(i) \/ DrainAndStop(i) \/ Exit(i) \/ Crash(i)
       \/ \E s \in Slots :
            \/ RequestArrives(i, s) \/ TaskStarts(i, s)
            \/ ProcessMailOutbox(i, s) \/ BeginRestore(i, s)
            \/ JobStep(i, s) \/ RestoreStep(i, s)
  \/ \E p \in Instances \cup {Cli} : LoseSession(p)
  \/ AcquireOfflineRestoreLease \/ CliRestore \/ CliReconcile \/ CliEnds

Spec == Init /\ [][Next]_vars

-----------------------------------------------------------------------------
Working(i) == {s \in Slots : pc[i][s] \in {"working", "task"}}
Swapping(i) == {s \in Slots : pc[i][s] \in Swap}
(* No session was lost and no drain overran: what the lease can fence.     *)
Fenced == spent.losses = 0 /\ ~spent.overrun

(* While a goroutine replaces the database, no request past the gate and   *)
(* no registered task of its process works on it - under every loss, crash *)
(* and shutdown.  The offline queue's requests and the tick's tasks pass   *)
(* server.go, maintenanceGate and backup_resources.go, BackgroundTask.     *)
DrainedWhileRestoring ==
  \A i \in Instances : Swapping(i) # {} => Working(i) = {} /\ Cardinality(Swapping(i)) = 1

(* As long as no session was lost and no drain overran, whoever replaces   *)
(* the database is alone: no other instance works, boots or restores       *)
(* (db/maintenance.go, "stop all app instances first").                    *)
RestoreExcludesOthers ==
  Fenced =>
    /\ \A i, j \in Instances : i # j /\ exclusive = i => run[j] = "down" \/ run[j] = "closed"
    /\ exclusive = Cli => \A i \in Instances : Busy(i) = {}
    /\ \A i \in Instances, s \in Slots :
         pc[i][s] \in {"exclusive", "loaded", "migrated", "held"} => exclusive = i

(* Nobody works on a database whose schema is older than the program: the  *)
(* gate reopens only after the migrations of the reconciliation ran, and a *)
(* restart migrates before it serves (main.go, run).                       *)
ServesCurrentSchema ==
  Fenced => \A i \in Instances : Working(i) # {} => db.schema = "current"

(* A lost lease is final: no request and no task of that process starts to *)
(* work any more, even when the loss races a finishing restore that clears *)
(* the maintenance flag (server.go, clearRestoreMaintenance).              *)
FailClosedIsFinal ==
  [][\A i \in Instances, s \in Slots :
       leaseLost[i] /\ pc[i][s] \notin {"working", "task"}
         => pc'[i][s] \notin {"working", "task"}]_vars

(* store/restore.go holds every restored mail for an operator's release,   *)
(* because it may have been delivered after the backup was taken; an       *)
(* ordinary boot holds nothing.                                            *)
RestoredMailHeld == Fenced => db.mail # "resent"
=============================================================================
