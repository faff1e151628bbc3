------------------------------- MODULE Backups -------------------------------
(***************************************************************************)
(* Recovery points: the scheduler that dumps to the volume, mirrors to the *)
(* bucket and rehearses a restore, beside the commands of an operator.     *)
(*                                                                         *)
(* Every process ticks; a PostgreSQL lease elects one, a second one admits *)
(* one memory-heavy operation at a time.  Processes die between any two    *)
(* steps, statements and uploads fail, stored bytes rot.                   *)
(***************************************************************************)
EXTENDS Naturals, FiniteSets, FiniteSetsExt

CONSTANTS Tickers,   \* scheduler loops, one per process
          Operators, \* runs started from the command line or the panel
          Nothing,
          Archives,  \* names of dumps, in the order of the times they encode
          Keep,      \* how many dumps retention keeps
          Retention, \* the age below which nothing is pruned
          Backoff,   \* wait after a failed attempt
          RunLimit,  \* deadline of a scheduled run, from its marker
          Period,    \* distance of two runs of the schedule
          MaxTime,   \* bound: clock
          MaxRuns,   \* bound: runs an operator starts
          MaxFaults  \* bound: crashes, failures, rotten bytes

ASSUME ActorsDistinct == Tickers \cap Operators = {} /\ Nothing \notin Tickers \cup Operators
ASSUME NumbersNat == /\ Archives \subseteq Nat \ {0}
                     /\ {Keep, Retention, Backoff, RunLimit, Period} \subseteq Nat \ {0}
                     /\ {MaxTime, MaxRuns, MaxFaults} \subseteq Nat

(* Bytes as they were made, cut short or garbled when they were written,   *)
(* or spoilt by the storage since.                                         *)
Contents == {"intact", "cut", "rotten"}
(* An archive on the volume (at: when its file was written, made: when the *)
(* archive first was); an object of the bucket.                            *)
File == [key : {"old", "new"}, is : Contents, at : Nat, made : Nat]
Object == [owned : BOOLEAN, key : {"old", "new"}, is : Contents, at : Nat]

ASSUME NothingIsNoFile == Nothing \notin File \cup Object

VARIABLES
  volume,    \* Archives -> File or Nothing: the files of BACKUP_DIR
  bucket,    \* Archives -> Object or Nothing: the S3 objects
  status,    \* status.json: outcome and time per destination
  row,       \* backup_scheduler_state: [last, retry, attempt] per destination
  local,     \* per ticker and destination: the retry time in memory
  scheduler, \* who holds the scheduler's lease
  work,      \* who holds the lease for memory-heavy work
  at,        \* per actor: where it is and what it works on
  now,
  faults, runs, \* used bounds
  since      \* per destination: start of the scheduler's last heavy run that
             \* neither succeeded nor was answered for by an operator's run

backupVars == <<volume, bucket, status, row, local, scheduler, work, at, now, faults, runs, since>>
stored == <<volume, bucket>>
clocks == <<row, local, since>>
leases == <<scheduler, work>>

Dests == {"volume", "s3", "rehearsal"}
Actors == Tickers \cup Operators
Never == 0

(* holds: the bytes it has in memory; begun: when its run was marked.      *)
Idle == [pc |-> "idle", dest |-> "volume", name |-> 0, holds |-> "intact", ok |-> TRUE,
         t |-> 0, begun |-> 0, due |-> {}, marked |-> {}, job |-> "none"]

(* A volume that is empty or has one dump from before the key was changed; *)
(* its name in the bucket is free, mirrored, or taken by somebody else's   *)
(* object.                                                                 *)
BackupsInit ==
  /\ \E first \in {Nothing, [key |-> "old", is |-> "intact", at |-> 0, made |-> 0]} :
       volume = [i \in Archives |-> IF i = 1 THEN first ELSE Nothing]
  /\ \E first \in {Nothing} \cup [owned : BOOLEAN, key : {"old"}, is : {"intact"}, at : {0}] :
       bucket = [i \in Archives |-> IF i = 1 THEN first ELSE Nothing]
  /\ status = [d \in Dests |-> [is |-> "none", at |-> Never]]
  /\ row = [d \in Dests |-> [last |-> Never, retry |-> Never, attempt |-> Never]]
  /\ local = [p \in Tickers |-> [d \in Dests |-> Never]]
  /\ scheduler = Nothing /\ work = Nothing
  /\ at = [a \in Actors |-> Idle]
  /\ now = 1 /\ faults = 0 /\ runs = 0
  /\ since = [d \in Dests |-> Never]

Names(place) == {i \in Archives : place[i] # Nothing}
Newest(place) == Max(Names(place))
Unused == {i \in Archives : \A j \in Names(volume) \cup Names(bucket) : i > j}
          \ {at[a].name : a \in Actors}
Decrypts(f) == f.key = "new"
(* Authenticated encryption, then a listing of an archive that holds what  *)
(* a database of Treckrr holds.  (OpensOnly: without the listing.)         *)
OpensOnly(f) == f.is # "rotten"

ValidArchive(f) == f.is = "intact"
Restorable(f) == Decrypts(f) /\ ValidArchive(f)
Same(i) == volume[i].key = bucket[i].key /\ volume[i].is = bucket[i].is

Go(a, pc) == at' = [at EXCEPT ![a].pc = pc]
Fails(a, pc) == at' = [at EXCEPT ![a].pc = pc, ![a].ok = FALSE]
(* A failure of the environment: counted, so that TLC sees few of them.    *)
Fault == faults < MaxFaults /\ faults' = faults + 1
NoFault == UNCHANGED faults
SetStatus(d, is) == status' = [status EXCEPT ![d].is = is]

-----------------------------------------------------------------------------
(*                     A tick: backup.go, scheduler.go                     *)

CronDue(last, t) == last = Never \/ t \div Period > last \div Period

Fallback(d) == IF row[d].last # Never THEN row[d].last ELSE status[d].at

Retry(p, d) == IF row[d].retry # Never THEN row[d].retry ELSE local[p][d]

Interrupted == {d \in {"volume", "s3"} : row[d].attempt # Never}

(* One ticker wins the lease, reads status.json and the row, seeds success *)
(* clocks the row lacks from status.json, and knows what is due.  (The     *)
(* rehearsal reads its clocks when its turn comes.)                        *)
LoadSchedulerState(p) ==
  /\ at[p].pc = "idle" /\ scheduler = Nothing
  /\ scheduler' = p
  /\ at' = [at EXCEPT ![p] = [Idle EXCEPT !.pc = IF Interrupted = {} THEN "due" ELSE "settle", !.t = now,
       !.due = {d \in {"volume", "s3"} : CronDue(Fallback(d), now) /\ now > Retry(p, d)},
       !.marked = Interrupted]]
  /\ row' = [d \in Dests |-> IF d = "rehearsal" THEN row[d]
                             ELSE [row[d] EXCEPT !.last = Fallback(d)]]
  /\ NoFault
  /\ UNCHANGED <<stored, status, local, work, now, since, runs>>

(* An attempt marker that is still there belongs to a run that died: it    *)
(* counts as failed in status.json, then the marker is cleared; its retry  *)
(* clock stays.  Either write may fail, and the tick goes on.              *)
Settling(p) == IF "volume" \in at[p].marked THEN "volume" ELSE "s3"

SettleInterruptedAttempts(p) ==
  /\ at[p].pc = "settle"
  /\ \/ SetStatus(Settling(p), "failed") /\ NoFault
     \/ Fault /\ UNCHANGED status
  /\ Go(p, "clear")
  /\ UNCHANGED <<stored, clocks, leases, now, runs>>

ClearSchedulerAttempt(p) ==
  LET left == at[p].marked \ {Settling(p)} IN
  /\ at[p].pc = "clear"
  /\ \/ row' = [row EXCEPT ![Settling(p)].attempt = Never] /\ NoFault
     \/ Fault /\ UNCHANGED row
  /\ at' = [at EXCEPT ![p].pc = IF left = {} THEN "due" ELSE "settle", ![p].marked = left]
  /\ UNCHANGED <<stored, status, local, leases, now, since, runs>>

NextDest == [volume |-> "s3", s3 |-> "rehearsal"]
(* The tick goes on to its next destination, or ends.                      *)
Onward(p) ==
  IF at[p].dest = "rehearsal"
  THEN /\ at' = [at EXCEPT ![p] = Idle]
       /\ scheduler' = Nothing
  ELSE /\ at' = [at EXCEPT ![p].pc = "due", ![p].dest = NextDest[at[p].dest], ![p].ok = TRUE,
                           ![p].name = 0, ![p].holds = "intact", ![p].due = @ \ {at[p].dest}]
       /\ UNCHANGED scheduler

Due(p) ==
  \/ at[p].dest \in at[p].due
  \/ /\ at[p].dest = "rehearsal"
     /\ CronDue(Fallback("rehearsal"), at[p].t) /\ at[p].t >= Retry(p, "rehearsal")

(* What the row says once a run has been admitted.                         *)
(* (MarkedOnly: the marker without the retry clock.)                       *)
MarkedOnly(d, t) == [row EXCEPT ![d].attempt = t]

Marked(d, t) == [row EXCEPT ![d].attempt = t, ![d].retry = t + Backoff]

(* A rehearsal whose marker is still there is reported as failed.          *)
StatusWhenRead(p) ==
  IF at[p].dest = "rehearsal" /\ row["rehearsal"].attempt # Never
  THEN [status EXCEPT !["rehearsal"].is = "failed"] ELSE status

NotDue(p) ==
  /\ at[p].pc = "due" /\ ~Due(p)
  /\ status' = StatusWhenRead(p)
  /\ Onward(p)
  /\ NoFault
  /\ UNCHANGED <<stored, clocks, work, now, runs>>

(* The attempt is marked before the run; without a marker there is no run. *)
MarkSchedulerAttempt(p) ==
  LET d == at[p].dest
      held == [local EXCEPT ![p][d] = at[p].t + Backoff] IN
  /\ at[p].pc = "due" /\ Due(p)
  /\ status' = StatusWhenRead(p)
  /\ \/ /\ row' = Marked(d, at[p].t)
        /\ local' = IF d = "rehearsal" THEN held ELSE local
        /\ at' = [at EXCEPT ![p].pc = "acquire", ![p].begun = now]
        /\ NoFault /\ UNCHANGED scheduler
     \/ Fault /\ local' = held /\ Onward(p) /\ UNCHANGED row
  /\ UNCHANGED <<stored, work, now, since, runs>>

-----------------------------------------------------------------------------
(*             Work: resources.go, and how an operator starts it           *)

FirstStep == [volume |-> "dump", s3 |-> "compare", rehearsal |-> "rehearse"]

(* A refused run has failed; only the rehearsal writes that to the status. *)
AcquireWork(a) ==
  LET d == at[a].dest IN
  /\ at[a].pc = "acquire"
  /\ IF work = Nothing
     THEN /\ work' = a
          /\ Go(a, FirstStep[d])
          /\ since' = IF a \in Tickers
                      THEN [since EXCEPT ![d] = IF row[d].attempt = Never THEN Never ELSE now]
                      ELSE since
          /\ UNCHANGED status
     ELSE /\ Fails(a, "persist")
          /\ IF d = "rehearsal" THEN SetStatus(d, "failed") ELSE UNCHANGED status
          /\ UNCHANGED <<work, since>>
  /\ NoFault
  /\ UNCHANGED <<stored, row, local, scheduler, now, runs>>

Starts(o, pc, job, d) ==
  /\ at[o].pc = "idle" /\ runs < MaxRuns /\ runs' = runs + 1
  /\ at' = [at EXCEPT ![o] = [Idle EXCEPT !.pc = pc, !.job = job, !.dest = d, !.t = now]]

(* treckrr backup: both destinations, each refused like a scheduled run.   *)
RunScheduled(o) ==
  /\ Starts(o, "acquire", "cli", "volume")
  /\ NoFault
  /\ UNCHANGED <<stored, status, clocks, leases, now>>

(* The panel's buttons hold the work lease before the handler runs, and a  *)
(* refusal changes nothing.                                                *)
Manual(o) ==
  /\ work = Nothing /\ work' = o
  /\ \/ Starts(o, "dump", "panel", "volume")
     \/ Starts(o, "freshdump", "panel", "s3")
  /\ NoFault
  /\ UNCHANGED <<stored, status, clocks, scheduler, now>>

StartRotation(o) ==
  /\ work = Nothing /\ work' = o
  /\ Starts(o, "rotate", "rotate", "volume")
  /\ NoFault
  /\ UNCHANGED <<stored, status, clocks, scheduler, now>>

-----------------------------------------------------------------------------
(*                      The volume: runVolume, prune                       *)

Freed(x, a) == IF x = a THEN Nothing ELSE x
(* runVolume and runS3Mirror give the lease back before the result is      *)
(* persisted; a request of the panel keeps it until its response.          *)
Finishes(a) == work' = IF work = a /\ at[a].job # "panel" THEN Nothing ELSE work

(* What pg_dump and encryption, or re-encryption, made of intact data, if  *)
(* it passes the drill: the bytes decrypt to a plausible dump.             *)
Verified(is) ==
  /\ Restorable([key |-> "new", is |-> is])
  /\ IF is = "intact" THEN NoFault ELSE Fault

Dumps(a, pc) ==
  \E i \in Unused, is \in {"intact", "cut"} :
    /\ \A j \in Unused : i <= j
    /\ Verified(is)
    /\ at' = [at EXCEPT ![a].pc = pc, ![a].name = i, ![a].holds = is]

CreateVerifiedDump(a) ==
  /\ at[a].pc = "dump"
  /\ \/ Dumps(a, "promote") /\ UNCHANGED <<status, work>>
     \/ Fault /\ SetStatus("volume", "failed") /\ Fails(a, "persist") /\ Finishes(a)
  /\ UNCHANGED <<stored, clocks, scheduler, now, runs>>

(* The staging file becomes the archive by a rename.                       *)
Promote(a) ==
  /\ at[a].pc = "promote"
  /\ \/ /\ volume' = [volume EXCEPT ![at[a].name] =
                       [key |-> "new", is |-> at[a].holds, at |-> now, made |-> now]]
        /\ Go(a, "prune")
        /\ NoFault /\ UNCHANGED <<status, work>>
     \/ /\ Fault /\ SetStatus("volume", "failed") /\ Fails(a, "persist") /\ Finishes(a)
        /\ UNCHANGED volume
  /\ UNCHANGED <<bucket, clocks, scheduler, now, runs>>

NewerThan(i, names) == Cardinality({j \in names : j > i})
Old(f) == now >= f.at + Retention

(* Retention: everything but the newest Keep, unless it is too young.      *)
(* A removal that fails leaves its file.                                   *)
Prunable == {i \in Names(volume) : NewerThan(i, Names(volume)) >= Keep /\ Old(volume[i])}

Prune(a) ==
  /\ at[a].pc = "prune"
  /\ \E gone \in SUBSET Prunable :
       /\ volume' = [i \in Archives |-> IF i \in gone THEN Nothing ELSE volume[i]]
       /\ IF gone = Prunable THEN NoFault ELSE Fault
  /\ Go(a, "done")
  /\ UNCHANGED <<bucket, status, clocks, leases, now, runs>>

RunVolumeDone(a) ==
  /\ at[a].pc = "done"
  /\ \/ /\ status' = [status EXCEPT !["volume"] = [is |-> "ok", at |-> now]]
        /\ Go(a, "persist") /\ NoFault
     \/ Fault /\ Fails(a, "persist") /\ UNCHANGED status
  /\ Finishes(a)
  /\ UNCHANGED <<stored, clocks, scheduler, now, runs>>

-----------------------------------------------------------------------------
(*                   The bucket: runS3Mirror, pruneS3                      *)

(* Which copy to store: the newest local dump, unless it is stored already *)
(* or its name is taken by an object that is not this installation's.      *)
Compare(a) ==
  LET n == Newest(volume) IN
  /\ at[a].pc = "compare"
  /\ \/ /\ IF Names(volume) = {} \/ (bucket[n] # Nothing /\ ~bucket[n].owned)
           THEN Go(a, "freshdump")
           ELSE at' = [at EXCEPT ![a].name = n, ![a].holds = volume[n].is,
                  ![a].pc = IF bucket[n] # Nothing THEN "verify"
                            ELSE IF Restorable(volume[n]) THEN "put" ELSE "record",
                  ![a].ok = bucket[n] # Nothing \/ Restorable(volume[n])]
        /\ NoFault /\ UNCHANGED work
     \* The listing fails: recorded.  The ownership check or the local file
     \* fails: the run ends without a word in the status.
     \/ Fault /\ Fails(a, "record") /\ UNCHANGED work
     \/ Fault /\ Fails(a, "persist") /\ Finishes(a)
  /\ UNCHANGED <<stored, status, clocks, scheduler, now, runs>>

FreshDump(a) ==
  /\ at[a].pc = "freshdump"
  /\ \/ Dumps(a, "put") /\ UNCHANGED work
     \* ManualS3 returns at once here and persists nothing either.
     \/ /\ Fault
        /\ IF at[a].job = "panel" THEN at' = [at EXCEPT ![a] = Idle] /\ work' = Freed(work, a)
           ELSE Fails(a, "persist") /\ Finishes(a)
  /\ UNCHANGED <<stored, status, clocks, scheduler, now, runs>>

(* The local dump must pass the full drill and the stored copy must equal  *)
(* it.  A copy that differs, or that HEAD or GET cannot read, is repaired. *)
VerifyMirroredCopy(a) ==
  LET i == at[a].name
      sound == Restorable(volume[i]) IN
  /\ at[a].pc = "verify"
  /\ \/ /\ at' = [at EXCEPT ![a].pc = IF ~sound THEN "record" ELSE IF Same(i) THEN "s3prune" ELSE "repair",
                            ![a].ok = sound, ![a].holds = volume[i].is]
        /\ NoFault
     \/ Fault /\ sound /\ at' = [at EXCEPT ![a].pc = "repair", ![a].holds = volume[i].is]
     \/ Fault /\ Fails(a, "record")
  /\ UNCHANGED <<stored, status, clocks, leases, now, runs>>

(* Only an own object is replaced: removed, put again, and read back.      *)
RepairRemoves(a) ==
  /\ at[a].pc = "repair"
  /\ \/ bucket' = [bucket EXCEPT ![at[a].name] = Nothing] /\ Go(a, "reput") /\ NoFault
     \/ Fault /\ Fails(a, "record") /\ UNCHANGED bucket
  /\ UNCHANGED <<volume, status, clocks, leases, now, runs>>

Uploaded(i, is) == [bucket EXCEPT ![i] = [owned |-> TRUE, key |-> "new", is |-> is, at |-> now]]

(* A conditional PUT: it never replaces an object.  It may fail, store     *)
(* less than was sent, or lose its answer.                                 *)
UploadS3(a) ==
  LET i == at[a].name
      sent == at[a].holds IN
  /\ at[a].pc \in {"put", "reput"} /\ bucket[i] = Nothing
  /\ \/ bucket' = Uploaded(i, sent) /\ Go(a, "check") /\ NoFault
     \/ Fault /\ bucket' = Uploaded(i, "cut") /\ Go(a, "check")
     \/ Fault /\ bucket' \in {bucket, Uploaded(i, sent)} /\ Fails(a, "record")
  /\ UNCHANGED <<volume, status, clocks, leases, now, runs>>

VerifyS3Object(a) ==
  /\ at[a].pc = "check"
  /\ \/ /\ NoFault
        /\ IF bucket[at[a].name].is = at[a].holds
           THEN Go(a, IF at[a].job = "panel" THEN "record" ELSE "s3prune")
           ELSE Fails(a, "record")
     \/ Fault /\ Fails(a, "record")
  /\ UNCHANGED <<stored, status, clocks, leases, now, runs>>

(* (Listed: whoever put it there.)                                         *)
Listed == Names(bucket)

Owned == {i \in Names(bucket) : bucket[i].owned}

PrunableS3 == {i \in Owned : NewerThan(i, Owned) >= Keep /\ Old(bucket[i])}

(* A listing, an ownership check or a removal that fails leaves more.      *)
PruneS3(a) ==
  /\ at[a].pc = "s3prune"
  /\ \E gone \in SUBSET PrunableS3 :
       /\ bucket' = [i \in Archives |-> IF i \in gone THEN Nothing ELSE bucket[i]]
       /\ IF gone = PrunableS3 THEN NoFault ELSE Fault
  /\ Go(a, "record")
  /\ UNCHANGED <<volume, status, clocks, leases, now, runs>>

(* The time of the attempt is written whatever became of it.               *)
RecordS3Result(a) ==
  /\ at[a].pc = "record"
  /\ \/ /\ status' = [status EXCEPT !["s3"] = [is |-> IF at[a].ok THEN "ok" ELSE "failed", at |-> now]]
        /\ Go(a, "persist") /\ NoFault
     \/ Fault /\ Fails(a, "persist") /\ UNCHANGED status
  /\ Finishes(a)
  /\ UNCHANGED <<stored, clocks, scheduler, now, runs>>

-----------------------------------------------------------------------------
(*               The rehearsal and the change of the key                   *)

RehearseNewest(a) ==
  /\ at[a].pc = "rehearse"
  /\ \/ /\ NoFault
        /\ IF Names(volume) # {} /\ Restorable(volume[Newest(volume)])
           THEN Go(a, "persist") /\ status' = [status EXCEPT !["rehearsal"] = [is |-> "ok", at |-> now]]
           ELSE Fails(a, "persist") /\ SetStatus("rehearsal", "failed")
     \/ Fault /\ Fails(a, "persist") /\ SetStatus("rehearsal", "failed")
  /\ Finishes(a)
  /\ UNCHANGED <<stored, clocks, scheduler, now, runs>>

(* The next file in order of names; one that is rotated already, fails to  *)
(* decrypt or fails its check after re-encryption is left alone.           *)
Rotatable(f) == f.key = "old" /\ f.is # "rotten"

RotateKey(o) ==
  LET rest == {i \in Names(volume) : i > at[o].name} IN
  /\ at[o].pc = "rotate" /\ rest # {}
  /\ LET i == Min(rest) IN
     /\ at' = [at EXCEPT ![o].name = i]
     /\ \/ /\ Rotatable(volume[i])
           /\ \E is \in {volume[i].is, "cut"} :
                /\ Verified(is)
                /\ volume' = [volume EXCEPT ![i].key = "new", ![i].is = is, ![i].at = now]
        \/ NoFault /\ ~Rotatable(volume[i]) /\ UNCHANGED volume
        \/ Fault /\ UNCHANGED volume
  /\ UNCHANGED <<bucket, status, clocks, leases, now, runs>>

RotationEnds(o) ==
  /\ at[o].pc = "rotate" /\ \A i \in Names(volume) : i <= at[o].name
  /\ at' = [at EXCEPT ![o] = Idle]
  /\ work' = IF work = o THEN Nothing ELSE work
  /\ NoFault
  /\ UNCHANGED <<stored, status, clocks, scheduler, now, runs>>

-----------------------------------------------------------------------------
(*                    The result, and what may happen                      *)

(* Success sets the clock and clears the retry; failure sets the retry.    *)
(* Scheduled runs and the command's volume run use the time they started.  *)
Stamp(a) ==
  IF at[a].dest # "rehearsal" /\ (a \in Tickers \/ (at[a].job = "cli" /\ at[a].dest = "volume"))
  THEN at[a].t ELSE now
Result(a) ==
  IF at[a].ok
  THEN [row EXCEPT ![at[a].dest] = [last |-> Stamp(a), retry |-> Never, attempt |-> Never]]
  ELSE [row EXCEPT ![at[a].dest].retry = Stamp(a) + Backoff, ![at[a].dest].attempt = Never]

(* After a result: the ticker goes on; the command mirrors what it dumped. *)
Continues(a, both) ==
  IF a \in Tickers THEN Onward(a) /\ UNCHANGED work
  ELSE /\ at' = [at EXCEPT ![a] = IF both THEN [Idle EXCEPT !.pc = "acquire", !.job = "cli", !.dest = "s3"]
                                   ELSE Idle]
       /\ work' = Freed(work, a)
       /\ UNCHANGED scheduler
HeldBack(a) == IF a \in Tickers /\ at[a].dest # "rehearsal"
               THEN [local EXCEPT ![a][at[a].dest] = at[a].t + Backoff] ELSE local

PersistSchedulerResult(a) ==
  /\ at[a].pc = "persist"
  /\ row' = Result(a)
  /\ since' = IF at[a].ok \/ a \in Operators THEN [since EXCEPT ![at[a].dest] = Never] ELSE since
  /\ local' = IF at[a].ok THEN local ELSE HeldBack(a)
  /\ Continues(a, at[a].job = "cli" /\ at[a].dest = "volume" /\ at[a].ok)
  /\ NoFault
  /\ UNCHANGED <<stored, status, now, runs>>

(* The statement fails; the marker and its retry clock stay in the row.    *)
PersistFails(a) ==
  /\ at[a].pc = "persist" /\ Fault
  /\ local' = HeldBack(a)
  /\ Continues(a, FALSE)
  /\ UNCHANGED <<stored, status, row, since, now, runs>>

(* A process dies; PostgreSQL frees its leases.                            *)
ProcessDies(a) ==
  /\ at[a].pc # "idle" /\ Fault
  /\ at' = [at EXCEPT ![a] = Idle]
  /\ scheduler' = Freed(scheduler, a) /\ work' = Freed(work, a)
  /\ local' = IF a \in Tickers THEN [local EXCEPT ![a] = [d \in Dests |-> Never]] ELSE local
  /\ UNCHANGED <<stored, status, row, now, since, runs>>

Rot ==
  /\ Fault
  /\ \/ \E i \in Names(bucket) : bucket[i].is = "intact" /\ bucket' = [bucket EXCEPT ![i].is = "rotten"]
        /\ UNCHANGED volume
     \/ \E i \in Names(volume) : volume[i].is = "intact" /\ volume' = [volume EXCEPT ![i].is = "rotten"]
        /\ UNCHANGED bucket
  /\ UNCHANGED <<status, clocks, leases, at, now, runs>>

(* One unit is far longer than any statement: the clock moves while        *)
(* nothing runs or an archive is being made, moved or loaded, and not past *)
(* the deadline of a scheduled run.                                        *)
Slow == {"dump", "freshdump", "put", "reput", "rehearse", "rotate"}

ClockTicks ==
  /\ \A a \in Actors : at[a].pc \in {"idle"} \cup Slow
  /\ \A p \in Tickers : at[p].pc \in Slow => now < at[p].begun + RunLimit
  /\ now < MaxTime /\ now' = now + 1
  /\ NoFault
  /\ UNCHANGED <<stored, status, clocks, leases, at, runs>>

BackupsNext ==
  \/ \E p \in Tickers : LoadSchedulerState(p) \/ SettleInterruptedAttempts(p)
                        \/ ClearSchedulerAttempt(p) \/ NotDue(p) \/ MarkSchedulerAttempt(p)
  \/ \E o \in Operators : RunScheduled(o) \/ Manual(o) \/ StartRotation(o)
                          \/ RotateKey(o) \/ RotationEnds(o)
  \/ \E a \in Actors :
       \/ AcquireWork(a) \/ CreateVerifiedDump(a) \/ Promote(a) \/ Prune(a) \/ RunVolumeDone(a)
       \/ Compare(a) \/ FreshDump(a) \/ VerifyMirroredCopy(a) \/ RepairRemoves(a)
       \/ UploadS3(a) \/ VerifyS3Object(a) \/ PruneS3(a) \/ RecordS3Result(a)
       \/ RehearseNewest(a) \/ PersistSchedulerResult(a) \/ PersistFails(a) \/ ProcessDies(a)
  \/ Rot \/ ClockTicks

BackupsSpec == BackupsInit /\ [][BackupsNext]_backupVars
-----------------------------------------------------------------------------
(* An archive the program wrote whole: on the volume, in the bucket.       *)
Whole(i) == volume[i] # Nothing /\ volume[i].is # "cut"
WholeOffsite == \E i \in Owned : bucket[i].is # "cut"

(* A success that is reported has its recovery point: for the time of the  *)
(* last volume run that status.json or the scheduler's row calls good, the *)
(* volume holds an archive written whole then or later; and while the      *)
(* mirror counts as good, the volume holds an archive or the bucket one    *)
(* written whole - whatever failed, died, was pruned or re-encrypted since *)
(* (backup.go, runVolume, prune, runS3Mirror, pruneS3; rotate.go).  What   *)
(* the storage spoils later is not covered.                                *)
RecoveryPointKept ==
  /\ \A t \in {row["volume"].last, status["volume"].at} \ {Never} :
       \E i \in Names(volume) : Whole(i) /\ volume[i].made >= t
  /\ status["s3"].is = "ok" => WholeOffsite \/ Names(volume) # {}

(* An object of the bucket that is not this installation's stays as it is, *)
(* and an own one is taken away only while the dump it is put again from   *)
(* is on the volume, written whole, or when it is old and a newer own      *)
(* object is there (backup.go, repairS3Mirror, pruneS3, s3ObjectOwned).    *)
OffsiteKept ==
  [][\A i \in Names(bucket) :
       /\ ~bucket[i].owned => bucket'[i] # Nothing /\ ~bucket'[i].owned
       /\ bucket'[i] = Nothing =>
            \/ Whole(i)
            \/ Old(bucket[i]) /\ \E j \in Owned : j > i]_backupVars

(* How many runs of the same tick, whose time the retry clock counts from, *)
(* may come before a run of the destination.                               *)
Before == [volume |-> 0, s3 |-> 1, rehearsal |-> 2]

(* From the start of a heavy scheduled run of a destination to the start   *)
(* of the next is at least a backoff, less the deadlines of the runs that  *)
(* came before the first in its tick - unless the first succeeded or an    *)
(* operator's run answered for it, although the process may die in between *)
(* and another one takes over (backup.go, tick; scheduler.go,              *)
(* markSchedulerAttempt).                                                  *)
AttemptsSpaced ==
  [][\A p \in Tickers : LET d == at[p].dest IN
       at[p].pc = "acquire" /\ at'[p].pc = FirstStep[d] /\ since[d] # Never
         => now + Before[d] * RunLimit >= since[d] + Backoff]_backupVars
=============================================================================
