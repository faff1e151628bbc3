------------------------------ MODULE AuditChain ------------------------------
(***************************************************************************)
(* The audit log and its two hash chains (internal/store/audit.go and      *)
(* audit_chain.go, migrations 0036 and 0091): rows are written unsealed by *)
(* any transaction, the maintenance tick seals them, purges what is past   *)
(* its retention and verifies the chains, the restore rehearsal records    *)
(* the heads a backup holds, and a restore puts an older database back.    *)
(*                                                                         *)
(* A row is a number nothing else ever gets, its hash the sequence of the  *)
(* rows its chain consists of up to it: what SHA-256 over the predecessor  *)
(* and the content stands for.  Seal, purge and rehearsal do all they do   *)
(* while they hold the rows of audit_chain_heads FOR UPDATE, so each is    *)
(* one step; the verification holds them from its first read to its last.  *)
(***************************************************************************)
EXTENDS Naturals, Sequences, FiniteSets, FiniteSetsExt, SequencesExt

CONSTANTS
  RowId,       \* bound: rows ever written, numbered in the order of their ids
  LastDay,     \* bound on the clock
  Window,      \* days either chain keeps a row (auditRetentionCutoffs)
  Batch,       \* auditSealBatch
  MaxDumps,    \* bound on backups
  MaxRestores, \* bound on restores
  NoHeads

Chain == {"short", "long"}

VARIABLES
  day,       \* the clock
  pending,   \* rows of transactions in flight
  log,       \* committed rows: row -> [chain, at, seq, prev, hash], seq 0 = unsealed
  heads,     \* audit_chain_heads
  recorded,  \* audit_chain_backup_heads
  verifier,  \* VerifyAuditChain: NoHeads, or the heads it has read
  alarm,     \* verified_ok is FALSE (NULL and TRUE raise no notification)
  dumps,     \* backups: snapshots of the database
  restores

logVars == <<day, pending, log, heads, recorded, verifier, alarm, dumps, restores>>

Sealed(c) == {r \in DOMAIN log : log[r].chain = c /\ log[r].seq > 0}
Unsealed == {r \in DOMAIN log : log[r].seq = 0}
At(c, n) == {r \in Sealed(c) : log[r].seq = n}
Used == UNION ({DOMAIN log, DOMAIN pending} \cup {DOMAIN d.log : d \in Range(dumps)})

LogInit ==
  /\ day = 1 /\ pending = <<>> /\ log = <<>> /\ recorded = {} /\ restores = 0
  /\ heads = [c \in Chain |-> [seq |-> 0, hash |-> <<>>, anchor |-> 0, anchorHash |-> <<>>]]
  /\ alarm = FALSE /\ verifier = NoHeads /\ dumps = <<>>

Tomorrow ==
  /\ day < LastDay /\ day' = day + 1
  /\ UNCHANGED <<pending, log, heads, recorded, verifier, alarm, dumps, restores>>

-----------------------------------------------------------------------------
(* Writing *)

\* AddAudit and addAuditTx: the row gets its id and its time when it is inserted,
\* and is visible when its transaction commits; one that rolls back never is.
AddAudit(c) ==
  LET r == Max(Used \cup {0}) + 1 IN
  /\ r \in RowId
  /\ pending' = [x \in DOMAIN pending \cup {r} |->
       IF x = r THEN [chain |-> c, at |-> day, seq |-> 0, prev |-> <<>>, hash |-> <<>>]
       ELSE pending[x]]
  /\ UNCHANGED <<day, log, heads, recorded, verifier, alarm, dumps, restores>>

Without(f, gone) == [x \in DOMAIN f \ gone |-> f[x]]

Commit(r) ==
  /\ r \in DOMAIN pending
  /\ log' = [x \in DOMAIN log \cup {r} |-> IF x = r THEN pending[r] ELSE log[x]]
  /\ pending' = Without(pending, {r})
  /\ UNCHANGED <<day, heads, recorded, verifier, alarm, dumps, restores>>

-----------------------------------------------------------------------------
(* The maintenance tick *)

\* Faulty variant: the verification reads the heads without FOR UPDATE.
HeadsShared == TRUE

\* Nobody holds the rows of audit_chain_heads.
HeadsFree == verifier = NoHeads

Below(r, rows) == {x \in rows : x < r}
Rank(r, rows) == Cardinality(Below(r, rows))

\* ORDER BY id.
ById(rows) == [n \in 1..Cardinality(rows) |-> CHOOSE r \in rows : Rank(r, rows) = n - 1]

\* The unsealed rows of one batch, and what a chain gets of them.
NextBatch == {r \in Unsealed : Rank(r, Unsealed) < Batch}
Share(c) == {r \in NextBatch : log[r].chain = c}

\* Each row of the batch continues its own chain.
Linked(r) ==
  LET c    == log[r].chain
      prev == heads[c].hash \o ById(Below(r, Share(c)))
  IN [log[r] EXCEPT !.seq = heads[c].seq + Rank(r, Share(c)) + 1,
                    !.prev = prev, !.hash = Append(prev, r)]

SealAuditBatch ==
  /\ HeadsFree /\ NextBatch # {}
  /\ log' = [r \in DOMAIN log |-> IF r \in NextBatch THEN Linked(r) ELSE log[r]]
  /\ heads' = [c \in Chain |->
       [heads[c] EXCEPT !.seq = @ + Cardinality(Share(c)), !.hash = @ \o ById(Share(c))]]
  /\ UNCHANGED <<day, pending, recorded, verifier, alarm, dumps, restores>>

Expired(r) == log[r].at + Window[log[r].chain] < day

\* A prefix: what was sealed before the first row still inside its window.
ExpiredPrefix(c) ==
  LET kept == {log[r].seq : r \in {x \in Sealed(c) : ~Expired(x)}} IN
  {r \in Sealed(c) : kept # {} => log[r].seq < Min(kept)}

\* Faulty variant: the anchor moves, its hash stays.
AnchoredSeq(c) ==
  [heads[c] EXCEPT !.anchor = Max({log[r].seq : r \in ExpiredPrefix(c)} \cup {@})]

\* The hash the removed prefix ends on becomes the anchor.
Anchored(c) ==
  LET last == {r \in ExpiredPrefix(c) : \A x \in ExpiredPrefix(c) : log[x].seq <= log[r].seq} IN
  IF last = {} THEN heads[c]
  ELSE LET r == CHOOSE x \in last : TRUE IN
       [heads[c] EXCEPT !.anchor = log[r].seq, !.anchorHash = log[r].hash]

\* Rows the sealing has not reached keep the rule of their action.
PurgeAuditLog ==
  LET gone == (UNION {ExpiredPrefix(c) : c \in Chain}) \cup {r \in Unsealed : Expired(r)} IN
  /\ HeadsFree /\ gone # {}
  /\ log' = Without(log, gone)
  /\ heads' = [c \in Chain |-> Anchored(c)]
  /\ UNCHANGED <<day, pending, recorded, verifier, alarm, dumps, restores>>

-----------------------------------------------------------------------------
(* The verification *)

StartVerify ==
  /\ HeadsFree /\ verifier' = heads
  /\ UNCHANGED <<day, pending, log, heads, recorded, alarm, dumps, restores>>

\* From the anchor on, without a gap, every row on its predecessor, to the head.
Intact(c, head) ==
  LET rows == Sealed(c)
      \* what the row at n has to carry as prev_hash
      before(n) == IF n = head.anchor + 1 THEN {head.anchorHash}
                   ELSE {log[r].hash : r \in At(c, n - 1)}
  IN /\ {log[r].seq : r \in rows} = (head.anchor + 1)..head.seq
     /\ \A r \in rows : log[r].prev \in before(log[r].seq) /\ log[r].hash = Append(log[r].prev, r)
     /\ head.hash \in before(head.seq + 1)

\* A head from a restored backup must still be there, unless it was purged.
BackupHeadsPresent ==
  \A b \in recorded :
    b.seq > heads[b.chain].anchor => \E r \in At(b.chain, b.seq) : log[r].hash = b.hash

VerifyAuditChain ==
  /\ verifier # NoHeads /\ verifier' = NoHeads
  /\ alarm' = ((\E c \in Chain : ~Intact(c, verifier[c])) \/ ~BackupHeadsPresent)
  /\ UNCHANGED <<day, pending, log, heads, recorded, dumps, restores>>

\* A time limit or a lost connection ends it: nothing is recorded.
AbandonVerify ==
  /\ verifier # NoHeads /\ verifier' = NoHeads
  /\ UNCHANGED <<day, pending, log, heads, recorded, alarm, dumps, restores>>

-----------------------------------------------------------------------------
(* Backups, rehearsals, restores *)

\* Of two backups of the same chains one is enough.
Backup ==
  /\ Len(dumps) < MaxDumps
  /\ \A i \in DOMAIN dumps : dumps[i].heads # heads
  /\ dumps' = Append(dumps, [log |-> log, heads |-> heads, recorded |-> recorded,
                            alarm |-> alarm])
  /\ UNCHANGED <<day, pending, log, heads, recorded, verifier, alarm, restores>>

\* The chains of the dump that hold something the live history did not purge.
Comparable(d) == {c \in Chain : d.heads[c].seq > 0 /\ d.heads[c].seq >= heads[c].anchor}

\* The live chain carries the head of the dump, at its anchor or in a row.
SameLine(d, c) ==
  LET head == d.heads[c] IN
  \/ head.seq = heads[c].anchor /\ head.hash = heads[c].anchorHash
  \/ head.seq > heads[c].anchor /\ \E r \in At(c, head.seq) : log[r].hash = head.hash

Rehearsable(d) == \A c \in Comparable(d) : SameLine(d, c)

\* One chain that differs fails the rehearsal and nothing is recorded.
RecordAuditHeads(i) ==
  LET d == dumps[i] IN
     /\ i \in DOMAIN dumps /\ HeadsFree /\ Rehearsable(d)
     /\ recorded' = recorded \cup {[chain |-> c, seq |-> d.heads[c].seq, hash |-> d.heads[c].hash] :
                                     c \in Comparable(d)}
     /\ UNCHANGED <<day, pending, log, heads, verifier, alarm, dumps, restores>>

\* Every transaction ends before the restore replaces the database.
Restore(i) ==
  /\ i \in DOMAIN dumps /\ restores < MaxRestores /\ restores' = restores + 1
  /\ pending' = <<>> /\ verifier' = NoHeads
  /\ log' = dumps[i].log /\ heads' = dumps[i].heads /\ recorded' = dumps[i].recorded
  /\ alarm' = dumps[i].alarm
  /\ UNCHANGED <<day, dumps>>

-----------------------------------------------------------------------------
LogNext ==
  \/ Tomorrow
  \/ \E c \in Chain : AddAudit(c)
  \/ \E r \in RowId : Commit(r)
  \/ SealAuditBatch \/ PurgeAuditLog
  \/ StartVerify \/ VerifyAuditChain \/ AbandonVerify
  \/ Backup \/ \E i \in 1..MaxDumps : RecordAuditHeads(i) \/ Restore(i)

LogSpec == LogInit /\ [][LogNext]_logVars

-----------------------------------------------------------------------------
(* Properties *)

\* Rows that commit out of order, batches, purges, backups of any age and a
\* restore that discards a part of the history: a log nobody tampered with is
\* never reported as broken (VerifyAuditChain and the notification it raises).
NoFalseAlarm == ~alarm

\* A rehearsal refuses only a backup of another line: as long as the live chains
\* continue what a backup ended on, whatever was purged since (recordAuditHeads).
OwnBackupsPass ==
  \A i \in DOMAIN dumps :
    (\A c \in Chain : IsPrefix(dumps[i].heads[c].hash, heads[c].hash)) => Rehearsable(dumps[i])
=============================================================================
