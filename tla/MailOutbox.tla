---------------------------- MODULE MailOutbox ----------------------------
(***************************************************************************)
(* The durable outbox of e-mails (invoices, reminders, statements): intents*)
(* persisted before SMTP, senders (the maintenance worker and the request  *)
(* that created an intent) that claim an intent, announce the SMTP DATA    *)
(* phase, transmit and settle, the sweep of claims whose sender died, and  *)
(* the operator's decisions.  Sources: internal/store/mail_outbox.go,      *)
(* mail_delivery_safety.go, mail_dunning_guard.go, mail_hold.go,           *)
(* mail_admin.go, internal/mail/mail.go.                                   *)
(*                                                                         *)
(* Every database statement of a sender is a step of its own; between two  *)
(* of them every other sender, operator or sweep may act, and the sender's *)
(* process may die.                                                        *)
(***************************************************************************)
EXTENDS Integers, Sequences, FiniteSets

CONSTANTS
  Mail,         \* delivery keys, one per logical e-mail
  Reminder,     \* those of reminders, which demand an open amount
  Message,      \* contents; a reminder's content is the amount it demands
  Settled,      \* what is owed when nothing is open
  Sender,       \* goroutines that may deliver: worker ticks and requests
  MaxAttempts,  \* outboxMaxAttempts
  MaxRows,      \* mailQueueMaxRows
  MaxRequests   \* bound: explicit requests to send, in a behaviour

ASSUME OutboxAssumption ==
  /\ Reminder \subseteq Mail
  /\ Settled \notin Message
  /\ MaxAttempts \in Nat \ {0} /\ MaxRows \in Nat /\ MaxRequests \in Nat

VARIABLES
  outbox,    \* the row of mail_outbox with each delivery key, if there is one
  sender,    \* each sender's program counter and the row as it read it
  owed,      \* what each reminder's invoice currently leaves open
  erased,    \* mails whose neighbor was anonymized
  copies,    \* copies accepted by the SMTP server since a request that accepts
             \* duplicates: the intent's creation or a forced resend
  requests   \* requests made so far

vars == <<outbox, sender, owed, erased, copies, requests>>

-----------------------------------------------------------------------------
(* Rows *)

Outcome == {"sending", "sent", "retry", "failed", "ambiguous"}

\* log is mail_outbox_attempts; its length is the row's attempt_seq.  expired
\* says that claimed_at lies more than twice perMailBudget back.
Row == [id : Nat, state : {"none", "pending", "sending", "sent", "failed",
                           "ambiguous", "held"},
        msg : Message \cup {Settled}, attempts : 0 .. MaxAttempts,
        log : Seq(Outcome), phase : {"none", "claimed", "data"}, due : BOOLEAN,
        expired : BOOLEAN, reason : {"", "stale", "discarded"},
        redacted : BOOLEAN]

NoRow == [id |-> 0, state |-> "none", msg |-> Settled, attempts |-> 0,
          log |-> <<>>, phase |-> "none", due |-> FALSE, expired |-> FALSE,
          reason |-> "", redacted |-> FALSE]

Idle == [pc |-> "idle", mail |-> CHOOSE m \in Mail : TRUE, id |-> 0,
         msg |-> Settled, dueOnly |-> FALSE, attempts |-> 0, seq |-> 0]

Queued(m) ==
  /\ outbox[m].state \in {"pending", "sending", "failed", "ambiguous", "held"}
  /\ ~outbox[m].redacted

\* Faulty variant: only what still waits for delivery is counted.
FitsWaiting(m) ==
  Cardinality({k \in Mail \ {m} : outbox[k].state \in {"pending", "sending"}}) < MaxRows

\* Admission counts the other rows under the queue's advisory lock.
Fits(m) == Cardinality({k \in Mail \ {m} : Queued(k)}) < MaxRows

\* A reminder still demands what is open; everything else is always current.
DemandCurrent(m, msg) == m \in Reminder => msg = owed[m]

\* finishMailAttemptTx: an attempt already closed stays as it is.
CloseAttempt(log, seq, outcome) ==
  IF seq \in DOMAIN log /\ log[seq] = "sending"
  THEN [log EXCEPT ![seq] = outcome] ELSE log

SetRow(m, row) == outbox' = [outbox EXCEPT ![m] = row]
Goto(s, pc) == sender' = [sender EXCEPT ![s].pc = pc]
Leave(s) == sender' = [sender EXCEPT ![s] = Idle]

RowOf(s) == outbox[sender[s].mail]
\* WHERE id = m.ID AND status = 'sending'
StillSending(s) == RowOf(s).id = sender[s].id /\ RowOf(s).state = "sending"
\* ... AND attempt_seq = $2 AND message_id = $3
StillMyClaim(s) ==
  StillSending(s) /\ Len(RowOf(s).log) = sender[s].seq /\ RowOf(s).msg = sender[s].msg

-----------------------------------------------------------------------------
Init ==
  /\ outbox = [m \in Mail |-> NoRow]
  /\ sender = [s \in Sender |-> Idle]
  /\ owed \in [Mail -> Message]
  /\ erased = {}
  /\ copies = [m \in Mail |-> 0]
  /\ requests = 0

(* Requests *)

NewRequest == requests < MaxRequests /\ requests' = requests + 1

\* A request inserts the intent and will attempt it itself, whatever is due.
CreateMailIntent(s, m, msg) ==
  /\ sender[s].pc = "idle"
  /\ m \notin erased /\ outbox[m].state = "none" /\ Fits(m)
  /\ NewRequest
  /\ SetRow(m, [NoRow EXCEPT !.id = requests + 1, !.state = "pending", !.msg = msg])
  /\ sender' = [sender EXCEPT ![s] = [Idle EXCEPT !.pc = "created", !.mail = m,
                                                  !.id = requests + 1]]
  /\ copies' = [copies EXCEPT ![m] = 0]
  /\ UNCHANGED <<owed, erased>>

\* What an explicit resend may reopen; any other existing row is only reported.
Reopenable(m) ==
  \/ outbox[m].state \in {"failed", "ambiguous"}
  \/ outbox[m].state = "held" /\ outbox[m].reason = "stale"

\* The new content replaces the old; attempt_seq and the phase are kept.
ReopenMailIntent(s, m, msg) ==
  /\ sender[s].pc = "idle"
  /\ m \notin erased /\ Reopenable(m) /\ Fits(m)
  /\ NewRequest
  /\ SetRow(m, [outbox[m] EXCEPT !.state = "pending", !.msg = msg, !.attempts = 0,
                                 !.due = TRUE, !.reason = "", !.redacted = FALSE])
  /\ sender' = [sender EXCEPT ![s] = [Idle EXCEPT !.pc = "created", !.mail = m,
                                                  !.id = outbox[m].id]]
  /\ copies' = [copies EXCEPT ![m] = IF outbox[m].state = "ambiguous" THEN 0 ELSE @]
  /\ UNCHANGED <<owed, erased>>

RequeueMail(m, force) ==
  /\ ~outbox[m].redacted
  /\ outbox[m].state = IF force THEN "ambiguous" ELSE "failed"
  /\ NewRequest
  /\ SetRow(m, [outbox[m] EXCEPT !.state = "pending", !.attempts = 0, !.due = TRUE,
                                 !.phase = "none", !.reason = ""])
  /\ copies' = [copies EXCEPT ![m] = IF force THEN 0 ELSE @]
  /\ UNCHANGED <<sender, owed, erased>>

ReleaseHeldMail(m) ==
  /\ outbox[m].state = "held"
  /\ NewRequest
  /\ SetRow(m, [outbox[m] EXCEPT !.state = "pending", !.attempts = 0, !.due = TRUE,
                                 !.reason = ""])
  /\ UNCHANGED <<sender, owed, erased, copies>>

DiscardHeldMail(m) ==
  /\ outbox[m].state = "held"
  /\ SetRow(m, [outbox[m] EXCEPT !.state = "failed", !.reason = "discarded"])
  /\ UNCHANGED <<sender, owed, erased, copies, requests>>

(* Delivery: AttemptMail, ProcessMailOutbox, processOneOutboxMail *)

Snapshot(s, m, dueOnly) ==
  sender' = [sender EXCEPT ![s] = [Idle EXCEPT !.pc = "read", !.mail = m,
                                               !.id = outbox[m].id, !.msg = outbox[m].msg,
                                               !.dueOnly = dueOnly]]

\* The request reads back the row it created.
AttemptMail(s) ==
  /\ sender[s].pc = "created"
  /\ IF RowOf(s).id = sender[s].id THEN Snapshot(s, sender[s].mail, FALSE) ELSE Leave(s)
  /\ UNCHANGED <<outbox, owed, erased, copies, requests>>

\* The worker lists what is due.
ListDue(s, m) ==
  /\ sender[s].pc = "idle"
  /\ outbox[m].state = "pending" /\ outbox[m].due
  /\ Snapshot(s, m, TRUE)
  /\ UNCHANGED <<outbox, owed, erased, copies, requests>>

CheckDemand(s) ==
  /\ sender[s].pc = "read"
  /\ Goto(s, IF DemandCurrent(sender[s].mail, sender[s].msg) THEN "checked" ELSE "outdated")
  /\ UNCHANGED <<outbox, owed, erased, copies, requests>>

Hold(m, log) ==
  SetRow(m, [outbox[m] EXCEPT !.state = "held", !.reason = "stale", !.phase = "none",
                              !.expired = FALSE, !.log = log])

\* An outdated reminder is held unless somebody else claimed or replaced it.
HoldPending(s) ==
  LET m == sender[s].mail
  IN /\ sender[s].pc = "outdated"
     /\ IF /\ outbox[m].id = sender[s].id /\ outbox[m].state = "pending"
           /\ outbox[m].msg = sender[s].msg
        THEN Hold(m, outbox[m].log) ELSE UNCHANGED outbox
     /\ Leave(s)
     /\ UNCHANGED <<owed, erased, copies, requests>>

\* The claim's WHERE clause.
Claimable(s) ==
  /\ RowOf(s).id = sender[s].id /\ RowOf(s).state = "pending"
  /\ sender[s].dueOnly => RowOf(s).due
  /\ RowOf(s).msg = sender[s].msg

Claim(s) ==
  LET m == sender[s].mail
  IN /\ sender[s].pc = "checked"
     /\ IF Claimable(s)
        THEN /\ SetRow(m, [outbox[m] EXCEPT
                             !.state = "sending", !.attempts = @ + 1, !.due = FALSE,
                             !.phase = "claimed", !.expired = FALSE,
                             !.log = Append(@, "sending")])
             /\ sender' = [sender EXCEPT ![s].pc = "claimed",
                                         ![s].attempts = outbox[m].attempts + 1,
                                         ![s].seq = Len(outbox[m].log) + 1]
        ELSE UNCHANGED outbox /\ Leave(s)
     /\ UNCHANGED <<owed, erased, copies, requests>>

\* The dialog fails before DATA: no connection, no STARTTLS, a refused address.
DialogFails(s) ==
  /\ sender[s].pc \in {"claimed", "confirmed"}
  /\ Goto(s, "rejected")
  /\ UNCHANGED <<outbox, owed, erased, copies, requests>>

\* Faulty variant: the demand is not read again before DATA.
ConfirmAnyDemand(s) ==
  /\ sender[s].pc = "claimed"
  /\ Goto(s, "confirmed")
  /\ UNCHANGED <<outbox, owed, erased, copies, requests>>

\* The hook before DATA first reads the demand again ...
ConfirmDemand(s) ==
  /\ sender[s].pc = "claimed"
  /\ Goto(s, IF DemandCurrent(sender[s].mail, sender[s].msg) THEN "confirmed" ELSE "stale")
  /\ UNCHANGED <<outbox, owed, erased, copies, requests>>

HoldSending(s) ==
  LET m == sender[s].mail
  IN /\ sender[s].pc = "stale"
     /\ IF StillMyClaim(s)
        THEN Hold(m, CloseAttempt(outbox[m].log, sender[s].seq, "failed"))
        ELSE UNCHANGED outbox
     /\ Leave(s)
     /\ UNCHANGED <<owed, erased, copies, requests>>

\* ... then marks the claim; a claim that is gone aborts before DATA.
StartData(s) ==
  LET m == sender[s].mail
  IN /\ sender[s].pc = "confirmed"
     /\ IF StillMyClaim(s)
        THEN SetRow(m, [outbox[m] EXCEPT !.phase = "data"]) /\ Goto(s, "data")
        ELSE UNCHANGED outbox /\ Goto(s, "rejected")
     /\ UNCHANGED <<owed, erased, copies, requests>>

\* The server accepts or rejects the message, or its answer does not arrive.
Transmit(s, outcome) ==
  /\ sender[s].pc = "data"
  /\ \E accepted \in IF outcome = "unknown" THEN {0, 1}
                     ELSE IF outcome = "accepted" THEN {1} ELSE {0} :
       copies' = [copies EXCEPT ![sender[s].mail] = @ + accepted]
  /\ Goto(s, outcome)
  /\ UNCHANGED <<outbox, owed, erased, requests>>

\* When the row is no longer being sent, or the write fails, the delivery is
\* recorded as ambiguous instead.
SettleDelivered(s) ==
  LET m == sender[s].mail
  IN /\ sender[s].pc = "accepted"
     /\ \/ /\ StillSending(s)
           /\ SetRow(m, [outbox[m] EXCEPT
                           !.state = "sent", !.expired = FALSE, !.reason = "",
                           !.log = CloseAttempt(@, sender[s].seq, "sent")])
           /\ Leave(s)
        \/ UNCHANGED outbox /\ Goto(s, "unknown")
     /\ UNCHANGED <<owed, erased, copies, requests>>

MarkMailAmbiguous(s) ==
  LET m == sender[s].mail
  IN /\ sender[s].pc = "unknown"
     /\ IF StillSending(s)
        THEN SetRow(m, [outbox[m] EXCEPT
                          !.state = "ambiguous", !.expired = FALSE,
                          !.log = CloseAttempt(@, sender[s].seq, "ambiguous")])
        ELSE UNCHANGED outbox
     /\ Leave(s)
     /\ UNCHANGED <<owed, erased, copies, requests>>

AfterRejection(attempts) == IF attempts >= MaxAttempts THEN "failed" ELSE "pending"

RejectionOutcome(attempts) == IF attempts >= MaxAttempts THEN "failed" ELSE "retry"

SettleRejected(s) ==
  LET m == sender[s].mail
      closed == CloseAttempt(outbox[m].log, sender[s].seq,
                             RejectionOutcome(sender[s].attempts))
  IN /\ sender[s].pc = "rejected"
     /\ IF StillSending(s)
        THEN SetRow(m, [outbox[m] EXCEPT !.state = AfterRejection(sender[s].attempts),
                                         !.expired = FALSE, !.log = closed])
        ELSE IF outbox[m].id = sender[s].id
             THEN SetRow(m, [outbox[m] EXCEPT !.log = closed])
             ELSE UNCHANGED outbox
     /\ Leave(s)
     /\ UNCHANGED <<owed, erased, copies, requests>>

\* The process dies, the budget runs out or the database stays unreachable.
Crash(s) ==
  /\ sender[s].pc # "idle"
  /\ Leave(s)
  /\ UNCHANGED <<outbox, owed, erased, copies, requests>>

(* Time, retention and the rest of the system *)

\* A sender's budget is half the time after which its claim counts as stale, so
\* a claim goes stale only when its sender is gone.
ClaimExpires(m) ==
  /\ outbox[m].state = "sending" /\ ~outbox[m].expired
  /\ \A s \in Sender : sender[s].pc # "idle" => sender[s].id # outbox[m].id
                                               \/ sender[s].seq # Len(outbox[m].log)
  /\ SetRow(m, [outbox[m] EXCEPT !.expired = TRUE])
  /\ UNCHANGED <<sender, owed, erased, copies, requests>>

\* Faulty variant: the sweep leaves the dead sender's attempt open.
SweptOpen(row, state, outcome, due) ==
  [row EXCEPT !.state = state, !.expired = FALSE, !.due = due]

\* What the sweep makes of a claim whose sender is gone: it closes the attempt.
Swept(row, state, outcome, due) ==
  [row EXCEPT !.state = state, !.expired = FALSE, !.due = due,
              !.log = CloseAttempt(@, Len(@), outcome)]

\* Faulty variant: every stale claim returns to the queue.
StaleAnyPhase(m) == outbox[m].state = "sending" /\ outbox[m].expired

\* A stale claim that never reached DATA cannot have delivered anything.
StaleBeforeData(m) ==
  outbox[m].state = "sending" /\ outbox[m].expired /\ outbox[m].phase = "claimed"

SweepBeforeData ==
  /\ \E m \in Mail : StaleBeforeData(m)
  /\ outbox' = [m \in Mail |->
       LET row == outbox[m]
       IN IF StaleBeforeData(m)
          THEN [Swept(row, AfterRejection(row.attempts),
                      RejectionOutcome(row.attempts), TRUE) EXCEPT !.phase = "none"]
          ELSE row]
  /\ UNCHANGED <<sender, owed, erased, copies, requests>>

\* Faulty variant: only claims of binaries that set no phase are parked.
UnclearUnmarked(m) ==
  outbox[m].state = "sending" /\ outbox[m].expired /\ outbox[m].phase = "none"

\* The second statement of the sweep takes every claim that is still stale.
Unclear(m) == outbox[m].state = "sending" /\ outbox[m].expired

SweepUnclear ==
  /\ \E m \in Mail : Unclear(m)
  /\ outbox' = [m \in Mail |->
       LET row == outbox[m]
       IN IF Unclear(m) THEN Swept(row, "ambiguous", "ambiguous", row.due) ELSE row]
  /\ UNCHANGED <<sender, owed, erased, copies, requests>>

BackoffElapses(m) ==
  /\ outbox[m].state = "pending" /\ ~outbox[m].due
  /\ SetRow(m, [outbox[m] EXCEPT !.due = TRUE])
  /\ UNCHANGED <<sender, owed, erased, copies, requests>>

\* Delivered rows are deleted after 30 days, undelivered ones redacted.
PurgeSentMail(m) ==
  /\ \/ outbox[m].state = "sent" /\ SetRow(m, NoRow)
     \/ /\ outbox[m].state \in {"failed", "ambiguous"} /\ ~outbox[m].redacted
        /\ SetRow(m, [outbox[m] EXCEPT !.redacted = TRUE])
  /\ UNCHANGED <<sender, owed, erased, copies, requests>>

\* A payment or a credit changes what the reminder's invoice leaves open.
DemandChanges(m, amount) ==
  /\ m \in Reminder
  /\ owed' = [owed EXCEPT ![m] = amount]
  /\ UNCHANGED <<outbox, sender, erased, copies, requests>>

\* Anonymizing the neighbor deletes its mails, whoever is sending them.
EraseNeighbor(m) ==
  /\ m \notin erased
  /\ erased' = erased \cup {m}
  /\ SetRow(m, NoRow)
  /\ UNCHANGED <<sender, owed, copies, requests>>

Deliver(s) ==
  \/ AttemptMail(s) \/ CheckDemand(s) \/ HoldPending(s) \/ Claim(s)
  \/ DialogFails(s) \/ ConfirmDemand(s) \/ HoldSending(s) \/ StartData(s)
  \/ \E outcome \in {"accepted", "rejected", "unknown"} : Transmit(s, outcome)
  \/ SettleDelivered(s) \/ MarkMailAmbiguous(s) \/ SettleRejected(s)

(* What an operator asks for *)

\* A reminder demands what its invoice left open when the request read it; a
\* settled invoice gets none.
Demands(m, msg) == m \in Reminder /\ msg # Settled

\* Only an explicit request reopens an outcome.
DeliverMahnung(s, m, msg, explicit) ==
  /\ Demands(m, msg)
  /\ CreateMailIntent(s, m, msg) \/ (explicit /\ ReopenMailIntent(s, m, msg))

HandleMahnungEmail(s, m, msg) == DeliverMahnung(s, m, msg, TRUE)

\* One letter of the dunning run, whose list was read before its first letter.
HandleMahnwesenBatchEmail(s, m, msg) == DeliverMahnung(s, m, msg, FALSE)

HandleBelegEmail(s, m, msg) ==
  m \notin Reminder /\ (CreateMailIntent(s, m, msg) \/ ReopenMailIntent(s, m, msg))

\* A statement is retried after a rejection, never after an unclear delivery.
HandleNeighborOverviewEmail(s, m, msg) ==
  /\ m \notin Reminder
  /\ \/ CreateMailIntent(s, m, msg)
     \/ outbox[m].state = "failed" /\ ReopenMailIntent(s, m, msg)

RequestMail(m) ==
  \E s \in Sender, msg \in Message :
    \/ HandleMahnungEmail(s, m, msg) \/ HandleMahnwesenBatchEmail(s, m, msg)
    \/ HandleBelegEmail(s, m, msg) \/ HandleNeighborOverviewEmail(s, m, msg)

Decide(m) ==
  \/ RequestMail(m)
  \/ \E force \in BOOLEAN : RequeueMail(m, force)
  \/ ReleaseHeldMail(m) \/ DiscardHeldMail(m)

Next ==
  \/ \E s \in Sender : Deliver(s) \/ Crash(s) \/ \E m \in Mail : ListDue(s, m)
  \/ \E m \in Mail : \/ Decide(m) \/ ClaimExpires(m) \/ BackoffElapses(m)
                     \/ PurgeSentMail(m) \/ EraseNeighbor(m)
                     \/ \E amount \in Message \cup {Settled} : DemandChanges(m, amount)
  \/ SweepBeforeData \/ SweepUnclear

Spec == Init /\ [][Next]_vars

\* A sender that has started goes on or dies, though not for ever before it has
\* claimed anything; the maintenance tick comes round every 15 minutes and lists
\* what is due; time passes.
Fairness ==
  /\ \A s \in Sender : /\ WF_vars(Deliver(s) \/ Crash(s))
                       /\ SF_vars(CheckDemand(s)) /\ SF_vars(HoldPending(s) \/ Claim(s))
  /\ \A m \in Mail : /\ WF_vars(\E s \in Sender : ListDue(s, m))
                     /\ WF_vars(ClaimExpires(m)) /\ WF_vars(BackoffElapses(m))
  /\ WF_vars(SweepBeforeData \/ SweepUnclear)

FairSpec == Spec /\ Fairness

-----------------------------------------------------------------------------
(* Properties *)

TypeOK ==
  /\ outbox \in [Mail -> Row]
  /\ \A s \in Sender : /\ sender[s].msg \in Message \cup {Settled}
                       /\ sender[s].attempts \in 0 .. MaxAttempts
  /\ owed \in [Mail -> Message \cup {Settled}]
  /\ copies \in [Mail -> Nat]

\* No mail the queue would deliver by itself or on an ordinary retry has been
\* accepted before: not one that waits, was rejected for good, is held, or whose
\* claim has not reached DATA.  Only an ambiguous mail may have been delivered,
\* and only a forced resend sends it again (mail_delivery_safety.go).
NeverResendsAccepted ==
  \A m \in Mail :
    \/ outbox[m].state \in {"pending", "failed", "held"}
    \/ outbox[m].state = "sending" /\ outbox[m].phase = "claimed"
    => copies[m] = 0

\* One request to send puts at most one copy into the world, whatever crashed,
\* was swept or was retried since, and a mail shown as sent did go out.
OneCopyPerRequest ==
  \A m \in Mail : copies[m] <= 1 /\ (outbox[m].state = "sent" => copies[m] = 1)

\* The attempt history is closed: an attempt is open exactly while its mail is
\* being sent, and then it is the last one.
AttemptsClosed ==
  \A m \in Mail :
    LET log == outbox[m].log
    IN \A i \in DOMAIN log :
         log[i] = "sending" <=> i = Len(log) /\ outbox[m].state = "sending"

\* The queue never holds more undelivered payloads than its limit, although
\* retries, releases and redaction change what counts.
QueueBounded == Cardinality({m \in Mail : Queued(m)}) <= MaxRows

Active(m) == outbox[m].state \in {"pending", "sending"}

\* Every mail in the queue is eventually decided - sent, given up, parked as
\* unclear or held - even when every delivery that was claimed dies.
EveryMailSettles == \A m \in Mail : Active(m) ~> ~Active(m)

\* A waiting reminder whose demand is outdated and stays so never goes out,
\* even when it was outdated after a sender had checked it.
OutdatedNeverSent ==
  \A m \in Reminder :
    LET outdated == outbox[m].state = "none" \/ outbox[m].msg # owed[m]
    IN [](outbox[m].state = "pending" /\ []outdated => [](copies[m] = 0))

\* What a row says of its mail: a claim that has announced DATA may be out.
RowStage(row) ==
  CASE row.state \in {"pending", "held"} -> "waiting"
    [] row.state = "sending" -> IF row.phase = "claimed" THEN "waiting" ELSE "leaving"
    [] row.state = "sent" -> "delivered"
    [] row.state = "ambiguous" -> "unclear"
    [] OTHER -> row.state

StageOf(m) == IF m \in erased THEN "erased" ELSE RowStage(outbox[m])

Promise == INSTANCE MailPromise WITH stage <- [m \in Mail |-> StageOf(m)]

\* The outbox, with its claims, phases, retries, sweeps and crashes, does to each mail
\* only what MailPromise allows: it hands it over once, takes it back only when the
\* server does not have it, and leaves what is unclear to a person
\* (mail_delivery_safety.go, mail_admin.go).
KeepsPromise == Promise!PromiseSpec
=============================================================================
