-------------------------- MODULE MailOutboxProofs --------------------------
(***************************************************************************)
(* Theorems about MailOutbox, for every number of mails, senders, requests *)
(* and attempts.                                                           *)
(***************************************************************************)
EXTENDS MailOutbox, FiniteSetTheorems, TLAPS

-----------------------------------------------------------------------------
(* The inductive invariant *)

\* A sender that has claimed an attempt and not yet settled it.
Attempting == {"claimed", "confirmed", "stale", "rejected", "data", "accepted", "unknown"}
PC == Attempting \cup {"idle", "created", "read", "checked", "outdated"}

SenderRow == [pc : PC, mail : Mail \cup {Idle.mail}, id : Nat, msg : Message \cup {Settled},
              dueOnly : BOOLEAN, attempts : 0 .. MaxAttempts, seq : Nat]

\* What a row says about the copies in the world.
RowKnows(row, count) ==
  /\ count \in {0, 1}
  /\ row.state \in {"pending", "failed", "held"} => count = 0
  /\ row.state = "sending" /\ row.phase = "claimed" => count = 0
  /\ row.state = "sent" => count = 1

\* The row's history is closed but for the attempt being sent, and a row that
\* waits has an attempt left.
RowClosed(row) ==
  /\ \A i \in DOMAIN row.log :
       row.log[i] = "sending" <=> i = Len(row.log) /\ row.state = "sending"
  /\ row.state = "pending" => row.attempts < MaxAttempts

\* The sender's claim is the attempt its row is at, unexpired, with the sender's
\* content, and the row's phase says how far the sender may have got.
Standing(snd, row) ==
  /\ row.id = snd.id /\ row.state = "sending" /\ Len(row.log) = snd.seq /\ ~row.expired
  /\ row.msg = snd.msg /\ row.attempts = snd.attempts
  /\ snd.pc \in {"claimed", "confirmed", "stale"} => row.phase = "claimed"
  /\ snd.pc \in {"data", "accepted", "unknown"} => row.phase = "data"

\* What a sender knows about the copies in the world.
SenderKnows(pc, count) ==
  /\ pc \in {"claimed", "confirmed", "stale", "rejected", "data"} => count = 0
  /\ pc = "accepted" => count = 1

OutboxTyped ==
  /\ outbox \in [Mail -> Row] /\ sender \in [Sender -> SenderRow]
  /\ owed \in [Mail -> Message \cup {Settled}] /\ copies \in [Mail -> Nat] /\ requests \in Nat
  /\ \A s \in Sender : sender[s].pc # "idle" => sender[s].mail \in Mail

\* A claim stands for as long as its sender lives, unless the mail was erased.
ClaimsStand ==
  \A s \in Sender : sender[s].pc \in Attempting =>
    /\ sender[s].mail \in erased \/ Standing(sender[s], outbox[sender[s].mail])
    /\ SenderKnows(sender[s].pc, copies[sender[s].mail])

\* No mail has two senders beyond the claim.
OneClaimant ==
  \A s, t \in Sender :
    sender[s].pc \in Attempting /\ sender[t].pc \in Attempting
      /\ sender[s].mail = sender[t].mail => s = t

RowsKnow ==
  \A m \in Mail : /\ RowKnows(outbox[m], copies[m]) /\ RowClosed(outbox[m])
                  /\ m \in erased => outbox[m].state = "none"

OutboxInv == OutboxTyped /\ ClaimsStand /\ OneClaimant /\ RowsKnow

-----------------------------------------------------------------------------
(* Rows and their history *)

LEMMA CloseKeeps ==
  ASSUME NEW log \in Seq(Outcome), NEW seq, NEW outcome \in Outcome
  PROVE  CloseAttempt(log, seq, outcome) \in Seq(Outcome)
         /\ Len(CloseAttempt(log, seq, outcome)) = Len(log)
BY DEF CloseAttempt

\* Closing the last attempt closes them all.
LEMMA CloseLast ==
  ASSUME NEW log \in Seq(Outcome), NEW outcome \in Outcome, outcome # "sending",
         \A i \in DOMAIN log : log[i] = "sending" => i = Len(log)
  PROVE  \A i \in DOMAIN CloseAttempt(log, Len(log), outcome) :
           CloseAttempt(log, Len(log), outcome)[i] # "sending"
<1>1. CASE Len(log) \in DOMAIN log /\ log[Len(log)] = "sending"
  <2>1. CloseAttempt(log, Len(log), outcome) = [log EXCEPT ![Len(log)] = outcome]
    BY <1>1 DEF CloseAttempt
  <2>2. QED
    BY <1>1, <2>1
<1>2. CASE ~(Len(log) \in DOMAIN log /\ log[Len(log)] = "sending")
  BY <1>2 DEF CloseAttempt
<1>3. QED
  BY <1>1, <1>2

LEMMA RowTypes ==
  ASSUME OutboxInv, NEW m \in Mail
  PROVE  /\ outbox[m] \in Row /\ copies[m] \in Nat /\ outbox[m].log \in Seq(Outcome)
         /\ RowKnows(outbox[m], copies[m]) /\ RowClosed(outbox[m])
         /\ m \in erased => outbox[m].state = "none"
BY DEF OutboxInv, OutboxTyped, RowsKnow, Row

\* A mail nobody may be sending: its row is neither sent right now nor erased.
LEMMA NobodyClaims ==
  ASSUME OutboxInv, NEW m \in Mail, m \notin erased, outbox[m].state # "sending", NEW t \in Sender,
         sender[t].pc \in Attempting
  PROVE  sender[t].mail # m
BY DEF OutboxInv, ClaimsStand, Standing

-----------------------------------------------------------------------------
(* A step of one mail *)

Attends(m, row, count, snd) ==
  /\ snd.pc # "idle" => snd.mail \in Mail
  /\ snd.pc \in Attempting => /\ snd.mail = m /\ SenderKnows(snd.pc, count)
                              /\ m \in erased \/ Standing(snd, row)

\* The step writes the row of m, leaving count copies; no sender but s takes part.
Touches(m, row, count, s) ==
  /\ outbox' = [outbox EXCEPT ![m] = row] /\ copies' = [copies EXCEPT ![m] = count]
  /\ UNCHANGED <<erased, owed>> /\ requests' \in Nat
  /\ RowKnows(row, count) /\ RowClosed(row) /\ (m \in erased => row.state = "none")
  /\ sender' \in [Sender -> SenderRow]
  /\ \A t \in Sender :
       \/ sender'[t] = sender[t] /\ (sender[t].pc \in Attempting => sender[t].mail # m)
       \/ t = s /\ Attends(m, row, count, sender'[t])

LEMMA MailStep ==
  ASSUME OutboxInv, NEW m \in Mail, NEW row \in Row, NEW count \in Nat, NEW s,
         Touches(m, row, count, s)
  PROVE  OutboxInv'
<1> USE DEF Touches
<1>1. /\ outbox \in [Mail -> Row] /\ copies \in [Mail -> Nat]
      /\ outbox'[m] = row /\ copies'[m] = count
      /\ \A k \in Mail : k # m => outbox'[k] = outbox[k] /\ copies'[k] = copies[k]
  BY DEF OutboxInv, OutboxTyped
<1>2. OutboxTyped'
  <2>1. outbox' \in [Mail -> Row] /\ copies' \in [Mail -> Nat]
    BY <1>1
  <2>2. ASSUME NEW t \in Sender, sender'[t].pc # "idle" PROVE sender'[t].mail \in Mail
    BY <2>2 DEF OutboxInv, OutboxTyped, Attends
  <2>3. QED
    BY <2>1, <2>2 DEF OutboxInv, OutboxTyped
<1>3. ClaimsStand'
  <2>1. SUFFICES ASSUME NEW t \in Sender, sender'[t].pc \in Attempting
                 PROVE  /\ sender'[t].mail \in erased \/ Standing(sender'[t], outbox'[sender'[t].mail])
                        /\ SenderKnows(sender'[t].pc, copies'[sender'[t].mail])
    BY DEF ClaimsStand
  <2>2. CASE sender'[t] = sender[t] /\ sender[t].mail # m
    <3>1. sender[t].mail \in Mail
      BY <2>1, <2>2 DEF OutboxInv, OutboxTyped, Attempting
    <3>2. QED
      BY <1>1, <2>1, <2>2, <3>1 DEF OutboxInv, ClaimsStand
  <2>3. CASE Attends(m, row, count, sender'[t])
    BY <1>1, <2>1, <2>3 DEF Attends
  <2>4. QED
    BY <2>1, <2>2, <2>3
<1>4. OneClaimant'
  <2>1. SUFFICES ASSUME NEW t \in Sender, NEW u \in Sender, sender'[t].pc \in Attempting,
                        sender'[u].pc \in Attempting, sender'[t].mail = sender'[u].mail
                 PROVE  t = u
    BY DEF OneClaimant
  <2>2. QED
    BY <2>1 DEF OutboxInv, OneClaimant, Attends
<1>5. RowsKnow'
  BY <1>1 DEF OutboxInv, RowsKnow
<1>6. QED
  BY <1>2, <1>3, <1>4, <1>5 DEF OutboxInv

\* A step of senders that touches no row: those beyond the claim keep their claim
\* and know what they knew.
LEMMA SendersStep ==
  ASSUME OutboxInv, UNCHANGED <<outbox, copies, erased, requests>>,
         owed' \in [Mail -> Message \cup {Settled}], sender' \in [Sender -> SenderRow],
         \A t \in Sender :
           \/ sender'[t] = sender[t]
           \/ sender'[t].pc \notin Attempting /\ (sender'[t].pc # "idle" => sender'[t].mail \in Mail)
           \/ /\ sender[t].pc \in Attempting /\ sender'[t].pc \in Attempting
              /\ sender'[t].mail = sender[t].mail
              /\ SenderKnows(sender'[t].pc, copies[sender[t].mail])
              /\ sender[t].mail \in erased \/ Standing(sender'[t], outbox[sender[t].mail])
  PROVE  OutboxInv'
<1>1. OutboxTyped'
  <2>1. ASSUME NEW t \in Sender, sender'[t].pc # "idle" PROVE sender'[t].mail \in Mail
    BY <2>1 DEF OutboxInv, OutboxTyped, Attempting
  <2>2. QED
    BY <2>1 DEF OutboxInv, OutboxTyped
<1>2. ClaimsStand'
  BY DEF OutboxInv, ClaimsStand
<1>3. OneClaimant'
  BY DEF OutboxInv, OneClaimant
<1>4. RowsKnow'
  BY DEF OutboxInv, RowsKnow
<1>5. QED
  BY <1>1, <1>2, <1>3, <1>4 DEF OutboxInv

LEMMA Blank == NoRow \in Row /\ Idle \in SenderRow /\ RowKnows(NoRow, 0) /\ RowClosed(NoRow)
<1>1. NoRow \in Row
  BY OutboxAssumption DEF NoRow, Row
<1>2. Idle \in SenderRow
  BY OutboxAssumption DEF Idle, SenderRow, PC
<1>3. RowKnows(NoRow, 0) /\ RowClosed(NoRow)
  BY DEF NoRow, RowKnows, RowClosed
<1>4. QED
  BY <1>1, <1>2, <1>3

\* A decision about a row no sender works on.
LEMMA RowStep ==
  ASSUME OutboxInv, NEW m \in Mail, outbox[m].state \notin {"none", "sending"},
         NEW row \in Row, NEW count \in Nat,
         outbox' = [outbox EXCEPT ![m] = row], copies' = [copies EXCEPT ![m] = count],
         UNCHANGED <<erased, owed, sender>>, requests' \in Nat,
         RowKnows(row, count), RowClosed(row)
  PROVE  OutboxInv'
<1>1. m \notin erased
  BY RowTypes
<1>2. \A t \in Sender : sender[t].pc \in Attempting => sender[t].mail # m
  BY <1>1, NobodyClaims
<1>3. sender' \in [Sender -> SenderRow]
  BY DEF OutboxInv, OutboxTyped
<1>4. Touches(m, row, count, m)
  BY <1>1, <1>2, <1>3 DEF Touches
<1>5. QED
  BY <1>4, MailStep

\* The claimant of a mail writes its row, or looks for it, and leaves.
LEMMA ClaimantLeaves ==
  ASSUME OutboxInv, NEW s \in Sender, NEW m \in Mail, sender[s].mail = m, sender[s].pc \in Attempting,
         NEW row \in Row, outbox' = [outbox EXCEPT ![m] = row], Leave(s),
         UNCHANGED <<copies, erased, owed, requests>>,
         RowKnows(row, copies[m]), RowClosed(row), m \in erased => row.state = "none"
  PROVE  OutboxInv'
<1> DEFINE count == copies[m]
<1>1. copies \in [Mail -> Nat] /\ requests \in Nat /\ sender \in [Sender -> SenderRow]
  BY DEF OutboxInv, OutboxTyped
<1>2. count \in Nat /\ copies' = [copies EXCEPT ![m] = count] /\ RowKnows(row, count)
  BY <1>1
<1> HIDE DEF count
<1>3. sender'[s] = Idle /\ sender' \in [Sender -> SenderRow]
      /\ \A t \in Sender : t # s => sender'[t] = sender[t]
  BY <1>1, Blank DEF Leave
<1>4. \A t \in Sender : t # s => (sender[t].pc \in Attempting => sender[t].mail # m)
  BY DEF OutboxInv, OneClaimant
<1>5. Attends(m, row, count, sender'[s])
  BY <1>3 DEF Attends, Idle, Attempting
<1>6. UNCHANGED <<erased, owed>> /\ requests' \in Nat
  BY <1>1
<1>7. \A t \in Sender :
         \/ sender'[t] = sender[t] /\ (sender[t].pc \in Attempting => sender[t].mail # m)
         \/ t = s /\ Attends(m, row, count, sender'[t])
  BY <1>3, <1>4, <1>5
<1>8. Touches(m, row, count, s)
  BY <1>2, <1>3, <1>6, <1>7 DEF Touches
<1>9. QED
  BY <1>2, <1>8, MailStep

\* A sender that touches no row and is not beyond the claim afterwards.
LEMMA StepsBack ==
  ASSUME OutboxInv, NEW s \in Sender, NEW snd \in SenderRow, snd.pc \notin Attempting,
         snd.pc # "idle" => snd.mail \in Mail,
         sender' = [sender EXCEPT ![s] = snd], UNCHANGED <<outbox, copies, erased, owed, requests>>
  PROVE  OutboxInv'
<1>1. sender \in [Sender -> SenderRow] /\ owed \in [Mail -> Message \cup {Settled}]
  BY DEF OutboxInv, OutboxTyped
<1>2. sender' \in [Sender -> SenderRow] /\ sender'[s] = snd
      /\ \A t \in Sender : t # s => sender'[t] = sender[t]
  BY <1>1
<1>3. QED
  BY <1>1, <1>2, SendersStep

\* A claimant goes on without touching a row.
LEMMA GoesOn ==
  ASSUME OutboxInv, NEW s \in Sender, NEW pc \in Attempting, sender[s].pc \in Attempting, Goto(s, pc),
         UNCHANGED <<outbox, copies, erased, owed, requests>>,
         SenderKnows(pc, copies[sender[s].mail]),
         \/ pc = "rejected"
         \/ pc \in {"confirmed", "stale"} /\ sender[s].pc \in {"claimed", "confirmed", "stale"}
         \/ pc = "unknown" /\ sender[s].pc \in {"data", "accepted", "unknown"}
  PROVE  OutboxInv'
<1>1. sender \in [Sender -> SenderRow] /\ owed \in [Mail -> Message \cup {Settled}]
  BY DEF OutboxInv, OutboxTyped
<1>2. sender'[s] = [sender[s] EXCEPT !.pc = pc] /\ \A t \in Sender : t # s => sender'[t] = sender[t]
  BY <1>1 DEF Goto
<1>3. sender[s] \in SenderRow
  BY <1>1
<1>4. sender'[s] \in SenderRow /\ sender'[s].pc = pc /\ sender'[s].mail = sender[s].mail
      /\ sender'[s].id = sender[s].id /\ sender'[s].msg = sender[s].msg
      /\ sender'[s].attempts = sender[s].attempts /\ sender'[s].seq = sender[s].seq
  BY <1>2, <1>3 DEF SenderRow, PC
<1>5. sender' \in [Sender -> SenderRow]
  BY <1>1, <1>4 DEF Goto
<1>6. sender[s].mail \in erased \/ Standing(sender[s], outbox[sender[s].mail])
  BY DEF OutboxInv, ClaimsStand
<1>7. sender[s].mail \in erased \/ Standing(sender'[s], outbox[sender[s].mail])
  BY <1>4, <1>6 DEF Standing
<1>8. QED
  BY <1>1, <1>2, <1>4, <1>5, <1>7, SendersStep

-----------------------------------------------------------------------------
(* Decisions about one mail *)

LEMMA CreateKeeps ==
  ASSUME OutboxInv, NEW s \in Sender, NEW m \in Mail, NEW msg \in Message, CreateMailIntent(s, m, msg)
  PROVE  OutboxInv'
<1>1. requests \in Nat /\ sender \in [Sender -> SenderRow] /\ copies \in [Mail -> Nat]
  BY DEF OutboxInv, OutboxTyped
<1>2. PICK new \in Nat : new = requests + 1
  BY <1>1
<1> DEFINE row == [NoRow EXCEPT !.id = new, !.state = "pending", !.msg = msg]
           snd == [Idle EXCEPT !.pc = "created", !.mail = m, !.id = new]
           count == 0
<1>3. row \in Row /\ row.state = "pending" /\ row.attempts = 0 /\ row.log = <<>>
  <2>1. row \in Row
    BY Blank DEF Row
  <2>2. row.state = "pending" /\ row.attempts = 0 /\ row.log = <<>>
    BY DEF NoRow
  <2>3. QED
    BY <2>1, <2>2
<1>4. snd \in SenderRow /\ snd.pc = "created" /\ snd.mail = m
  BY <1>1, Blank DEF SenderRow, PC
<1>5. /\ outbox' = [outbox EXCEPT ![m] = row] /\ copies' = [copies EXCEPT ![m] = count]
      /\ sender' = [sender EXCEPT ![s] = snd] /\ UNCHANGED <<erased, owed>> /\ requests' \in Nat
      /\ m \notin erased /\ outbox[m].state = "none" /\ sender[s].pc = "idle"
  BY <1>1, <1>2 DEF CreateMailIntent, SetRow, NewRequest
<1>6. count = 0 /\ count \in Nat
  OBVIOUS
<1> HIDE DEF row, snd, count
<1>7. RowKnows(row, count) /\ RowClosed(row)
  BY <1>3, <1>6, OutboxAssumption DEF RowKnows, RowClosed
<1>8. \A t \in Sender : sender[t].pc \in Attempting => sender[t].mail # m
  BY <1>5, NobodyClaims
<1>9. sender' \in [Sender -> SenderRow] /\ sender'[s] = snd
      /\ \A t \in Sender : t # s => sender'[t] = sender[t]
  BY <1>1, <1>4, <1>5
<1>10. Attends(m, row, count, sender'[s])
  BY <1>4, <1>9 DEF Attends, Attempting
<1>11. \A t \in Sender :
         \/ sender'[t] = sender[t] /\ (sender[t].pc \in Attempting => sender[t].mail # m)
         \/ t = s /\ Attends(m, row, count, sender'[t])
  BY <1>8, <1>9, <1>10
<1>12. m \in erased => row.state = "none"
  BY <1>5
<1>13. Touches(m, row, count, s)
  BY <1>5, <1>7, <1>9, <1>11, <1>12 DEF Touches
<1>14. QED
  BY <1>3, <1>6, <1>13, MailStep

LEMMA ReopenKeeps ==
  ASSUME OutboxInv, NEW s \in Sender, NEW m \in Mail, NEW msg \in Message, ReopenMailIntent(s, m, msg)
  PROVE  OutboxInv'
<1> DEFINE row == [outbox[m] EXCEPT !.state = "pending", !.msg = msg, !.attempts = 0,
                                    !.due = TRUE, !.reason = "", !.redacted = FALSE]
           snd == [Idle EXCEPT !.pc = "created", !.mail = m, !.id = outbox[m].id]
           count == IF outbox[m].state = "ambiguous" THEN 0 ELSE copies[m]
<1>1. requests \in Nat /\ sender \in [Sender -> SenderRow] /\ copies \in [Mail -> Nat]
  BY DEF OutboxInv, OutboxTyped
<1>2. /\ outbox[m] \in Row /\ copies[m] \in Nat /\ RowKnows(outbox[m], copies[m])
      /\ RowClosed(outbox[m]) /\ (m \in erased => outbox[m].state = "none")
  BY RowTypes
<1>3. /\ outbox' = [outbox EXCEPT ![m] = row] /\ copies' = [copies EXCEPT ![m] = count]
      /\ sender' = [sender EXCEPT ![s] = snd] /\ UNCHANGED <<erased, owed>> /\ requests' \in Nat
      /\ m \notin erased /\ outbox[m].state \in {"failed", "ambiguous", "held"}
  BY <1>1 DEF ReopenMailIntent, SetRow, NewRequest, Reopenable
<1>4. row \in Row /\ row.state = "pending" /\ row.attempts = 0 /\ row.log = outbox[m].log
  <2>1. 0 \in 0 .. MaxAttempts
    BY OutboxAssumption
  <2>2. QED
    BY <1>2, <2>1 DEF Row
<1>5. count = 0
  BY <1>2, <1>3 DEF RowKnows
<1>6. RowKnows(row, count) /\ RowClosed(row)
  BY <1>2, <1>3, <1>4, <1>5, OutboxAssumption DEF RowKnows, RowClosed
<1>7. snd \in SenderRow /\ snd.pc = "created" /\ snd.mail = m
  <2>1. outbox[m].id \in Nat
    BY <1>2 DEF Row
  <2>2. QED
    BY <2>1, Blank DEF SenderRow, PC
<1>8. count \in Nat
  BY <1>5
<1> HIDE DEF row, snd, count
<1>9. \A t \in Sender : sender[t].pc \in Attempting => sender[t].mail # m
  BY <1>3, NobodyClaims
<1>10. sender' \in [Sender -> SenderRow] /\ sender'[s] = snd
       /\ \A t \in Sender : t # s => sender'[t] = sender[t]
  BY <1>1, <1>3, <1>7
<1>11. Attends(m, row, count, sender'[s])
  BY <1>7, <1>10 DEF Attends, Attempting
<1>12. Touches(m, row, count, s)
  BY <1>3, <1>6, <1>9, <1>10, <1>11 DEF Touches
<1>13. QED
  BY <1>4, <1>8, <1>12, MailStep

\* What the operator decides, the passing of time and retention do to a row that
\* nobody is sending.
LEMMA RestingRow ==
  ASSUME OutboxInv, NEW m \in Mail,
         \/ \E force \in BOOLEAN : RequeueMail(m, force)
         \/ ReleaseHeldMail(m) \/ DiscardHeldMail(m) \/ BackoffElapses(m) \/ PurgeSentMail(m)
  PROVE  OutboxInv'
<1>1. /\ outbox[m] \in Row /\ copies[m] \in Nat /\ RowKnows(outbox[m], copies[m])
      /\ RowClosed(outbox[m])
  BY RowTypes
<1>2. requests \in Nat /\ copies = [copies EXCEPT ![m] = copies[m]]
  BY DEF OutboxInv, OutboxTyped
<1>3. ASSUME NEW force \in BOOLEAN, RequeueMail(m, force) PROVE OutboxInv'
  <2> DEFINE row == [outbox[m] EXCEPT !.state = "pending", !.attempts = 0, !.due = TRUE,
                                      !.phase = "none", !.reason = ""]
  <2>1. outbox[m].state \in {"ambiguous", "failed"} /\ (~force => outbox[m].state = "failed")
    BY <1>3 DEF RequeueMail
  <2>2. row \in Row /\ RowKnows(row, 0) /\ RowClosed(row)
    <3>1. row \in Row /\ row.state = "pending" /\ row.attempts = 0 /\ row.log = outbox[m].log
      <4>1. 0 \in 0 .. MaxAttempts
        BY OutboxAssumption
      <4>2. QED
        BY <1>1, <4>1 DEF Row
    <3> HIDE DEF row
    <3>2. QED
      BY <1>1, <2>1, <3>1, OutboxAssumption DEF RowKnows, RowClosed
  <2>3. copies' = [copies EXCEPT ![m] = 0]
    <3>1. CASE force
      BY <1>3, <3>1 DEF RequeueMail
    <3>2. CASE ~force
      <4>1. copies[m] = 0
        BY <1>1, <2>1, <3>2 DEF RowKnows
      <4>2. copies' = copies
        BY <1>2, <1>3, <3>2 DEF RequeueMail
      <4>3. QED
        BY <1>2, <4>1, <4>2
    <3>3. QED
      BY <3>1, <3>2
  <2>4. outbox' = [outbox EXCEPT ![m] = row] /\ UNCHANGED <<erased, owed, sender>> /\ requests' \in Nat
    BY <1>2, <1>3 DEF RequeueMail, SetRow, NewRequest
  <2>5. outbox[m].state \notin {"none", "sending"}
    BY <2>1
  <2> HIDE DEF row
  <2>6. QED
    BY <2>2, <2>3, <2>4, <2>5, RowStep
<1>4. ASSUME ReleaseHeldMail(m) PROVE OutboxInv'
  <2> DEFINE row == [outbox[m] EXCEPT !.state = "pending", !.attempts = 0, !.due = TRUE, !.reason = ""]
  <2>1. outbox[m].state = "held" /\ outbox' = [outbox EXCEPT ![m] = row]
        /\ UNCHANGED <<erased, owed, sender, copies>> /\ requests' \in Nat
    BY <1>2, <1>4 DEF ReleaseHeldMail, SetRow, NewRequest
  <2>2. row \in Row /\ RowKnows(row, copies[m]) /\ RowClosed(row)
    <3>1. row \in Row /\ row.state = "pending" /\ row.attempts = 0 /\ row.log = outbox[m].log
      <4>1. 0 \in 0 .. MaxAttempts
        BY OutboxAssumption
      <4>2. QED
        BY <1>1, <4>1 DEF Row
    <3> HIDE DEF row
    <3>2. QED
      BY <1>1, <2>1, <3>1, OutboxAssumption DEF RowKnows, RowClosed
  <2> HIDE DEF row
  <2>3. copies' = [copies EXCEPT ![m] = copies[m]]
    BY <1>2, <2>1
  <2>4. outbox[m].state \notin {"none", "sending"}
    BY <2>1
  <2>5. QED
    BY <1>1, <2>1, <2>2, <2>3, <2>4, RowStep
<1>5. ASSUME DiscardHeldMail(m) PROVE OutboxInv'
  <2> DEFINE row == [outbox[m] EXCEPT !.state = "failed", !.reason = "discarded"]
  <2>1. outbox[m].state = "held" /\ outbox' = [outbox EXCEPT ![m] = row]
        /\ UNCHANGED <<erased, owed, sender, copies>> /\ requests' \in Nat
    BY <1>2, <1>5 DEF DiscardHeldMail, SetRow
  <2>2. row \in Row /\ RowKnows(row, copies[m]) /\ RowClosed(row)
    BY <1>1, <2>1 DEF Row, RowKnows, RowClosed
  <2> HIDE DEF row
  <2>3. copies' = [copies EXCEPT ![m] = copies[m]]
    BY <1>2, <2>1
  <2>4. outbox[m].state \notin {"none", "sending"}
    BY <2>1
  <2>5. QED
    BY <1>1, <2>1, <2>2, <2>3, <2>4, RowStep
<1>6. ASSUME BackoffElapses(m) PROVE OutboxInv'
  <2> DEFINE row == [outbox[m] EXCEPT !.due = TRUE]
  <2>1. outbox[m].state = "pending" /\ outbox' = [outbox EXCEPT ![m] = row]
        /\ UNCHANGED <<erased, owed, sender, copies>> /\ requests' \in Nat
    BY <1>2, <1>6 DEF BackoffElapses, SetRow
  <2>2. row \in Row /\ RowKnows(row, copies[m]) /\ RowClosed(row)
    BY <1>1, <2>1 DEF Row, RowKnows, RowClosed
  <2> HIDE DEF row
  <2>3. copies' = [copies EXCEPT ![m] = copies[m]]
    BY <1>2, <2>1
  <2>4. outbox[m].state \notin {"none", "sending"}
    BY <2>1
  <2>5. QED
    BY <1>1, <2>1, <2>2, <2>3, <2>4, RowStep
<1>7. ASSUME PurgeSentMail(m) PROVE OutboxInv'
  <2> DEFINE redacted == [outbox[m] EXCEPT !.redacted = TRUE]
  <2>1. /\ outbox[m].state \in {"sent", "failed", "ambiguous"}
        /\ outbox' = [outbox EXCEPT ![m] = NoRow] \/ outbox' = [outbox EXCEPT ![m] = redacted]
        /\ UNCHANGED <<erased, owed, sender, copies>> /\ requests' \in Nat
    BY <1>2, <1>7 DEF PurgeSentMail, SetRow
  <2>2. redacted \in Row
        /\ RowClosed(redacted) /\ RowKnows(redacted, copies[m])
    BY <1>1, <2>1 DEF Row, RowKnows, RowClosed
  <2>3. NoRow \in Row /\ RowKnows(NoRow, copies[m]) /\ RowClosed(NoRow)
    BY <1>1, Blank DEF NoRow, RowKnows
  <2> HIDE DEF redacted
  <2>4. copies' = [copies EXCEPT ![m] = copies[m]]
    BY <1>2, <2>1
  <2>5. outbox[m].state \notin {"none", "sending"}
    BY <2>1
  <2>6. QED
    BY <1>1, <2>1, <2>2, <2>3, <2>4, <2>5, RowStep
<1>8. QED
  BY <1>3, <1>4, <1>5, <1>6, <1>7

-----------------------------------------------------------------------------
(* Delivery *)

\* The claimant of a mail writes its row and goes on, or a sender writes a row
\* that nobody is sending.
WritesAs(m, row, count, s, snd) ==
  /\ \/ sender[s].pc \in Attempting /\ sender[s].mail = m
     \/ m \notin erased /\ outbox[m].state # "sending"
  /\ outbox' = [outbox EXCEPT ![m] = row] /\ copies' = [copies EXCEPT ![m] = count]
  /\ sender' = [sender EXCEPT ![s] = snd]
  /\ UNCHANGED <<erased, owed, requests>>
  /\ RowKnows(row, count) /\ RowClosed(row) /\ (m \in erased => row.state = "none")
  /\ Attends(m, row, count, snd)

LEMMA WriteKeeps ==
  ASSUME OutboxInv, NEW s \in Sender, NEW m \in Mail, NEW row \in Row, NEW count \in Nat,
         NEW snd \in SenderRow, WritesAs(m, row, count, s, snd)
  PROVE  OutboxInv'
<1>1. requests \in Nat /\ sender \in [Sender -> SenderRow]
  BY DEF OutboxInv, OutboxTyped
<1>2. sender' \in [Sender -> SenderRow] /\ sender'[s] = snd
      /\ \A t \in Sender : t # s => sender'[t] = sender[t]
  BY <1>1 DEF WritesAs
<1>3. \A t \in Sender : t # s => (sender[t].pc \in Attempting => sender[t].mail # m)
  <2>1. CASE sender[s].pc \in Attempting /\ sender[s].mail = m
    BY <2>1 DEF OutboxInv, OneClaimant
  <2>2. CASE m \notin erased /\ outbox[m].state # "sending"
    BY <2>2, NobodyClaims
  <2>3. QED
    BY <2>1, <2>2 DEF WritesAs
<1>4. Touches(m, row, count, s)
  BY <1>1, <1>2, <1>3 DEF WritesAs, Touches
<1>5. QED
  BY <1>4, MailStep

LEMMA SenderTypes ==
  ASSUME OutboxInv, NEW s \in Sender
  PROVE  /\ sender[s] \in SenderRow /\ sender[s].seq \in Nat /\ sender[s].attempts \in 0 .. MaxAttempts
         /\ sender[s].pc # "idle" => sender[s].mail \in Mail
BY DEF OutboxInv, OutboxTyped, SenderRow

\* What the claimant of a mail can rely on.
LEMMA Claimed ==
  ASSUME OutboxInv, NEW s \in Sender, NEW m \in Mail, sender[s].mail = m, sender[s].pc \in Attempting
  PROVE  /\ SenderKnows(sender[s].pc, copies[m])
         /\ \/ m \in erased /\ outbox[m].state = "none"
            \/ m \notin erased /\ Standing(sender[s], outbox[m])
BY DEF OutboxInv, ClaimsStand, RowsKnow, Standing

LEMMA ClosedRow ==
  ASSUME NEW row \in Row, NEW new \in Row, NEW outcome \in Outcome, outcome # "sending",
         RowClosed(row), row.state = "sending", new.state # "sending",
         new.log = CloseAttempt(row.log, Len(row.log), outcome),
         new.state = "pending" => new.attempts < MaxAttempts
  PROVE  RowClosed(new)
<1>1. row.log \in Seq(Outcome)
  BY DEF Row
<1>2. \A i \in DOMAIN row.log : row.log[i] = "sending" => i = Len(row.log)
  BY DEF RowClosed
<1>3. \A i \in DOMAIN new.log : new.log[i] # "sending"
  BY <1>1, <1>2, CloseLast
<1>4. QED
  BY <1>3 DEF RowClosed

\* Before the claim: a sender reads, checks and gives up.
LEMMA ReadersKeep ==
  ASSUME OutboxInv, NEW s \in Sender,
         \/ AttemptMail(s) \/ CheckDemand(s) \/ Crash(s)
         \/ \E m \in Mail : ListDue(s, m)
  PROVE  OutboxInv'
<1>1. sender[s] \in SenderRow /\ (sender[s].pc # "idle" => sender[s].mail \in Mail)
  BY SenderTypes
<1>2. Idle \in SenderRow /\ Idle.pc = "idle" /\ Idle.pc \notin Attempting
  BY Blank DEF Idle, Attempting
<1>3. ASSUME NEW m \in Mail, NEW dueOnly \in BOOLEAN, Snapshot(s, m, dueOnly),
             UNCHANGED <<outbox, copies, erased, owed, requests>>
      PROVE  OutboxInv'
  <2> DEFINE snd == [Idle EXCEPT !.pc = "read", !.mail = m, !.id = outbox[m].id,
                                 !.msg = outbox[m].msg, !.dueOnly = dueOnly]
  <2>1. outbox[m].id \in Nat /\ outbox[m].msg \in Message \cup {Settled}
    BY RowTypes DEF Row
  <2>2. snd \in SenderRow /\ snd.pc = "read" /\ snd.mail = m
    BY <1>2, <2>1 DEF SenderRow, PC
  <2>3. sender' = [sender EXCEPT ![s] = snd]
    BY <1>3 DEF Snapshot
  <2>4. "read" \notin Attempting
    BY DEF Attempting
  <2> HIDE DEF snd
  <2>5. QED
    BY <1>3, <2>2, <2>3, <2>4, StepsBack
<1>4. ASSUME Leave(s), UNCHANGED <<outbox, copies, erased, owed, requests>> PROVE OutboxInv'
  BY <1>2, <1>4, StepsBack DEF Leave
<1>5. ASSUME AttemptMail(s) PROVE OutboxInv'
  <2>1. sender[s].mail \in Mail /\ UNCHANGED <<outbox, copies, erased, owed, requests>>
    BY <1>1, <1>5 DEF AttemptMail
  <2>2. CASE Leave(s)
    BY <1>4, <2>1, <2>2
  <2>3. CASE Snapshot(s, sender[s].mail, FALSE)
    <3>1. PICK m \in Mail : m = sender[s].mail
      BY <2>1
    <3>2. Snapshot(s, m, FALSE)
      BY <2>3, <3>1
    <3>3. QED
      BY <1>3, <2>1, <3>2
  <2>4. QED
    BY <1>5, <2>2, <2>3 DEF AttemptMail
<1>6. ASSUME NEW m \in Mail, ListDue(s, m) PROVE OutboxInv'
  BY <1>3, <1>6 DEF ListDue
<1>7. ASSUME Crash(s) PROVE OutboxInv'
  BY <1>4, <1>7 DEF Crash
<1>8. ASSUME CheckDemand(s) PROVE OutboxInv'
  <2>1. PICK pc \in {"checked", "outdated"} : Goto(s, pc)
    BY <1>8 DEF CheckDemand
  <2> DEFINE snd == [sender[s] EXCEPT !.pc = pc]
  <2>2. snd \in SenderRow /\ snd.pc = pc /\ snd.mail = sender[s].mail
    BY <1>1 DEF SenderRow, PC
  <2>3. /\ sender' = [sender EXCEPT ![s] = snd] /\ sender[s].mail \in Mail
        /\ UNCHANGED <<outbox, copies, erased, owed, requests>>
    BY <1>1, <1>8, <2>1 DEF CheckDemand, Goto
  <2>4. pc \notin Attempting
    BY DEF Attempting
  <2> HIDE DEF snd
  <2>5. QED
    BY <2>2, <2>3, <2>4, StepsBack
<1>9. QED
  BY <1>5, <1>6, <1>7, <1>8

LEMMA HoldPendingKeeps ==
  ASSUME OutboxInv, NEW s \in Sender, HoldPending(s)
  PROVE  OutboxInv'
<1>1. PICK m \in Mail : m = sender[s].mail
  BY SenderTypes DEF HoldPending
<1>2. Idle \in SenderRow /\ Idle.pc = "idle" /\ Idle.pc \notin Attempting
  BY Blank DEF Idle, Attempting
<1>3. sender' = [sender EXCEPT ![s] = Idle] /\ UNCHANGED <<copies, erased, owed, requests>>
  BY DEF HoldPending, Leave
<1>4. CASE UNCHANGED outbox
  BY <1>2, <1>3, <1>4, StepsBack
<1>5. CASE outbox[m].state = "pending" /\ Hold(m, outbox[m].log)
  <2> DEFINE row == [outbox[m] EXCEPT !.state = "held", !.reason = "stale", !.phase = "none",
                                      !.expired = FALSE, !.log = outbox[m].log]
             count == copies[m]
  <2>1. /\ outbox[m] \in Row /\ copies[m] \in Nat /\ outbox[m].log \in Seq(Outcome)
        /\ RowKnows(outbox[m], copies[m]) /\ RowClosed(outbox[m])
        /\ (m \in erased => outbox[m].state = "none")
    BY RowTypes
  <2>2. row \in Row /\ row.state = "held" /\ row.log = outbox[m].log
    BY <2>1 DEF Row
  <2>3. outbox' = [outbox EXCEPT ![m] = row] /\ copies' = [copies EXCEPT ![m] = count] /\ count \in Nat
    <3>1. copies \in [Mail -> Nat]
      BY DEF OutboxInv, OutboxTyped
    <3>2. QED
      BY <1>3, <1>5, <2>1, <3>1 DEF Hold, SetRow
  <2> HIDE DEF row
  <2>4. RowKnows(row, count) /\ RowClosed(row)
    BY <1>5, <2>1, <2>2 DEF RowKnows, RowClosed
  <2> HIDE DEF count
  <2>5. Attends(m, row, count, Idle)
    BY <1>2 DEF Attends
  <2>6. WritesAs(m, row, count, s, Idle)
    BY <1>3, <1>5, <2>1, <2>3, <2>4, <2>5 DEF WritesAs
  <2>7. QED
    BY <1>2, <2>2, <2>3, <2>6, WriteKeeps
<1>6. QED
  BY <1>1, <1>4, <1>5 DEF HoldPending

LEMMA ClaimKeeps ==
  ASSUME OutboxInv, NEW s \in Sender, Claim(s)
  PROVE  OutboxInv'
<1>1. PICK m \in Mail : m = sender[s].mail
  BY SenderTypes DEF Claim
<1>2. sender[s] \in SenderRow
  BY SenderTypes
<1>3. CASE ~Claimable(s)
  <2>1. Idle \in SenderRow /\ Idle.pc = "idle" /\ Idle.pc \notin Attempting
    BY Blank DEF Idle, Attempting
  <2>2. sender' = [sender EXCEPT ![s] = Idle] /\ UNCHANGED <<outbox, copies, erased, owed, requests>>
    BY <1>3 DEF Claim, Leave
  <2>3. QED
    BY <2>1, <2>2, StepsBack
<1>4. CASE Claimable(s)
  <2>1. /\ outbox[m] \in Row /\ copies[m] \in Nat /\ outbox[m].log \in Seq(Outcome)
        /\ RowKnows(outbox[m], copies[m]) /\ RowClosed(outbox[m])
        /\ (m \in erased => outbox[m].state = "none")
    BY RowTypes
  <2>2. outbox[m].id = sender[s].id /\ outbox[m].state = "pending" /\ outbox[m].msg = sender[s].msg
    BY <1>1, <1>4 DEF Claimable, RowOf
  <2>3. PICK attempts \in 0 .. MaxAttempts : attempts = outbox[m].attempts + 1
    <3>1. outbox[m].attempts \in 0 .. MaxAttempts /\ outbox[m].attempts < MaxAttempts
      BY <2>1, <2>2 DEF RowClosed, Row
    <3>2. QED
      BY <3>1, OutboxAssumption
  <2>4. PICK log \in Seq(Outcome) : log = Append(outbox[m].log, "sending")
    <3>1. "sending" \in Outcome
      BY DEF Outcome
    <3>2. Append(outbox[m].log, "sending") \in Seq(Outcome)
      BY <2>1, <3>1
    <3>3. QED
      BY <3>2, Zenon
  <2>5. PICK seq \in Nat : seq = Len(outbox[m].log) + 1 /\ seq = Len(log)
    BY <2>1, <2>4
  <2> DEFINE row == [outbox[m] EXCEPT !.state = "sending", !.attempts = attempts, !.due = FALSE,
                                      !.phase = "claimed", !.expired = FALSE, !.log = log]
             snd == [sender[s] EXCEPT !.pc = "claimed", !.attempts = attempts, !.seq = seq]
             count == copies[m]
  <2>6. /\ row \in Row /\ row.state = "sending" /\ row.attempts = attempts /\ row.phase = "claimed"
        /\ row.expired = FALSE /\ row.log = log /\ row.id = outbox[m].id /\ row.msg = outbox[m].msg
    BY <2>1 DEF Row
  <2>7. /\ snd \in SenderRow /\ snd.pc = "claimed" /\ snd.attempts = attempts /\ snd.seq = seq
        /\ snd.mail = sender[s].mail /\ snd.id = sender[s].id /\ snd.msg = sender[s].msg
    BY <1>2 DEF SenderRow, PC, Attempting
  <2>8. /\ outbox' = [outbox EXCEPT ![m] = row] /\ sender' = [sender EXCEPT ![s] = snd]
        /\ UNCHANGED <<copies, erased, owed, requests>>
    BY <1>1, <1>4, <2>3, <2>4, <2>5 DEF Claim, SetRow
  <2>9. copies' = [copies EXCEPT ![m] = count] /\ count \in Nat /\ count = 0
    <3>1. copies \in [Mail -> Nat]
      BY DEF OutboxInv, OutboxTyped
    <3>2. QED
      BY <2>1, <2>2, <2>8, <3>1 DEF RowKnows
  <2> HIDE DEF row, snd, count
  <2>10. \A i \in DOMAIN log : log[i] = "sending" <=> i = Len(log)
    <3>1. \A i \in DOMAIN outbox[m].log : outbox[m].log[i] # "sending"
      BY <2>1, <2>2 DEF RowClosed
    <3>2. QED
      BY <2>1, <2>4, <3>1
  <2>11. RowKnows(row, count) /\ RowClosed(row)
    BY <2>6, <2>9, <2>10 DEF RowKnows, RowClosed
  <2>12. Attends(m, row, count, snd)
    BY <1>1, <2>2, <2>5, <2>6, <2>7, <2>9 DEF Attends, SenderKnows, Standing
  <2>13. WritesAs(m, row, count, s, snd)
    BY <2>1, <2>2, <2>8, <2>9, <2>11, <2>12 DEF WritesAs
  <2>14. QED
    BY <2>6, <2>7, <2>9, <2>13, WriteKeeps
<1>5. QED
  BY <1>3, <1>4

\* A claimant whose row is gone, or no longer its own to write, just leaves.
LEMMA LeavesEmpty ==
  ASSUME OutboxInv, NEW s \in Sender, Leave(s), UNCHANGED <<outbox, copies, erased, owed, requests>>
  PROVE  OutboxInv'
<1>1. Idle \in SenderRow /\ Idle.pc = "idle" /\ Idle.pc \notin Attempting
  BY Blank DEF Idle, Attempting
<1>2. QED
  BY <1>1, StepsBack DEF Leave

\* The claimant closes its attempt and leaves.
LEMMA AttemptEnds ==
  ASSUME OutboxInv, NEW s \in Sender, NEW m \in Mail, sender[s].mail = m, sender[s].pc \in Attempting,
         StillSending(s), NEW row, NEW outcome \in Outcome, outcome # "sending",
         row.state \notin {"none", "sending"}, outbox' = [outbox EXCEPT ![m] = row],
         row.log = CloseAttempt(outbox[m].log, sender[s].seq, outcome),
         row.log \in Seq(Outcome) => row \in Row,
         row.state = "pending" => row.attempts < MaxAttempts,
         row.state \in {"pending", "failed", "held"} => copies[m] = 0,
         row.state = "sent" => copies[m] = 1,
         Leave(s), UNCHANGED <<copies, erased, owed, requests>>
  PROVE  OutboxInv'
<1>1. /\ outbox[m] \in Row /\ copies[m] \in Nat /\ outbox[m].log \in Seq(Outcome)
      /\ RowKnows(outbox[m], copies[m]) /\ RowClosed(outbox[m])
  BY RowTypes
<1>2. m \notin erased /\ sender[s].seq = Len(outbox[m].log) /\ outbox[m].state = "sending"
  BY Claimed DEF StillSending, RowOf, Standing
<1>3. row \in Row
  BY <1>1, <1>2, CloseKeeps
<1>4. RowClosed(row)
  BY <1>1, <1>2, <1>3, ClosedRow
<1>5. RowKnows(row, copies[m])
  BY <1>1 DEF RowKnows
<1>6. QED
  BY <1>2, <1>3, <1>4, <1>5, ClaimantLeaves

LEMMA StillMyClaimSends ==
  ASSUME NEW s \in Sender, StillMyClaim(s)
  PROVE  StillSending(s)
BY DEF StillMyClaim

LEMMA BeforeDataKeeps ==
  ASSUME OutboxInv, NEW s \in Sender, DialogFails(s) \/ ConfirmDemand(s) \/ StartData(s)
  PROVE  OutboxInv'
<1>1. PICK m \in Mail : m = sender[s].mail
  BY SenderTypes DEF DialogFails, ConfirmDemand, StartData
<1>2. sender[s].pc \in {"claimed", "confirmed"} /\ sender[s].pc \in Attempting
      /\ UNCHANGED <<copies, erased, owed, requests>>
  BY DEF DialogFails, ConfirmDemand, StartData, Attempting
<1>3. SenderKnows(sender[s].pc, copies[m]) /\ copies[m] = 0
  BY <1>1, <1>2, Claimed DEF SenderKnows
<1>4. ASSUME NEW pc \in {"rejected", "confirmed", "stale"}, Goto(s, pc), UNCHANGED outbox
      PROVE  OutboxInv'
  <2>1. pc \in Attempting /\ SenderKnows(pc, copies[sender[s].mail])
    BY <1>1, <1>3 DEF SenderKnows, Attempting
  <2>2. QED
    BY <1>2, <1>4, <2>1, GoesOn
<1>5. CASE DialogFails(s)
  BY <1>4, <1>5 DEF DialogFails
<1>6. CASE ConfirmDemand(s)
  <2>1. PICK pc \in {"rejected", "confirmed", "stale"} : Goto(s, pc)
    BY <1>6 DEF ConfirmDemand
  <2>2. QED
    BY <1>4, <1>6, <2>1 DEF ConfirmDemand
<1>7. CASE StartData(s) /\ ~StillMyClaim(s)
  BY <1>4, <1>7 DEF StartData
<1>8. CASE StartData(s) /\ StillMyClaim(s)
  <2> DEFINE row == [outbox[m] EXCEPT !.phase = "data"]
             snd == [sender[s] EXCEPT !.pc = "data"]
             count == copies[m]
  <2>1. /\ outbox[m] \in Row /\ copies[m] \in Nat /\ outbox[m].log \in Seq(Outcome)
        /\ RowKnows(outbox[m], copies[m]) /\ RowClosed(outbox[m])
    BY RowTypes
  <2>2. outbox[m].state = "sending" /\ m \notin erased /\ Standing(sender[s], outbox[m])
    BY <1>1, <1>2, <1>8, Claimed DEF StillMyClaim, StillSending, RowOf
  <2>3. /\ row \in Row /\ row.state = "sending" /\ row.phase = "data" /\ row.log = outbox[m].log
        /\ row.attempts = outbox[m].attempts /\ row.expired = outbox[m].expired
        /\ row.id = outbox[m].id /\ row.msg = outbox[m].msg
    BY <2>1, <2>2 DEF Row
  <2>4. sender[s] \in SenderRow
    BY SenderTypes
  <2>5. /\ snd \in SenderRow /\ snd.pc = "data" /\ snd.attempts = sender[s].attempts
        /\ snd.seq = sender[s].seq /\ snd.mail = m /\ snd.id = sender[s].id /\ snd.msg = sender[s].msg
    BY <1>1, <2>4 DEF SenderRow, PC, Attempting
  <2>6. outbox' = [outbox EXCEPT ![m] = row] /\ sender' = [sender EXCEPT ![s] = snd]
    BY <1>1, <1>8 DEF StartData, SetRow, Goto
  <2>7. copies' = [copies EXCEPT ![m] = count] /\ count \in Nat /\ count = 0
    <3>1. copies \in [Mail -> Nat]
      BY DEF OutboxInv, OutboxTyped
    <3>2. QED
      BY <1>2, <1>3, <2>1, <3>1
  <2> HIDE DEF row, snd, count
  <2>8. RowKnows(row, count) /\ RowClosed(row)
    BY <2>1, <2>2, <2>3, <2>7 DEF RowKnows, RowClosed
  <2>9. Attends(m, row, count, snd)
    BY <2>2, <2>3, <2>5, <2>7 DEF Attends, SenderKnows, Standing
  <2>10. WritesAs(m, row, count, s, snd)
    BY <1>1, <1>2, <2>2, <2>6, <2>7, <2>8, <2>9 DEF WritesAs
  <2>11. QED
    BY <2>3, <2>5, <2>7, <2>10, WriteKeeps
<1>9. QED
  BY <1>5, <1>6, <1>7, <1>8

LEMMA TransmitKeeps ==
  ASSUME OutboxInv, NEW s \in Sender, NEW outcome \in {"accepted", "rejected", "unknown"},
         Transmit(s, outcome)
  PROVE  OutboxInv'
<1>1. PICK m \in Mail : m = sender[s].mail
  BY SenderTypes DEF Transmit
<1>2. sender[s].pc = "data" /\ sender[s].pc \in Attempting /\ UNCHANGED <<outbox, erased, owed, requests>>
  BY DEF Transmit, Attempting
<1>3. SenderKnows("data", copies[m]) /\ copies[m] = 0
  BY <1>1, <1>2, Claimed DEF SenderKnows
<1>4. \/ m \in erased /\ outbox[m].state = "none"
      \/ m \notin erased /\ Standing(sender[s], outbox[m])
  BY <1>1, <1>2, Claimed
<1>5. /\ outbox[m] \in Row /\ RowKnows(outbox[m], copies[m]) /\ RowClosed(outbox[m])
      /\ outbox \in [Mail -> Row] /\ copies \in [Mail -> Nat]
  BY RowTypes DEF OutboxInv, OutboxTyped
<1>6. PICK count \in {0, 1} : /\ copies' = [copies EXCEPT ![m] = count]
                              /\ outcome = "accepted" => count = 1
                              /\ outcome = "rejected" => count = 0
  <2>1. PICK accepted \in {0, 1} : /\ copies' = [copies EXCEPT ![sender[s].mail] = @ + accepted]
                                   /\ outcome = "accepted" => accepted = 1
                                   /\ outcome = "rejected" => accepted = 0
    BY DEF Transmit
  <2>2. copies[m] + accepted = accepted
    BY <1>3
  <2>3. QED
    BY <1>1, <1>5, <2>1, <2>2
<1> DEFINE row == outbox[m]
           snd == [sender[s] EXCEPT !.pc = outcome]
<1>7. sender[s] \in SenderRow
  BY SenderTypes
<1>8. /\ snd \in SenderRow /\ snd.pc = outcome /\ snd.attempts = sender[s].attempts
      /\ snd.seq = sender[s].seq /\ snd.mail = m /\ snd.id = sender[s].id /\ snd.msg = sender[s].msg
  BY <1>1, <1>7 DEF SenderRow, PC, Attempting
<1>9. outbox' = [outbox EXCEPT ![m] = row] /\ sender' = [sender EXCEPT ![s] = snd]
  BY <1>1, <1>2, <1>5 DEF Transmit, Goto
<1> HIDE DEF snd
<1>10. RowKnows(row, count) /\ RowClosed(row)
  BY <1>2, <1>4, <1>5 DEF RowKnows, Standing
<1>11. Attends(m, row, count, snd)
  BY <1>2, <1>4, <1>6, <1>8 DEF Attends, SenderKnows, Standing
<1> DEFINE number == count
<1>12. number \in Nat /\ number = count
  OBVIOUS
<1> HIDE DEF row, number
<1>13. WritesAs(m, row, number, s, snd)
  BY <1>1, <1>2, <1>4, <1>6, <1>9, <1>10, <1>11, <1>12 DEF WritesAs, row
<1>14. row \in Row
  BY <1>5 DEF row
<1>15. QED
  BY <1>8, <1>12, <1>13, <1>14, WriteKeeps

LEMMA SettlementKeeps ==
  ASSUME OutboxInv, NEW s \in Sender,
         HoldSending(s) \/ SettleDelivered(s) \/ MarkMailAmbiguous(s) \/ SettleRejected(s)
  PROVE  OutboxInv'
<1>1. PICK m \in Mail : m = sender[s].mail
  BY SenderTypes DEF HoldSending, SettleDelivered, MarkMailAmbiguous, SettleRejected
<1>2. sender[s].pc \in {"stale", "accepted", "unknown", "rejected"} /\ sender[s].pc \in Attempting
      /\ UNCHANGED <<copies, erased, owed, requests>>
  BY DEF HoldSending, SettleDelivered, MarkMailAmbiguous, SettleRejected, Attempting
<1>3. /\ outbox[m] \in Row /\ copies[m] \in Nat /\ outbox[m].log \in Seq(Outcome)
      /\ RowKnows(outbox[m], copies[m]) /\ RowClosed(outbox[m])
      /\ (m \in erased => outbox[m].state = "none")
  BY RowTypes
<1>4. SenderKnows(sender[s].pc, copies[m])
  BY <1>1, <1>2, Claimed
<1>5. CASE HoldSending(s)
  <2>1. CASE ~StillMyClaim(s)
    BY <1>2, <1>5, <2>1, LeavesEmpty DEF HoldSending
  <2>2. CASE StillMyClaim(s)
    <3> DEFINE closed == CloseAttempt(outbox[m].log, sender[s].seq, "failed")
               row == [outbox[m] EXCEPT !.state = "held", !.reason = "stale", !.phase = "none",
                                        !.expired = FALSE, !.log = closed]
    <3>1. /\ outbox' = [outbox EXCEPT ![m] = row] /\ Leave(s) /\ copies[m] = 0
      BY <1>1, <1>4, <1>5, <2>2 DEF HoldSending, Hold, SetRow, SenderKnows
    <3>2. /\ row.state = "held" /\ row.log = closed /\ (row.log \in Seq(Outcome) => row \in Row)
      BY <1>3 DEF Row
    <3>3. "failed" \in Outcome /\ StillSending(s)
      BY <2>2 DEF Outcome, StillMyClaim
    <3> HIDE DEF row
    <3>4. QED
      BY <1>1, <1>2, <3>1, <3>2, <3>3, AttemptEnds
  <2>3. QED
    BY <2>1, <2>2
<1>6. CASE SettleDelivered(s)
  <2>1. CASE UNCHANGED outbox /\ Goto(s, "unknown")
    <3>1. "unknown" \in Attempting /\ SenderKnows("unknown", copies[sender[s].mail])
      BY DEF Attempting, SenderKnows
    <3>2. sender[s].pc = "accepted"
      BY <1>6 DEF SettleDelivered
    <3>3. QED
      BY <1>2, <2>1, <3>1, <3>2, GoesOn
  <2>2. CASE StillSending(s) /\ Leave(s)
             /\ SetRow(m, [outbox[m] EXCEPT !.state = "sent", !.expired = FALSE, !.reason = "",
                                            !.log = CloseAttempt(@, sender[s].seq, "sent")])
    <3> DEFINE closed == CloseAttempt(outbox[m].log, sender[s].seq, "sent")
               row == [outbox[m] EXCEPT !.state = "sent", !.expired = FALSE, !.reason = "",
                                        !.log = closed]
    <3>1. outbox' = [outbox EXCEPT ![m] = row] /\ copies[m] = 1
      BY <1>3, <1>4, <1>6, <2>2 DEF SettleDelivered, SetRow, SenderKnows, Row
    <3>2. /\ row.state = "sent" /\ row.log = closed /\ (row.log \in Seq(Outcome) => row \in Row)
      BY <1>3 DEF Row
    <3>3. "sent" \in Outcome
      BY DEF Outcome
    <3> HIDE DEF row
    <3>4. QED
      BY <1>1, <1>2, <2>2, <3>1, <3>2, <3>3, AttemptEnds
  <2>3. QED
    BY <1>1, <1>6, <2>1, <2>2 DEF SettleDelivered
<1>7. CASE MarkMailAmbiguous(s)
  <2>1. CASE ~StillSending(s)
    BY <1>2, <1>7, <2>1, LeavesEmpty DEF MarkMailAmbiguous
  <2>2. CASE StillSending(s)
    <3> DEFINE closed == CloseAttempt(outbox[m].log, sender[s].seq, "ambiguous")
               row == [outbox[m] EXCEPT !.state = "ambiguous", !.expired = FALSE, !.log = closed]
    <3>1. outbox' = [outbox EXCEPT ![m] = row] /\ Leave(s)
      BY <1>1, <1>3, <1>7, <2>2 DEF MarkMailAmbiguous, SetRow, Row
    <3>2. /\ row.state = "ambiguous" /\ row.log = closed /\ (row.log \in Seq(Outcome) => row \in Row)
      BY <1>3 DEF Row
    <3>3. "ambiguous" \in Outcome
      BY DEF Outcome
    <3> HIDE DEF row
    <3>4. QED
      BY <1>1, <1>2, <2>2, <3>1, <3>2, <3>3, AttemptEnds
  <2>3. QED
    BY <2>1, <2>2
<1>8. CASE SettleRejected(s)
  <2> DEFINE outcome == RejectionOutcome(sender[s].attempts)
             state == AfterRejection(sender[s].attempts)
             closed == CloseAttempt(outbox[m].log, sender[s].seq, outcome)
  <2>1. /\ outcome \in {"failed", "retry"} /\ state \in {"failed", "pending"}
        /\ (state = "pending" => sender[s].attempts < MaxAttempts)
    <3>1. sender[s].attempts \in 0 .. MaxAttempts
      BY SenderTypes
    <3>2. QED
      BY <3>1, OutboxAssumption DEF RejectionOutcome, AfterRejection
  <2>2. outcome \in Outcome /\ outcome # "sending" /\ sender[s].pc = "rejected" /\ copies[m] = 0
    BY <1>4, <1>8, <2>1 DEF Outcome, SettleRejected, SenderKnows
  <2>3. CASE StillSending(s)
    <3> DEFINE row == [outbox[m] EXCEPT !.state = state, !.expired = FALSE, !.log = closed]
    <3>1. outbox' = [outbox EXCEPT ![m] = row] /\ Leave(s)
      BY <1>1, <1>8, <2>3 DEF SettleRejected, SetRow
    <3> HIDE DEF state, outcome
    <3>2. /\ row.state = state /\ row.log = closed /\ (row.log \in Seq(Outcome) => row \in Row)
          /\ row.attempts = outbox[m].attempts
      BY <1>3, <2>1 DEF Row
    <3>3. outbox[m].attempts = sender[s].attempts
      BY <1>1, <1>2, <2>3, Claimed DEF Standing, StillSending, RowOf
    <3> HIDE DEF row
    <3>4. QED
      BY <1>1, <1>2, <2>1, <2>2, <2>3, <3>1, <3>2, <3>3, AttemptEnds
  <2>4. CASE ~StillSending(s) /\ UNCHANGED outbox
    BY <1>2, <1>8, <2>4, LeavesEmpty DEF SettleRejected
  <2>5. CASE ~StillSending(s) /\ SetRow(m, [outbox[m] EXCEPT !.log = closed])
    <3> DEFINE row == [outbox[m] EXCEPT !.log = closed]
    <3>1. outbox[m].state = "none" /\ m \in erased
      BY <1>1, <1>2, <2>5, Claimed DEF Standing, StillSending, RowOf
    <3>2. \A i \in DOMAIN outbox[m].log : outbox[m].log[i] # "sending"
      BY <1>3, <3>1 DEF RowClosed
    <3> HIDE DEF outcome
    <3>3. closed = outbox[m].log
      BY <3>2 DEF CloseAttempt
    <3>4. row = outbox[m]
      BY <1>3, <3>3 DEF Row
    <3>5. outbox' = outbox
      <4>1. outbox \in [Mail -> Row]
        BY DEF OutboxInv, OutboxTyped
      <4>2. QED
        BY <2>5, <3>4, <4>1 DEF SetRow
    <3>6. QED
      BY <1>2, <1>8, <3>5, LeavesEmpty DEF SettleRejected
  <2>6. QED
    BY <1>1, <1>8, <2>3, <2>4, <2>5 DEF SettleRejected
<1>9. QED
  BY <1>5, <1>6, <1>7, <1>8

-----------------------------------------------------------------------------
(* Time, the sweep, erasure *)

LEMMA ClaimExpiresKeeps ==
  ASSUME OutboxInv, NEW m \in Mail, ClaimExpires(m)
  PROVE  OutboxInv'
<1> DEFINE row == [outbox[m] EXCEPT !.expired = TRUE]
           count == copies[m]
<1>1. /\ outbox[m] \in Row /\ copies[m] \in Nat /\ RowKnows(outbox[m], copies[m])
      /\ RowClosed(outbox[m]) /\ (m \in erased => outbox[m].state = "none")
  BY RowTypes
<1>2. outbox[m].state = "sending" /\ m \notin erased
  BY <1>1 DEF ClaimExpires
<1>3. \A t \in Sender : sender[t].pc \in Attempting => sender[t].mail # m
  <2>1. SUFFICES ASSUME NEW t \in Sender, sender[t].pc \in Attempting, sender[t].mail = m PROVE FALSE
    OBVIOUS
  <2>2. Standing(sender[t], outbox[m]) /\ sender[t].pc # "idle"
    BY <1>2, <2>1, Claimed DEF Attempting
  <2>3. QED
    BY <2>2 DEF ClaimExpires, Standing
<1>4. /\ row \in Row /\ row.state = outbox[m].state /\ row.phase = outbox[m].phase
      /\ row.log = outbox[m].log /\ row.attempts = outbox[m].attempts
  BY <1>1 DEF Row
<1>5. /\ outbox' = [outbox EXCEPT ![m] = row] /\ UNCHANGED <<sender, owed, erased, copies, requests>>
  BY DEF ClaimExpires, SetRow
<1>6. /\ sender \in [Sender -> SenderRow] /\ requests \in Nat /\ copies \in [Mail -> Nat]
  BY DEF OutboxInv, OutboxTyped
<1>7. copies' = [copies EXCEPT ![m] = count] /\ count \in Nat
  BY <1>1, <1>5, <1>6
<1> HIDE DEF row
<1>8. RowKnows(row, count) /\ RowClosed(row)
  BY <1>1, <1>4 DEF RowKnows, RowClosed
<1> HIDE DEF count
<1>9. Touches(m, row, count, m)
  BY <1>2, <1>3, <1>5, <1>6, <1>7, <1>8 DEF Touches
<1>10. QED
  BY <1>4, <1>7, <1>9, MailStep

\* The sweep: rows whose claim is stale are closed; nobody is sending those.
LEMMA SweepStep ==
  ASSUME OutboxInv, NEW swept \in [Mail -> Row],
         \A m \in Mail : \/ swept[m] = outbox[m]
                         \/ /\ outbox[m].state = "sending" /\ outbox[m].expired
                            /\ RowKnows(swept[m], copies[m]) /\ RowClosed(swept[m]),
         outbox' = swept, UNCHANGED <<sender, owed, erased, copies, requests>>
  PROVE  OutboxInv'
<1>1. OutboxTyped'
  BY DEF OutboxInv, OutboxTyped
<1>2. ClaimsStand'
  <2>1. SUFFICES ASSUME NEW s \in Sender, sender[s].pc \in Attempting
                 PROVE  /\ sender[s].mail \in erased \/ Standing(sender[s], swept[sender[s].mail])
                        /\ SenderKnows(sender[s].pc, copies[sender[s].mail])
    BY DEF ClaimsStand
  <2>2. PICK m \in Mail : m = sender[s].mail
    BY <2>1, SenderTypes DEF Attempting
  <2>3. SenderKnows(sender[s].pc, copies[m]) /\ (m \in erased \/ Standing(sender[s], outbox[m]))
    BY <2>1, <2>2, Claimed
  <2>4. swept[m] = outbox[m] \/ m \in erased
    BY <2>3 DEF Standing
  <2>5. QED
    BY <2>2, <2>3, <2>4
<1>3. OneClaimant'
  BY DEF OutboxInv, OneClaimant
<1>4. RowsKnow'
  BY DEF OutboxInv, RowsKnow
<1>5. QED
  BY <1>1, <1>2, <1>3, <1>4 DEF OutboxInv

LEMMA SweptRow ==
  ASSUME NEW row \in Row, row.state = "sending", RowClosed(row),
         NEW state \in {"pending", "failed", "ambiguous"}, NEW outcome \in Outcome, outcome # "sending",
         NEW due \in BOOLEAN, NEW new, new = Swept(row, state, outcome, due),
         state = "pending" => row.attempts < MaxAttempts
  PROVE  /\ new \in Row /\ new.state = state /\ new.attempts = row.attempts
         /\ RowClosed(new)
<1> DEFINE closed == CloseAttempt(row.log, Len(row.log), outcome)
<1>1. row.log \in Seq(Outcome)
  BY DEF Row
<1>2. closed \in Seq(Outcome)
  BY <1>1, CloseKeeps
<1>3. new = [row EXCEPT !.state = state, !.expired = FALSE, !.due = due, !.log = closed]
  BY DEF Swept, Row
<1> HIDE DEF closed
<1>4. new \in Row /\ new.state = state /\ new.attempts = row.attempts /\ new.log = closed
  BY <1>2, <1>3 DEF Row
<1>5. RowClosed(new)
  BY <1>4, ClosedRow DEF closed
<1>6. QED
  BY <1>4, <1>5

LEMMA SweepKeeps ==
  ASSUME OutboxInv, SweepBeforeData \/ SweepUnclear
  PROVE  OutboxInv'
<1>1. CASE SweepBeforeData
  <2> DEFINE Requeued(row) == [Swept(row, AfterRejection(row.attempts),
                                     RejectionOutcome(row.attempts), TRUE) EXCEPT !.phase = "none"]
             swept == [m \in Mail |-> IF StaleBeforeData(m) THEN Requeued(outbox[m]) ELSE outbox[m]]
  <2>1. ASSUME NEW m \in Mail, StaleBeforeData(m)
        PROVE  /\ Requeued(outbox[m]) \in Row /\ RowKnows(Requeued(outbox[m]), copies[m])
               /\ RowClosed(Requeued(outbox[m])) /\ outbox[m].state = "sending" /\ outbox[m].expired
    <3> DEFINE state == AfterRejection(outbox[m].attempts)
               outcome == RejectionOutcome(outbox[m].attempts)
               new == Swept(outbox[m], state, outcome, TRUE)
    <3>1. /\ outbox[m] \in Row /\ copies[m] \in Nat /\ RowKnows(outbox[m], copies[m])
          /\ RowClosed(outbox[m])
      BY RowTypes
    <3>2. outbox[m].state = "sending" /\ outbox[m].expired /\ copies[m] = 0
      BY <2>1, <3>1 DEF StaleBeforeData, RowKnows
    <3>3. /\ outcome \in {"failed", "retry"} /\ state \in {"failed", "pending"}
          /\ (state = "pending" => outbox[m].attempts < MaxAttempts)
      <4>1. outbox[m].attempts \in 0 .. MaxAttempts
        BY <3>1 DEF Row
      <4>2. QED
        BY <4>1, OutboxAssumption DEF RejectionOutcome, AfterRejection
    <3> HIDE DEF state, outcome
    <3>4. outcome \in Outcome /\ outcome # "sending"
      BY <3>3 DEF Outcome
    <3>5. new \in Row /\ new.state = state /\ new.attempts = outbox[m].attempts /\ RowClosed(new)
      <4> DEFINE due == TRUE
      <4>1. new = Swept(outbox[m], state, outcome, due) /\ due \in BOOLEAN
        OBVIOUS
      <4>2. state \in {"pending", "failed", "ambiguous"}
        BY <3>3
      <4> HIDE DEF new, due
      <4>3. QED
        BY <3>1, <3>2, <3>3, <3>4, <4>1, <4>2, SweptRow
    <3> DEFINE back == [new EXCEPT !.phase = "none"]
    <3> HIDE DEF new
    <3>6. /\ back \in Row /\ back.state = state /\ back.attempts = new.attempts /\ back.log = new.log
      BY <3>5 DEF Row
    <3> HIDE DEF back
    <3>7. RowKnows(back, copies[m]) /\ RowClosed(back)
      BY <3>2, <3>3, <3>5, <3>6 DEF RowKnows, RowClosed
    <3>8. Requeued(outbox[m]) = back
      BY DEF back, new, state, outcome
    <3> HIDE DEF Requeued
    <3>9. QED
      BY <3>2, <3>6, <3>7, <3>8
  <2> HIDE DEF Requeued
  <2>2. swept \in [Mail -> Row]
    BY <2>1, RowTypes
  <2>3. outbox' = swept /\ UNCHANGED <<sender, owed, erased, copies, requests>>
    BY <1>1 DEF SweepBeforeData, Requeued
  <2>4. \A m \in Mail : \/ swept[m] = outbox[m]
                        \/ /\ outbox[m].state = "sending" /\ outbox[m].expired
                           /\ RowKnows(swept[m], copies[m]) /\ RowClosed(swept[m])
    BY <2>1
  <2> HIDE DEF swept
  <2>5. QED
    BY <2>2, <2>3, <2>4, SweepStep
<1>2. CASE SweepUnclear
  <2> DEFINE Parked(row) == Swept(row, "ambiguous", "ambiguous", row.due)
             swept == [m \in Mail |-> IF Unclear(m) THEN Parked(outbox[m]) ELSE outbox[m]]
  <2>1. ASSUME NEW m \in Mail, Unclear(m)
        PROVE  /\ Parked(outbox[m]) \in Row /\ RowKnows(Parked(outbox[m]), copies[m])
               /\ RowClosed(Parked(outbox[m])) /\ outbox[m].state = "sending" /\ outbox[m].expired
    <3>1. /\ outbox[m] \in Row /\ copies[m] \in Nat /\ RowKnows(outbox[m], copies[m])
          /\ RowClosed(outbox[m]) /\ outbox[m].due \in BOOLEAN
      BY RowTypes DEF Row
    <3>2. outbox[m].state = "sending" /\ outbox[m].expired
      BY <2>1 DEF Unclear
    <3>3. "ambiguous" \in Outcome
      BY DEF Outcome
    <3> DEFINE new == Parked(outbox[m])
    <3>4. new = Swept(outbox[m], "ambiguous", "ambiguous", outbox[m].due)
      OBVIOUS
    <3> HIDE DEF new
    <3>5. new \in Row /\ new.state = "ambiguous" /\ RowClosed(new)
      BY <3>1, <3>2, <3>3, <3>4, SweptRow
    <3>6. RowKnows(new, copies[m])
      BY <3>1, <3>5 DEF RowKnows
    <3>7. QED
      BY <3>2, <3>5, <3>6 DEF new
  <2> HIDE DEF Parked
  <2>2. swept \in [Mail -> Row]
    BY <2>1, RowTypes
  <2>3. outbox' = swept /\ UNCHANGED <<sender, owed, erased, copies, requests>>
    BY <1>2 DEF SweepUnclear, Parked
  <2>4. \A m \in Mail : \/ swept[m] = outbox[m]
                        \/ /\ outbox[m].state = "sending" /\ outbox[m].expired
                           /\ RowKnows(swept[m], copies[m]) /\ RowClosed(swept[m])
    BY <2>1
  <2> HIDE DEF swept
  <2>5. QED
    BY <2>2, <2>3, <2>4, SweepStep
<1>3. QED
  BY <1>1, <1>2

LEMMA EraseKeeps ==
  ASSUME OutboxInv, NEW m \in Mail, EraseNeighbor(m)
  PROVE  OutboxInv'
<1>1. /\ outbox' = [outbox EXCEPT ![m] = NoRow] /\ erased' = erased \cup {m}
      /\ UNCHANGED <<sender, owed, copies, requests>>
  BY DEF EraseNeighbor, SetRow
<1>2. OutboxTyped'
  BY <1>1, Blank DEF OutboxInv, OutboxTyped
<1>3. outbox \in [Mail -> Row] /\ copies \in [Mail -> Nat]
  BY DEF OutboxInv, OutboxTyped
<1>4. outbox'[m] = NoRow /\ \A k \in Mail : k # m => outbox'[k] = outbox[k]
  BY <1>1, <1>3
<1>5. ClaimsStand'
  <2>1. SUFFICES ASSUME NEW s \in Sender, sender[s].pc \in Attempting
                 PROVE  /\ sender[s].mail \in erased' \/ Standing(sender[s], outbox'[sender[s].mail])
                        /\ SenderKnows(sender[s].pc, copies[sender[s].mail])
    BY <1>1 DEF ClaimsStand
  <2>2. sender[s].mail \in Mail
    BY <2>1, SenderTypes DEF Attempting
  <2>3. QED
    BY <1>1, <1>4, <2>1, <2>2 DEF OutboxInv, ClaimsStand
<1>6. OneClaimant'
  BY <1>1 DEF OutboxInv, OneClaimant
<1>7. RowsKnow'
  <2>1. RowKnows(NoRow, copies[m]) /\ RowClosed(NoRow) /\ NoRow.state = "none"
    BY RowTypes, Blank DEF NoRow, RowKnows
  <2>2. QED
    BY <1>1, <1>4, <2>1 DEF OutboxInv, RowsKnow
<1>8. QED
  BY <1>2, <1>5, <1>6, <1>7 DEF OutboxInv

LEMMA DemandKeeps ==
  ASSUME OutboxInv, NEW m \in Mail, NEW amount \in Message \cup {Settled}, DemandChanges(m, amount)
  PROVE  OutboxInv'
<1>1. /\ owed' \in [Mail -> Message \cup {Settled}]
      /\ UNCHANGED <<outbox, sender, erased, copies, requests>>
  BY DEF OutboxInv, OutboxTyped, DemandChanges
<1>2. sender' \in [Sender -> SenderRow]
  BY <1>1 DEF OutboxInv, OutboxTyped
<1>3. QED
  BY <1>1, <1>2, SendersStep

-----------------------------------------------------------------------------
(* The invariant, and what it says of the mails in the world *)

LEMMA OutboxInit == Init => OutboxInv
<1>1. SUFFICES ASSUME Init PROVE OutboxInv
  OBVIOUS
<1>2. /\ \A m \in Mail : outbox[m] = NoRow /\ copies[m] = 0
      /\ \A s \in Sender : sender[s] = Idle
      /\ erased = {}
  BY <1>1 DEF Init
<1>3. OutboxTyped
  <2>1. Idle.pc = "idle"
    BY DEF Idle
  <2>2. QED
    BY <1>1, <1>2, <2>1, Blank DEF Init, OutboxTyped
<1>4. ClaimsStand /\ OneClaimant
  <2>1. Idle.pc \notin Attempting
    BY DEF Idle, Attempting
  <2>2. QED
    BY <1>2, <2>1 DEF ClaimsStand, OneClaimant
<1>5. RowsKnow
  BY <1>2, Blank DEF RowsKnow
<1>6. QED
  BY <1>3, <1>4, <1>5 DEF OutboxInv

\* What an operator asks for creates an intent or reopens one.
LEMMA RequestsOutbox ==
  ASSUME NEW m \in Mail, RequestMail(m)
  PROVE  \E s \in Sender, msg \in Message :
           CreateMailIntent(s, m, msg) \/ ReopenMailIntent(s, m, msg)
BY DEF RequestMail, HandleMahnungEmail, HandleMahnwesenBatchEmail, DeliverMahnung, Demands,
       HandleBelegEmail, HandleNeighborOverviewEmail

LEMMA OutboxNext == OutboxInv /\ [Next]_vars => OutboxInv'
<1>1. SUFFICES ASSUME OutboxInv, [Next]_vars PROVE OutboxInv'
  OBVIOUS
<1>2. ASSUME NEW s \in Sender, Deliver(s) \/ Crash(s) \/ \E m \in Mail : ListDue(s, m)
      PROVE  OutboxInv'
  BY <1>1, <1>2, ReadersKeep, HoldPendingKeeps, ClaimKeeps, BeforeDataKeeps, TransmitKeeps,
     SettlementKeeps DEF Deliver
<1>3. ASSUME NEW m \in Mail, Decide(m) PROVE OutboxInv'
  <2>1. CASE RequestMail(m)
    BY <1>1, <2>1, RequestsOutbox, CreateKeeps, ReopenKeeps
  <2>2. CASE ~RequestMail(m)
    BY <1>1, <1>3, <2>2, RestingRow DEF Decide
  <2>3. QED
    BY <2>1, <2>2
<1>4. ASSUME NEW m \in Mail, ClaimExpires(m) \/ BackoffElapses(m) \/ PurgeSentMail(m) \/ EraseNeighbor(m)
      PROVE  OutboxInv'
  BY <1>1, <1>4, ClaimExpiresKeeps, RestingRow, EraseKeeps
<1>5. ASSUME NEW m \in Mail, NEW amount \in Message \cup {Settled}, DemandChanges(m, amount)
      PROVE  OutboxInv'
  BY <1>1, <1>5, DemandKeeps
<1>6. CASE SweepBeforeData \/ SweepUnclear
  BY <1>1, <1>6, SweepKeeps
<1>7. CASE UNCHANGED vars
  BY <1>1, <1>7 DEF vars, OutboxInv, OutboxTyped, ClaimsStand, OneClaimant, RowsKnow
<1>8. QED
  BY <1>1, <1>2, <1>3, <1>4, <1>5, <1>6, <1>7 DEF Next

LEMMA OutboxInvAlways == Spec => []OutboxInv
BY OutboxInit, OutboxNext, PTL DEF Spec

\* Every row, copy count and owed amount is one the outbox can hold, and a sender
\* never counts more attempts than outboxMaxAttempts.
THEOREM TypeCorrect == Spec => []TypeOK
<1>1. OutboxInv => TypeOK
  BY DEF OutboxInv, OutboxTyped, SenderRow, TypeOK
<1>2. QED
  BY <1>1, OutboxInvAlways, PTL

\* No mail the queue would deliver again by itself was accepted before, with any
\* number of senders, crashes, sweeps, retries and changes of the demand.
THEOREM AcceptedStaysDelivered == Spec => []NeverResendsAccepted
<1>1. OutboxInv => NeverResendsAccepted
  BY DEF OutboxInv, RowsKnow, RowKnows, NeverResendsAccepted
<1>2. QED
  BY <1>1, OutboxInvAlways, PTL

\* One request to send puts at most one copy into the world, and what is shown as
\* sent did go out.
THEOREM OneCopyEach == Spec => []OneCopyPerRequest
<1>1. OutboxInv => OneCopyPerRequest
  BY RowTypes DEF RowKnows, OneCopyPerRequest
<1>2. QED
  BY <1>1, OutboxInvAlways, PTL

\* The attempt history is closed but for the attempt being sent.
THEOREM HistoryClosed == Spec => []AttemptsClosed
<1>1. OutboxInv => AttemptsClosed
  BY DEF OutboxInv, RowsKnow, RowClosed, AttemptsClosed
<1>2. QED
  BY <1>1, OutboxInvAlways, PTL

\* Of the senders beyond the claim no two work on one mail, and each works on the
\* attempt its row is at, with the content the row holds, unless the mail was erased.
THEOREM OneSenderEach == Spec => [](OneClaimant /\ ClaimsStand)
<1>1. OutboxInv => OneClaimant /\ ClaimsStand
  BY DEF OutboxInv
<1>2. QED
  BY <1>1, OutboxInvAlways, PTL

-----------------------------------------------------------------------------
(* The queue's limit *)

Queue == {m \in Mail : Queued(m)}

\* Nothing enters the queue.
NoneAdmitted == \A m \in Mail : Queued(m)' => Queued(m)

\* A queued row written over does not make another one count.
LEMMA RowAdmitsNone ==
  ASSUME OutboxInv, NEW m \in Mail, NEW row, outbox' = [outbox EXCEPT ![m] = row],
         outbox[m].state \in {"pending", "sending", "failed", "ambiguous", "held"},
         row.redacted = outbox[m].redacted
  PROVE  NoneAdmitted
<1>1. outbox \in [Mail -> Row]
  BY DEF OutboxInv, OutboxTyped
<1>2. outbox'[m] = row /\ \A k \in Mail : k # m => outbox'[k] = outbox[k]
  BY <1>1
<1>3. QED
  BY <1>2 DEF NoneAdmitted, Queued

LEMMA SenderAdmitsNone ==
  ASSUME OutboxInv, NEW s \in Sender, Deliver(s) \/ Crash(s) \/ \E m \in Mail : ListDue(s, m)
  PROVE  NoneAdmitted
<1>1. ASSUME UNCHANGED outbox PROVE NoneAdmitted
  BY <1>1 DEF NoneAdmitted, Queued
<1>2. CASE sender[s].pc = "idle" \/ UNCHANGED outbox
  BY <1>1, <1>2 DEF Deliver, AttemptMail, CheckDemand, HoldPending, Claim, DialogFails, ConfirmDemand,
     HoldSending, StartData, Transmit, SettleDelivered, MarkMailAmbiguous, SettleRejected, Crash, ListDue
<1>3. CASE sender[s].pc # "idle" /\ ~UNCHANGED outbox
  <2>1. PICK m \in Mail : m = sender[s].mail
    BY <1>3, SenderTypes
  <2>2. outbox[m] \in Row
    BY RowTypes
  <2>3. CASE HoldPending(s)
    <3> DEFINE row == [outbox[m] EXCEPT !.state = "held", !.reason = "stale", !.phase = "none",
                                        !.expired = FALSE, !.log = outbox[m].log]
    <3>1. outbox' = [outbox EXCEPT ![m] = row] /\ outbox[m].state \in {"pending", "sending"}
      BY <1>3, <2>1, <2>2, <2>3 DEF HoldPending, Hold, SetRow, Row
    <3>2. row.redacted = outbox[m].redacted
      BY <2>2 DEF Row
    <3> HIDE DEF row
    <3>3. QED
      BY <3>1, <3>2, RowAdmitsNone
  <2>4. CASE Claim(s)
    <3> DEFINE row == [outbox[m] EXCEPT !.state = "sending", !.attempts = outbox[m].attempts + 1,
                                        !.due = FALSE, !.phase = "claimed", !.expired = FALSE,
                                        !.log = Append(outbox[m].log, "sending")]
    <3>1. outbox' = [outbox EXCEPT ![m] = row] /\ outbox[m].state \in {"pending", "sending"}
      BY <1>3, <2>1, <2>2, <2>4 DEF Claim, Claimable, RowOf, SetRow, Row
    <3>2. row.redacted = outbox[m].redacted
      BY <2>2 DEF Row
    <3> HIDE DEF row
    <3>3. QED
      BY <3>1, <3>2, RowAdmitsNone
  <2>5. CASE HoldSending(s)
    <3> DEFINE row == [outbox[m] EXCEPT !.state = "held", !.reason = "stale", !.phase = "none",
                                        !.expired = FALSE,
                                        !.log = CloseAttempt(outbox[m].log, sender[s].seq, "failed")]
    <3>1. outbox' = [outbox EXCEPT ![m] = row] /\ outbox[m].state \in {"pending", "sending"}
      BY <1>3, <2>1, <2>2, <2>5 DEF HoldSending, Hold, StillMyClaim, StillSending, RowOf, SetRow, Row
    <3>2. row.redacted = outbox[m].redacted
      BY <2>2 DEF Row
    <3> HIDE DEF row
    <3>3. QED
      BY <3>1, <3>2, RowAdmitsNone
  <2>6. CASE StartData(s)
    <3> DEFINE row == [outbox[m] EXCEPT !.phase = "data"]
    <3>1. outbox' = [outbox EXCEPT ![m] = row] /\ outbox[m].state \in {"pending", "sending"}
      BY <1>3, <2>1, <2>2, <2>6 DEF StartData, StillMyClaim, StillSending, RowOf, SetRow, Row
    <3>2. row.redacted = outbox[m].redacted
      BY <2>2 DEF Row
    <3> HIDE DEF row
    <3>3. QED
      BY <3>1, <3>2, RowAdmitsNone
  <2>7. CASE SettleDelivered(s)
    <3> DEFINE row == [outbox[m] EXCEPT !.state = "sent", !.expired = FALSE, !.reason = "",
                                        !.log = CloseAttempt(outbox[m].log, sender[s].seq, "sent")]
    <3>1. outbox' = [outbox EXCEPT ![m] = row] /\ outbox[m].state \in {"pending", "sending"}
      BY <1>3, <2>1, <2>2, <2>7 DEF SettleDelivered, StillSending, RowOf, SetRow, Row
    <3>2. row.redacted = outbox[m].redacted
      BY <2>2 DEF Row
    <3> HIDE DEF row
    <3>3. QED
      BY <3>1, <3>2, RowAdmitsNone
  <2>8. CASE MarkMailAmbiguous(s)
    <3> DEFINE row == [outbox[m] EXCEPT !.state = "ambiguous", !.expired = FALSE,
                                        !.log = CloseAttempt(outbox[m].log, sender[s].seq, "ambiguous")]
    <3>1. outbox' = [outbox EXCEPT ![m] = row] /\ outbox[m].state \in {"pending", "sending"}
      BY <1>3, <2>1, <2>2, <2>8 DEF MarkMailAmbiguous, StillSending, RowOf, SetRow, Row
    <3>2. row.redacted = outbox[m].redacted
      BY <2>2 DEF Row
    <3> HIDE DEF row
    <3>3. QED
      BY <3>1, <3>2, RowAdmitsNone
  <2>9. CASE SettleRejected(s)
    <3> DEFINE closed == CloseAttempt(outbox[m].log, sender[s].seq,
                                      RejectionOutcome(sender[s].attempts))
               row == [outbox[m] EXCEPT !.state = AfterRejection(sender[s].attempts),
                                        !.expired = FALSE, !.log = closed]
               logged == [outbox[m] EXCEPT !.log = closed]
    <3>1. CASE StillSending(s)
      <4>1. outbox' = [outbox EXCEPT ![m] = row] /\ outbox[m].state = "sending"
        BY <2>1, <2>9, <3>1 DEF SettleRejected, StillSending, RowOf, SetRow
      <4>2. row.redacted = outbox[m].redacted
        BY <2>2 DEF Row
      <4> HIDE DEF row
      <4>3. QED
        BY <4>1, <4>2, RowAdmitsNone
    <3>2. CASE ~StillSending(s)
      <4>1. outbox' = [outbox EXCEPT ![m] = logged]
        BY <1>3, <2>1, <2>9, <3>2 DEF SettleRejected, SetRow
      <4>2. logged.redacted = outbox[m].redacted /\ logged.state = outbox[m].state
        BY <2>2 DEF Row
      <4> HIDE DEF logged
      <4>3. outbox \in [Mail -> Row]
        BY DEF OutboxInv, OutboxTyped
      <4>4. outbox'[m] = logged /\ \A k \in Mail : k # m => outbox'[k] = outbox[k]
        BY <4>1, <4>3
      <4>5. QED
        BY <4>2, <4>4 DEF NoneAdmitted, Queued
    <3>3. QED
      BY <3>1, <3>2
  <2>10. QED
    BY <1>3, <2>3, <2>4, <2>5, <2>6, <2>7, <2>8, <2>9 DEF Deliver, AttemptMail, CheckDemand,
       DialogFails, ConfirmDemand, Transmit, Crash, ListDue
<1>4. QED
  BY <1>2, <1>3

LEMMA RestAdmitsNone ==
  ASSUME OutboxInv, NEW m \in Mail,
         \/ \E force \in BOOLEAN : RequeueMail(m, force)
         \/ ReleaseHeldMail(m) \/ DiscardHeldMail(m) \/ BackoffElapses(m) \/ PurgeSentMail(m)
         \/ ClaimExpires(m) \/ EraseNeighbor(m)
  PROVE  NoneAdmitted
<1>1. outbox[m] \in Row
  BY RowTypes
<1>2. ASSUME outbox' = [outbox EXCEPT ![m] = NoRow] PROVE NoneAdmitted
  <2>1. outbox \in [Mail -> Row]
    BY DEF OutboxInv, OutboxTyped
  <2>2. outbox'[m] = NoRow /\ \A k \in Mail : k # m => outbox'[k] = outbox[k]
    BY <1>2, <2>1
  <2>3. QED
    <3>1. NoRow.state = "none"
      BY DEF NoRow
    <3>2. QED
      BY <2>2, <3>1 DEF NoneAdmitted, Queued
<1>3. CASE \E force \in BOOLEAN : RequeueMail(m, force)
  <2> DEFINE row == [outbox[m] EXCEPT !.state = "pending", !.attempts = 0, !.due = TRUE,
                                      !.phase = "none", !.reason = ""]
  <2>1. /\ outbox' = [outbox EXCEPT ![m] = row]
        /\ outbox[m].state \in {"pending", "sending", "failed", "ambiguous", "held"}
    BY <1>3 DEF RequeueMail, SetRow
  <2>2. row.redacted = outbox[m].redacted
    BY <1>1 DEF Row
  <2> HIDE DEF row
  <2>3. QED
    BY <2>1, <2>2, RowAdmitsNone
<1>4. CASE ReleaseHeldMail(m)
  <2> DEFINE row == [outbox[m] EXCEPT !.state = "pending", !.attempts = 0, !.due = TRUE, !.reason = ""]
  <2>1. /\ outbox' = [outbox EXCEPT ![m] = row]
        /\ outbox[m].state \in {"pending", "sending", "failed", "ambiguous", "held"}
    BY <1>4 DEF ReleaseHeldMail, SetRow
  <2>2. row.redacted = outbox[m].redacted
    BY <1>1 DEF Row
  <2> HIDE DEF row
  <2>3. QED
    BY <2>1, <2>2, RowAdmitsNone
<1>5. CASE DiscardHeldMail(m)
  <2> DEFINE row == [outbox[m] EXCEPT !.state = "failed", !.reason = "discarded"]
  <2>1. /\ outbox' = [outbox EXCEPT ![m] = row]
        /\ outbox[m].state \in {"pending", "sending", "failed", "ambiguous", "held"}
    BY <1>5 DEF DiscardHeldMail, SetRow
  <2>2. row.redacted = outbox[m].redacted
    BY <1>1 DEF Row
  <2> HIDE DEF row
  <2>3. QED
    BY <2>1, <2>2, RowAdmitsNone
<1>6. CASE BackoffElapses(m)
  <2> DEFINE row == [outbox[m] EXCEPT !.due = TRUE]
  <2>1. /\ outbox' = [outbox EXCEPT ![m] = row]
        /\ outbox[m].state \in {"pending", "sending", "failed", "ambiguous", "held"}
    BY <1>6 DEF BackoffElapses, SetRow
  <2>2. row.redacted = outbox[m].redacted
    BY <1>1 DEF Row
  <2> HIDE DEF row
  <2>3. QED
    BY <2>1, <2>2, RowAdmitsNone
<1>7. CASE ClaimExpires(m)
  <2> DEFINE row == [outbox[m] EXCEPT !.expired = TRUE]
  <2>1. /\ outbox' = [outbox EXCEPT ![m] = row]
        /\ outbox[m].state \in {"pending", "sending", "failed", "ambiguous", "held"}
    BY <1>7 DEF ClaimExpires, SetRow
  <2>2. row.redacted = outbox[m].redacted
    BY <1>1 DEF Row
  <2> HIDE DEF row
  <2>3. QED
    BY <2>1, <2>2, RowAdmitsNone
<1>8. CASE PurgeSentMail(m)
  <2> DEFINE row == [outbox[m] EXCEPT !.redacted = TRUE]
  <2>1. outbox' = [outbox EXCEPT ![m] = NoRow] \/ outbox' = [outbox EXCEPT ![m] = row]
    BY <1>8 DEF PurgeSentMail, SetRow
  <2>2. row.redacted
    BY <1>1 DEF Row
  <2> HIDE DEF row
  <2>3. ASSUME outbox' = [outbox EXCEPT ![m] = row] PROVE NoneAdmitted
    <3>1. outbox \in [Mail -> Row]
      BY DEF OutboxInv, OutboxTyped
    <3>2. outbox'[m] = row /\ \A k \in Mail : k # m => outbox'[k] = outbox[k]
      BY <2>3, <3>1
    <3>3. QED
      BY <2>2, <3>2 DEF NoneAdmitted, Queued
  <2>4. QED
    BY <1>2, <2>1, <2>3
<1>9. CASE EraseNeighbor(m)
  BY <1>2, <1>9 DEF EraseNeighbor, SetRow
<1>10. QED
  BY <1>3, <1>4, <1>5, <1>6, <1>7, <1>8, <1>9

LEMMA SweepAdmitsNone ==
  ASSUME OutboxInv, SweepBeforeData \/ SweepUnclear
  PROVE  NoneAdmitted
<1>1. SUFFICES ASSUME NEW m \in Mail, Queued(m)' PROVE Queued(m)
  BY DEF NoneAdmitted
<1>2. outbox[m] \in Row
  BY RowTypes
<1>3. \/ outbox'[m] = outbox[m]
      \/ outbox[m].state = "sending" /\ outbox'[m].redacted = outbox[m].redacted
  <2>1. ASSUME NEW state, NEW outcome, NEW due
        PROVE  /\ Swept(outbox[m], state, outcome, due).redacted = outbox[m].redacted
               /\ [Swept(outbox[m], state, outcome, due) EXCEPT !.phase = "none"].redacted
                    = outbox[m].redacted
    BY <1>2 DEF Swept, Row
  <2>2. CASE SweepBeforeData
    <3> DEFINE row == [Swept(outbox[m], AfterRejection(outbox[m].attempts),
                             RejectionOutcome(outbox[m].attempts), TRUE) EXCEPT !.phase = "none"]
    <3>1. outbox'[m] = IF StaleBeforeData(m) THEN row ELSE outbox[m]
      BY <2>2 DEF SweepBeforeData
    <3>2. row.redacted = outbox[m].redacted
      BY <2>1
    <3> HIDE DEF row
    <3>3. QED
      BY <3>1, <3>2 DEF StaleBeforeData
  <2>3. CASE SweepUnclear
    <3> DEFINE row == Swept(outbox[m], "ambiguous", "ambiguous", outbox[m].due)
    <3>1. outbox'[m] = IF Unclear(m) THEN row ELSE outbox[m]
      BY <2>3 DEF SweepUnclear
    <3>2. row.redacted = outbox[m].redacted
      BY <2>1
    <3> HIDE DEF row
    <3>3. QED
      BY <3>1, <3>2 DEF Unclear
  <2>4. QED
    BY <2>2, <2>3
<1>4. QED
  BY <1>1, <1>3 DEF Queued

QueueInv == IsFiniteSet(Queue) /\ Cardinality(Queue) <= MaxRows

LEMMA NoneAdmittedKeeps ==
  ASSUME QueueInv, NoneAdmitted
  PROVE  QueueInv'
<1>1. Queue' \subseteq Queue
  BY DEF NoneAdmitted, Queue
<1>2. IsFiniteSet(Queue') /\ Cardinality(Queue') <= Cardinality(Queue)
  BY <1>1, FS_Subset DEF QueueInv
<1>3. Cardinality(Queue) \in Nat /\ Cardinality(Queue') \in Nat /\ MaxRows \in Nat
  BY <1>2, FS_CardinalityType, OutboxAssumption DEF QueueInv
<1>4. QED
  BY <1>2, <1>3 DEF QueueInv

\* What is admitted had room beside the other rows.
LEMMA AdmissionKeeps ==
  ASSUME OutboxInv, QueueInv, NEW m \in Mail, Fits(m), \A k \in Mail : k # m => outbox'[k] = outbox[k]
  PROVE  QueueInv'
<1> DEFINE Others == {k \in Mail \ {m} : Queued(k)}
<1>1. Others \subseteq Queue /\ Queue' \subseteq Others \cup {m}
  BY DEF Queue, Queued
<1>2. Cardinality(Others) < MaxRows
  BY DEF Fits
<1> HIDE DEF Others
<1>3. IsFiniteSet(Others) /\ Cardinality(Others) \in Nat
  BY <1>1, FS_Subset, FS_CardinalityType DEF QueueInv
<1>4. /\ IsFiniteSet(Others \cup {m})
      /\ Cardinality(Others \cup {m}) \in {Cardinality(Others), Cardinality(Others) + 1}
  BY <1>3, FS_AddElement
<1>5. IsFiniteSet(Queue') /\ Cardinality(Queue') <= Cardinality(Others \cup {m})
  BY <1>1, <1>4, FS_Subset
<1>6. Cardinality(Queue') \in Nat /\ MaxRows \in Nat
  BY <1>5, FS_CardinalityType, OutboxAssumption
<1>7. Cardinality(Queue') <= MaxRows
  BY <1>2, <1>3, <1>4, <1>5, <1>6
<1>8. QED
  BY <1>5, <1>7 DEF QueueInv

LEMMA QueueNext == OutboxInv /\ QueueInv /\ [Next]_vars => QueueInv'
<1>1. SUFFICES ASSUME OutboxInv, QueueInv, [Next]_vars PROVE QueueInv'
  OBVIOUS
<1>2. outbox \in [Mail -> Row]
  BY <1>1 DEF OutboxInv, OutboxTyped
<1>3. ASSUME NEW s \in Sender, NEW m \in Mail, NEW msg \in Message,
             CreateMailIntent(s, m, msg) \/ ReopenMailIntent(s, m, msg)
      PROVE  QueueInv'
  <2>1. Fits(m) /\ \A k \in Mail : k # m => outbox'[k] = outbox[k]
    BY <1>2, <1>3 DEF CreateMailIntent, ReopenMailIntent, SetRow
  <2>2. QED
    BY <1>1, <2>1, AdmissionKeeps
<1>4. ASSUME NEW s \in Sender, Deliver(s) \/ Crash(s) \/ \E m \in Mail : ListDue(s, m)
      PROVE  QueueInv'
  BY <1>1, <1>4, SenderAdmitsNone, NoneAdmittedKeeps
<1>5. ASSUME NEW m \in Mail,
             \/ \E force \in BOOLEAN : RequeueMail(m, force)
             \/ ReleaseHeldMail(m) \/ DiscardHeldMail(m) \/ BackoffElapses(m) \/ PurgeSentMail(m)
             \/ ClaimExpires(m) \/ EraseNeighbor(m)
      PROVE  QueueInv'
  BY <1>1, <1>5, RestAdmitsNone, NoneAdmittedKeeps
<1>6. CASE SweepBeforeData \/ SweepUnclear
  BY <1>1, <1>6, SweepAdmitsNone, NoneAdmittedKeeps
<1>7. ASSUME UNCHANGED outbox PROVE QueueInv'
  <2>1. NoneAdmitted
    BY <1>7 DEF NoneAdmitted, Queued
  <2>2. QED
    BY <1>1, <2>1, NoneAdmittedKeeps
<1>8. ASSUME NEW m \in Mail, NEW amount \in Message \cup {Settled}, DemandChanges(m, amount)
      PROVE  QueueInv'
  BY <1>7, <1>8 DEF DemandChanges
<1>9. CASE UNCHANGED vars
  BY <1>7, <1>9 DEF vars
<1>10. QED
  <2>1. ASSUME NEW m \in Mail, Decide(m) PROVE QueueInv'
    <3>1. CASE RequestMail(m)
      BY <1>3, <3>1, RequestsOutbox
    <3>2. CASE ~RequestMail(m)
      BY <1>5, <2>1, <3>2 DEF Decide
    <3>3. QED
      BY <3>1, <3>2
  <2>2. QED
    BY <1>1, <1>4, <1>5, <1>6, <1>8, <1>9, <2>1 DEF Next

\* The queue never holds more undelivered payloads than mailQueueMaxRows, whatever
\* is retried, released, swept or redacted: only an intent created or reopened
\* adds one, and it had room.
THEOREM QueueStaysBounded == Spec => []QueueBounded
<1>1. Init => QueueInv
  <2>1. SUFFICES ASSUME Init PROVE QueueInv
    OBVIOUS
  <2>2. Queue = {}
    BY <2>1 DEF Init, Queue, Queued, NoRow
  <2>3. QED
    BY <2>2, FS_EmptySet, OutboxAssumption DEF QueueInv
<1>2. QueueInv => QueueBounded
  BY DEF QueueInv, QueueBounded, Queue
<1>3. QED
  BY <1>1, <1>2, QueueNext, OutboxInvAlways, PTL DEF Spec

-----------------------------------------------------------------------------
(* The outbox implements MailPromise *)

Stage == [m \in Mail |-> StageOf(m)]

\* What MailPromise allows of one mail, from stage and copies to stage and copies.
Allowed(from, c, to, d) ==
  \/ from \in {"none", "unclear"} /\ to = "waiting" /\ d = 0
  \/ from \in {"failed", "leaving"} /\ to = "waiting" /\ c = 0 /\ d = 0
  \/ from = "waiting" /\ to = "leaving" /\ c = 0 /\ d = 0
  \/ from \in {"leaving", "erased"} /\ to = from /\ c = 0 /\ d = 1
  \/ from \in {"waiting", "leaving"} /\ to = "failed" /\ c = 0 /\ d = 0
  \/ from = "leaving" /\ to = "delivered" /\ c = 1 /\ d = c
  \/ from \in {"waiting", "leaving"} /\ to = "unclear" /\ d = c
  \/ from = "delivered" /\ to = "none" /\ d = c
  \/ to = "erased" /\ d = c
  \/ to = from /\ d = c

LEMMA AllowedMoves ==
  ASSUME OutboxInv,
         \A m \in Mail : Allowed(StageOf(m), copies[m], StageOf(m)', copies'[m])
  PROVE  Promise!PromiseNext
<1>1. SUFFICES ASSUME NEW m \in Mail PROVE Promise!MailMoves(m)
  BY DEF Promise!PromiseNext
<1>2. Stage[m] = StageOf(m) /\ Stage'[m] = StageOf(m)'
  BY DEF Stage
<1>3. StageOf(m) \in Promise!Stages
  BY RowTypes DEF StageOf, RowStage, Row, Promise!Stages
<1>4. PICK from, to : from = StageOf(m) /\ to = StageOf(m)'
  OBVIOUS
<1>5. Allowed(from, copies[m], to, copies'[m]) /\ from \in Promise!Stages
      /\ Stage[m] = from /\ Stage'[m] = to
  BY <1>2, <1>3, <1>4
<1>6. QED
  BY <1>5 DEF Allowed, Stage, Promise!MailMoves, Promise!Submit, Promise!TryAgain,
     Promise!AcceptDuplicate, Promise!HandOver, Promise!ServerTakes, Promise!TakeBack,
     Promise!GiveUp, Promise!CallDelivered, Promise!CallUnclear, Promise!Forget,
     Promise!Erase, Promise!Rests, Promise!Moves, Promise!NoCopy, Promise!SameCopies

\* A step of one mail.
LEMMA OneMails ==
  ASSUME OutboxInv, NEW m \in Mail, UNCHANGED erased,
         \A k \in Mail : k # m => outbox'[k] = outbox[k] /\ copies'[k] = copies[k],
         Allowed(StageOf(m), copies[m], StageOf(m)', copies'[m])
  PROVE  Promise!PromiseNext
<1>1. ASSUME NEW k \in Mail, k # m
      PROVE  Allowed(StageOf(k), copies[k], StageOf(k)', copies'[k])
  <2>1. StageOf(k)' = StageOf(k) /\ copies'[k] = copies[k]
    BY <1>1 DEF StageOf
  <2>2. QED
    BY <2>1 DEF Allowed
<1>2. QED
  BY <1>1, AllowedMoves

\* A step that shows at no mail.
LEMMA NoMails ==
  ASSUME OutboxInv, UNCHANGED <<outbox, copies, erased>>
  PROVE  Promise!PromiseNext
<1>1. ASSUME NEW m \in Mail
      PROVE  Allowed(StageOf(m), copies[m], StageOf(m)', copies'[m])
  <2>1. StageOf(m)' = StageOf(m) /\ copies'[m] = copies[m]
    BY DEF StageOf
  <2>2. QED
    BY <2>1 DEF Allowed
<1>2. QED
  BY <1>1, AllowedMoves

\* What a row's fields say of its stage.
LEMMA StageIs ==
  ASSUME NEW row \in Row
  PROVE  /\ row.state \in {"pending", "held"} => RowStage(row) = "waiting"
         /\ row.state = "sending" =>
              RowStage(row) = IF row.phase = "claimed" THEN "waiting" ELSE "leaving"
         /\ row.state = "sent" => RowStage(row) = "delivered"
         /\ row.state = "ambiguous" => RowStage(row) = "unclear"
         /\ row.state \in {"none", "failed"} => RowStage(row) = row.state
BY DEF RowStage, Row

\* The row of a mail that is not erased is rewritten.
LEMMA RowMoves ==
  ASSUME OutboxInv, NEW m \in Mail, m \notin erased, UNCHANGED erased, NEW row,
         outbox' = [outbox EXCEPT ![m] = row], NEW count, copies' = [copies EXCEPT ![m] = count],
         Allowed(RowStage(outbox[m]), copies[m], RowStage(row), count)
  PROVE  Promise!PromiseNext
<1>1. /\ outbox'[m] = row /\ copies'[m] = count
      /\ \A k \in Mail : k # m => outbox'[k] = outbox[k] /\ copies'[k] = copies[k]
  BY DEF OutboxInv, OutboxTyped
<1>2. StageOf(m) = RowStage(outbox[m]) /\ StageOf(m)' = RowStage(row)
  BY <1>1 DEF StageOf
<1>3. Allowed(StageOf(m), copies[m], StageOf(m)', copies'[m])
  BY <1>1, <1>2
<1>4. QED
  BY <1>1, <1>3, OneMails

LEMMA CreateMoves ==
  ASSUME OutboxInv, NEW s \in Sender, NEW m \in Mail, NEW msg, CreateMailIntent(s, m, msg)
  PROVE  Promise!PromiseNext
<1>1. PICK row : row = [NoRow EXCEPT !.id = requests + 1, !.state = "pending", !.msg = msg]
  OBVIOUS
<1>2. /\ m \notin erased /\ UNCHANGED erased /\ outbox[m].state = "none"
      /\ outbox' = [outbox EXCEPT ![m] = row] /\ copies' = [copies EXCEPT ![m] = 0]
  BY <1>1 DEF CreateMailIntent, SetRow
<1>3. RowStage(row) = "waiting" /\ RowStage(outbox[m]) = "none"
  BY <1>1, <1>2 DEF NoRow, RowStage
<1>4. Allowed(RowStage(outbox[m]), copies[m], RowStage(row), 0)
  BY <1>3 DEF Allowed
<1>5. QED
  BY <1>2, <1>4, RowMoves

\* An operator's decision about a mail with a row.
LEMMA DecisionMoves ==
  ASSUME OutboxInv, NEW m \in Mail, NEW row, NEW count,
         outbox' = [outbox EXCEPT ![m] = row], copies' = [copies EXCEPT ![m] = count],
         UNCHANGED erased,
         \/ /\ outbox[m].state = "ambiguous" /\ row.state = "pending" /\ count = 0
         \/ /\ outbox[m].state \in {"failed", "held"} /\ row.state \in {"pending", "failed"}
            /\ count = copies[m]
  PROVE  Promise!PromiseNext
<1>1. m \notin erased /\ RowKnows(outbox[m], copies[m])
  BY RowTypes
<1>2. Allowed(RowStage(outbox[m]), copies[m], RowStage(row), count)
  BY <1>1 DEF Allowed, RowStage, RowKnows
<1>3. QED
  BY <1>1, <1>2, RowMoves

LEMMA ReopenMoves ==
  ASSUME OutboxInv, NEW s \in Sender, NEW m \in Mail, NEW msg, ReopenMailIntent(s, m, msg)
  PROVE  Promise!PromiseNext
<1>1. PICK row, count :
        /\ row = [outbox[m] EXCEPT !.state = "pending", !.msg = msg, !.attempts = 0,
                                   !.due = TRUE, !.reason = "", !.redacted = FALSE]
        /\ count = IF outbox[m].state = "ambiguous" THEN 0 ELSE copies[m]
  OBVIOUS
<1>2. /\ outbox' = [outbox EXCEPT ![m] = row] /\ copies' = [copies EXCEPT ![m] = count]
      /\ UNCHANGED erased /\ outbox[m].state \in {"failed", "ambiguous", "held"}
  BY <1>1 DEF ReopenMailIntent, SetRow, Reopenable
<1>3. row.state = "pending"
  BY <1>1, RowTypes DEF Row
<1>4. QED
  BY <1>1, <1>2, <1>3, DecisionMoves

LEMMA OperatorMoves ==
  ASSUME OutboxInv, NEW m \in Mail, NEW force \in BOOLEAN,
         RequeueMail(m, force) \/ ReleaseHeldMail(m) \/ DiscardHeldMail(m)
  PROVE  Promise!PromiseNext
<1>1. copies \in [Mail -> Nat] /\ outbox[m] \in Row
  BY RowTypes DEF OutboxInv, OutboxTyped
<1>2. CASE RequeueMail(m, force)
  <2>1. PICK row, count :
          /\ row = [outbox[m] EXCEPT !.state = "pending", !.attempts = 0, !.due = TRUE,
                                     !.phase = "none", !.reason = ""]
          /\ count = IF force THEN 0 ELSE copies[m]
    OBVIOUS
  <2>2. /\ outbox' = [outbox EXCEPT ![m] = row] /\ copies' = [copies EXCEPT ![m] = count]
        /\ UNCHANGED erased /\ outbox[m].state = IF force THEN "ambiguous" ELSE "failed"
    BY <1>2, <2>1 DEF RequeueMail, SetRow
  <2>3. row.state = "pending"
    BY <1>1, <2>1 DEF Row
  <2>4. QED
    BY <2>1, <2>2, <2>3, DecisionMoves
<1>3. CASE ReleaseHeldMail(m) \/ DiscardHeldMail(m)
  <2>1. PICK released, discarded :
          /\ released = [outbox[m] EXCEPT !.state = "pending", !.attempts = 0, !.due = TRUE,
                                         !.reason = ""]
          /\ discarded = [outbox[m] EXCEPT !.state = "failed", !.reason = "discarded"]
    OBVIOUS
  <2>2. PICK row : outbox' = [outbox EXCEPT ![m] = row] /\ row.state \in {"pending", "failed"}
    <3>1. released.state = "pending" /\ discarded.state = "failed"
      BY <1>1, <2>1 DEF Row
    <3>2. outbox' = [outbox EXCEPT ![m] = released] \/ outbox' = [outbox EXCEPT ![m] = discarded]
      BY <1>3, <2>1 DEF ReleaseHeldMail, DiscardHeldMail, SetRow
    <3>3. QED
      BY <3>1, <3>2
  <2>3. PICK count : count = copies[m]
    OBVIOUS
  <2>4. copies' = [copies EXCEPT ![m] = count] /\ UNCHANGED erased /\ outbox[m].state = "held"
    BY <1>1, <1>3, <2>3 DEF ReleaseHeldMail, DiscardHeldMail
  <2>5. QED
    BY <2>2, <2>3, <2>4, DecisionMoves
<1>4. QED
  BY <1>2, <1>3

\* A sender writes the row it has claimed, or the row it read while it waited.
LEMMA SenderMoves ==
  ASSUME OutboxInv, NEW m \in Mail, m \notin erased, NEW row,
         outbox' = [outbox EXCEPT ![m] = row], UNCHANGED <<copies, erased>>,
         Allowed(RowStage(outbox[m]), copies[m], RowStage(row), copies[m])
  PROVE  Promise!PromiseNext
<1>1. PICK count : count = copies[m]
  OBVIOUS
<1>2. copies' = [copies EXCEPT ![m] = count]
  BY <1>1 DEF OutboxInv, OutboxTyped
<1>3. QED
  BY <1>1, <1>2, RowMoves

LEMMA HoldPendingMoves ==
  ASSUME OutboxInv, NEW s \in Sender, HoldPending(s)
  PROVE  Promise!PromiseNext
<1>1. CASE UNCHANGED outbox
  BY <1>1, NoMails DEF HoldPending
<1>2. CASE ~UNCHANGED outbox
  <2>1. PICK m : m = sender[s].mail
    OBVIOUS
  <2>2. /\ m \in Mail /\ outbox[m].state = "pending" /\ Hold(m, outbox[m].log)
        /\ UNCHANGED <<copies, erased>>
    BY <1>2, <2>1 DEF HoldPending, OutboxInv, OutboxTyped
  <2>3. m \notin erased /\ outbox[m] \in Row
    BY <2>2, RowTypes
  <2>4. PICK row : /\ row = [outbox[m] EXCEPT !.state = "held", !.reason = "stale",
                        !.phase = "none", !.expired = FALSE, !.log = outbox[m].log]
    OBVIOUS
  <2>5. outbox' = [outbox EXCEPT ![m] = row] /\ row.state = "held"
    BY <2>2, <2>3, <2>4 DEF Hold, SetRow, Row
  <2>6. Allowed(RowStage(outbox[m]), copies[m], RowStage(row), copies[m])
    BY <2>2, <2>5 DEF Allowed, RowStage
  <2>7. QED
    BY <2>2, <2>3, <2>5, <2>6, SenderMoves
<1>3. QED
  BY <1>1, <1>2

LEMMA ClaimMoves ==
  ASSUME OutboxInv, NEW s \in Sender, Claim(s)
  PROVE  Promise!PromiseNext
<1>1. CASE UNCHANGED outbox
  BY <1>1, NoMails DEF Claim
<1>2. CASE ~UNCHANGED outbox
  <2>1. PICK m : m = sender[s].mail
    OBVIOUS
  <2>2. m \in Mail /\ outbox[m].state = "pending" /\ UNCHANGED <<copies, erased>>
    BY <1>2, <2>1 DEF Claim, Claimable, RowOf, OutboxInv, OutboxTyped
  <2>3. m \notin erased /\ outbox[m] \in Row
    BY <2>2, RowTypes
  <2>4. PICK row : row = [outbox[m] EXCEPT
                            !.state = "sending", !.attempts = @ + 1, !.due = FALSE,
                            !.phase = "claimed", !.expired = FALSE,
                            !.log = Append(@, "sending")]
    OBVIOUS
  <2>5. outbox' = [outbox EXCEPT ![m] = row]
    BY <1>2, <2>1, <2>4 DEF Claim, SetRow
  <2>6. row.state = "sending" /\ row.phase = "claimed"
    BY <2>3, <2>4 DEF Row
  <2>7. Allowed(RowStage(outbox[m]), copies[m], RowStage(row), copies[m])
    BY <2>2, <2>6 DEF Allowed, RowStage
  <2>8. QED
    BY <2>2, <2>3, <2>5, <2>7, SenderMoves
<1>3. QED
  BY <1>1, <1>2

\* What the claimant of a mail finds.
LEMMA ClaimantFinds ==
  ASSUME OutboxInv, NEW s \in Sender, sender[s].pc \in Attempting, StillSending(s)
  PROVE  LET m == sender[s].mail
         IN /\ m \in Mail /\ m \notin erased /\ outbox[m] \in Row
            /\ outbox[m].state = "sending" /\ Standing(sender[s], outbox[m])
            /\ SenderKnows(sender[s].pc, copies[m])
<1>1. PICK m : m = sender[s].mail
  OBVIOUS
<1>2. m \in Mail /\ outbox[m].state = "sending"
  BY <1>1 DEF OutboxInv, OutboxTyped, Attempting, StillSending, RowOf
<1>3. m \notin erased /\ outbox[m] \in Row
  BY <1>2, RowTypes
<1>4. Standing(sender[s], outbox[m]) /\ SenderKnows(sender[s].pc, copies[m])
  BY <1>1, <1>3 DEF OutboxInv, ClaimsStand
<1>5. QED
  BY <1>1, <1>2, <1>3, <1>4

LEMMA HoldSendingMoves ==
  ASSUME OutboxInv, NEW s \in Sender, HoldSending(s)
  PROVE  Promise!PromiseNext
<1>1. CASE UNCHANGED outbox
  BY <1>1, NoMails DEF HoldSending
<1>2. CASE ~UNCHANGED outbox
  <2>1. PICK m, log : m = sender[s].mail
                      /\ log = CloseAttempt(outbox[m].log, sender[s].seq, "failed")
    OBVIOUS
  <2>2. /\ sender[s].pc = "stale" /\ StillSending(s) /\ Hold(m, log)
        /\ UNCHANGED <<copies, erased>>
    BY <1>2, <2>1 DEF HoldSending, StillMyClaim
  <2>3. m \in Mail /\ m \notin erased /\ outbox[m] \in Row /\ outbox[m].state = "sending"
        /\ outbox[m].phase = "claimed"
    BY <2>1, <2>2, ClaimantFinds DEF Standing, Attempting
  <2>4. PICK row : row = [outbox[m] EXCEPT !.state = "held", !.reason = "stale",
                        !.phase = "none", !.expired = FALSE, !.log = log]
    OBVIOUS
  <2>5. outbox' = [outbox EXCEPT ![m] = row] /\ row.state = "held"
    BY <2>2, <2>3, <2>4 DEF Hold, SetRow, Row
  <2>6. Allowed(RowStage(outbox[m]), copies[m], RowStage(row), copies[m])
    BY <2>3, <2>5 DEF Allowed, RowStage
  <2>7. QED
    BY <2>2, <2>3, <2>5, <2>6, SenderMoves
<1>3. QED
  BY <1>1, <1>2

LEMMA StartMoves ==
  ASSUME OutboxInv, NEW s \in Sender, StartData(s)
  PROVE  Promise!PromiseNext
<1>1. CASE UNCHANGED outbox
  BY <1>1, NoMails DEF StartData
<1>2. CASE ~UNCHANGED outbox
  <2>1. PICK m : m = sender[s].mail
    OBVIOUS
  <2>2. /\ sender[s].pc = "confirmed" /\ StillSending(s)
        /\ outbox' = [outbox EXCEPT ![m] = [outbox[m] EXCEPT !.phase = "data"]]
        /\ UNCHANGED <<copies, erased>>
    BY <1>2, <2>1 DEF StartData, StillMyClaim, SetRow
  <2>3. m \in Mail /\ m \notin erased /\ outbox[m] \in Row /\ outbox[m].state = "sending"
        /\ outbox[m].phase = "claimed" /\ copies[m] = 0
    BY <2>1, <2>2, ClaimantFinds DEF Standing, Attempting, SenderKnows
  <2>4. PICK row : row = [outbox[m] EXCEPT !.phase = "data"]
    OBVIOUS
  <2>5. row.state = "sending" /\ row.phase = "data"
    BY <2>3, <2>4 DEF Row
  <2>6. Allowed(RowStage(outbox[m]), copies[m], RowStage(row), copies[m])
    BY <2>3, <2>5 DEF Allowed, RowStage
  <2>7. QED
    BY <2>2, <2>3, <2>4, <2>6, SenderMoves
<1>3. QED
  BY <1>1, <1>2

LEMMA TransmitMoves ==
  ASSUME OutboxInv, NEW s \in Sender, NEW outcome, Transmit(s, outcome)
  PROVE  Promise!PromiseNext
<1>1. PICK m : m = sender[s].mail
  OBVIOUS
<1>2. sender[s].pc = "data" /\ UNCHANGED <<outbox, erased>> /\ m \in Mail /\ copies \in [Mail -> Nat]
  BY <1>1 DEF Transmit, OutboxInv, OutboxTyped
<1>3. PICK accepted \in {0, 1} : copies' = [copies EXCEPT ![m] = copies[m] + accepted]
  BY <1>1 DEF Transmit
<1>4. copies[m] = 0 /\ (m \in erased \/ Standing(sender[s], outbox[m]))
  BY <1>1, <1>2 DEF OutboxInv, ClaimsStand, Attempting, SenderKnows
<1>5. StageOf(m) \in {"erased", "leaving"}
  BY <1>2, <1>4 DEF StageOf, RowStage, Standing
<1>6. StageOf(m)' = StageOf(m) /\ copies'[m] \in {0, 1}
      /\ \A k \in Mail : k # m => outbox'[k] = outbox[k] /\ copies'[k] = copies[k]
  BY <1>2, <1>3, <1>4 DEF StageOf
<1>7. Allowed(StageOf(m), copies[m], StageOf(m)', copies'[m])
  BY <1>4, <1>5, <1>6 DEF Allowed
<1>8. QED
  BY <1>2, <1>6, <1>7, OneMails

\* The claimant settles its row.
LEMMA SettlementMoves ==
  ASSUME OutboxInv, NEW s \in Sender, sender[s].pc \in {"accepted", "unknown", "rejected"},
         StillSending(s), NEW row, outbox' = [outbox EXCEPT ![sender[s].mail] = row],
         UNCHANGED <<copies, erased>>,
         \/ sender[s].pc = "accepted" /\ row.state = "sent"
         \/ sender[s].pc = "unknown" /\ row.state = "ambiguous"
         \/ sender[s].pc = "rejected" /\ row.state \in {"pending", "failed"}
  PROVE  Promise!PromiseNext
<1>1. PICK m : m = sender[s].mail
  OBVIOUS
<1>2. m \in Mail /\ m \notin erased /\ outbox[m].state = "sending"
      /\ Standing(sender[s], outbox[m]) /\ SenderKnows(sender[s].pc, copies[m])
  BY <1>1, ClaimantFinds DEF Attempting
<1>3. Allowed(RowStage(outbox[m]), copies[m], RowStage(row), copies[m])
  BY <1>2 DEF Allowed, RowStage, Standing, SenderKnows
<1>4. QED
  BY <1>1, <1>2, <1>3, SenderMoves

\* A step that rewrites a row but not what it says of its mail.
LEMMA RowRests ==
  ASSUME OutboxInv, NEW m \in Mail, NEW row, outbox' = [outbox EXCEPT ![m] = row],
         row.state = outbox[m].state, row.phase = outbox[m].phase, UNCHANGED <<copies, erased>>
  PROVE  Promise!PromiseNext
<1>1. outbox'[m] = row /\ \A k \in Mail : k # m => outbox'[k] = outbox[k]
  BY DEF OutboxInv, OutboxTyped
<1>2. StageOf(m)' = StageOf(m)
  BY <1>1 DEF StageOf, RowStage
<1>3. Allowed(StageOf(m), copies[m], StageOf(m)', copies'[m])
  BY <1>2 DEF Allowed
<1>4. QED
  BY <1>1, <1>3, OneMails

LEMMA SettledMoves ==
  ASSUME OutboxInv, NEW s \in Sender, SettleDelivered(s) \/ MarkMailAmbiguous(s)
  PROVE  Promise!PromiseNext
<1>1. CASE UNCHANGED outbox
  BY <1>1, NoMails DEF SettleDelivered, MarkMailAmbiguous
<1>2. CASE ~UNCHANGED outbox
  <2>1. PICK m, sent, unclear :
          /\ m = sender[s].mail
          /\ sent = [outbox[m] EXCEPT !.state = "sent", !.expired = FALSE, !.reason = "",
                       !.log = CloseAttempt(@, sender[s].seq, "sent")]
          /\ unclear = [outbox[m] EXCEPT !.state = "ambiguous", !.expired = FALSE,
                          !.log = CloseAttempt(@, sender[s].seq, "ambiguous")]
    OBVIOUS
  <2>2. /\ StillSending(s) /\ UNCHANGED <<copies, erased>>
        /\ \/ sender[s].pc = "accepted" /\ outbox' = [outbox EXCEPT ![m] = sent]
           \/ sender[s].pc = "unknown" /\ outbox' = [outbox EXCEPT ![m] = unclear]
    BY <1>2, <2>1 DEF SettleDelivered, MarkMailAmbiguous, SetRow
  <2>3. outbox[m] \in Row
    BY <2>1, <2>2, ClaimantFinds DEF Attempting
  <2>4. sent.state = "sent" /\ unclear.state = "ambiguous"
    BY <2>1, <2>3 DEF Row
  <2>5. CASE sender[s].pc = "accepted" /\ outbox' = [outbox EXCEPT ![m] = sent]
    BY <2>1, <2>2, <2>4, <2>5, SettlementMoves
  <2>6. CASE sender[s].pc = "unknown" /\ outbox' = [outbox EXCEPT ![m] = unclear]
    BY <2>1, <2>2, <2>4, <2>6, SettlementMoves
  <2>7. QED
    BY <2>2, <2>5, <2>6
<1>3. QED
  BY <1>1, <1>2

LEMMA RejectedMoves ==
  ASSUME OutboxInv, NEW s \in Sender, SettleRejected(s)
  PROVE  Promise!PromiseNext
<1>1. CASE UNCHANGED outbox
  BY <1>1, NoMails DEF SettleRejected
<1>2. PICK m, log, settled, noted :
        /\ m = sender[s].mail
        /\ log = CloseAttempt(outbox[m].log, sender[s].seq,
                              RejectionOutcome(sender[s].attempts))
        /\ settled = [outbox[m] EXCEPT !.state = AfterRejection(sender[s].attempts),
                                       !.expired = FALSE, !.log = log]
        /\ noted = [outbox[m] EXCEPT !.log = log]
  OBVIOUS
<1>3. m \in Mail /\ outbox[m] \in Row /\ sender[s].pc = "rejected" /\ UNCHANGED <<copies, erased>>
  BY <1>2, RowTypes DEF SettleRejected, OutboxInv, OutboxTyped
<1>4. CASE StillSending(s)
  <2>1. outbox' = [outbox EXCEPT ![m] = settled]
    BY <1>2, <1>4 DEF SettleRejected, SetRow
  <2>2. settled.state \in {"pending", "failed"}
    BY <1>2, <1>3 DEF Row, AfterRejection
  <2>3. QED
    BY <1>2, <1>3, <1>4, <2>1, <2>2, SettlementMoves
<1>5. CASE ~StillSending(s) /\ ~UNCHANGED outbox
  <2>1. outbox' = [outbox EXCEPT ![m] = noted]
    BY <1>2, <1>5 DEF SettleRejected, SetRow
  <2>2. noted.state = outbox[m].state /\ noted.phase = outbox[m].phase
    BY <1>2, <1>3 DEF Row
  <2>3. QED
    BY <1>3, <2>1, <2>2, RowRests
<1>6. QED
  BY <1>1, <1>4, <1>5

LEMMA TimeMoves ==
  ASSUME OutboxInv, NEW m \in Mail, ClaimExpires(m) \/ BackoffElapses(m)
  PROVE  Promise!PromiseNext
<1>1. PICK expired, due : /\ expired = [outbox[m] EXCEPT !.expired = TRUE]
                          /\ due = [outbox[m] EXCEPT !.due = TRUE]
  OBVIOUS
<1>2. UNCHANGED <<copies, erased>> /\ \/ outbox' = [outbox EXCEPT ![m] = expired]
                                      \/ outbox' = [outbox EXCEPT ![m] = due]
  BY <1>1 DEF ClaimExpires, BackoffElapses, SetRow
<1>3. /\ expired.state = outbox[m].state /\ expired.phase = outbox[m].phase
      /\ due.state = outbox[m].state /\ due.phase = outbox[m].phase
  BY <1>1, RowTypes DEF Row
<1>4. QED
  BY <1>2, <1>3, RowRests

LEMMA PurgeMoves ==
  ASSUME OutboxInv, NEW m \in Mail, PurgeSentMail(m)
  PROVE  Promise!PromiseNext
<1>1. UNCHANGED <<copies, erased>> /\ m \notin erased
  BY RowTypes DEF PurgeSentMail
<1>2. CASE outbox[m].state = "sent" /\ SetRow(m, NoRow)
  <2>1. Allowed(RowStage(outbox[m]), copies[m], RowStage(NoRow), copies[m])
    BY <1>2 DEF Allowed, RowStage, NoRow
  <2>2. QED
    BY <1>1, <1>2, <2>1, SenderMoves DEF SetRow
<1>3. CASE SetRow(m, [outbox[m] EXCEPT !.redacted = TRUE])
  <2>1. PICK row : row = [outbox[m] EXCEPT !.redacted = TRUE]
    OBVIOUS
  <2>2. row.state = outbox[m].state /\ row.phase = outbox[m].phase
    BY <2>1, RowTypes DEF Row
  <2>3. QED
    BY <1>1, <1>3, <2>1, <2>2, RowRests DEF SetRow
<1>4. QED
  BY <1>2, <1>3 DEF PurgeSentMail

LEMMA EraseMoves ==
  ASSUME OutboxInv, NEW m \in Mail, EraseNeighbor(m)
  PROVE  Promise!PromiseNext
<1>1. /\ erased' = erased \cup {m} /\ copies' = copies /\ outbox \in [Mail -> Row]
      /\ outbox' = [outbox EXCEPT ![m] = NoRow]
  BY DEF EraseNeighbor, SetRow, OutboxInv, OutboxTyped
<1>2. ASSUME NEW k \in Mail
      PROVE  Allowed(StageOf(k), copies[k], StageOf(k)', copies'[k])
  <2>1. CASE k = m
    <3>1. StageOf(k)' = "erased"
      BY <1>1, <2>1 DEF StageOf
    <3>2. QED
      BY <1>1, <3>1 DEF Allowed
  <2>2. CASE k # m
    <3>1. StageOf(k)' = StageOf(k)
      BY <1>1, <2>2 DEF StageOf
    <3>2. QED
      BY <1>1, <3>1 DEF Allowed
  <2>3. QED
    BY <2>1, <2>2
<1>3. QED
  BY <1>2, AllowedMoves

LEMMA SweepMoves ==
  ASSUME OutboxInv, SweepBeforeData \/ SweepUnclear
  PROVE  Promise!PromiseNext
<1>1. ASSUME NEW m \in Mail
      PROVE  Allowed(StageOf(m), copies[m], StageOf(m)', copies'[m])
  <2>1. /\ outbox[m] \in Row /\ copies' = copies /\ erased' = erased
        /\ RowKnows(outbox[m], copies[m])
    BY RowTypes DEF SweepBeforeData, SweepUnclear
  <2>2. CASE outbox'[m] = outbox[m]
    BY <2>1, <2>2 DEF StageOf, Allowed
  <2>3. CASE SweepBeforeData /\ StaleBeforeData(m)
    <3>1. PICK swept, row :
            /\ swept = Swept(outbox[m], AfterRejection(outbox[m].attempts),
                             RejectionOutcome(outbox[m].attempts), TRUE)
            /\ row = [swept EXCEPT !.phase = "none"]
      OBVIOUS
    <3>2. outbox'[m] = row
      BY <2>3, <3>1 DEF SweepBeforeData
    <3>3. swept.state \in {"pending", "failed"} /\ DOMAIN swept = DOMAIN outbox[m]
      BY <2>1, <3>1 DEF Swept, AfterRejection, Row
    <3>4. row.state \in {"pending", "failed"}
      BY <2>1, <3>1, <3>3 DEF Row
    <3>5. outbox[m].state = "sending" /\ outbox[m].phase = "claimed" /\ copies[m] = 0
      BY <2>1, <2>3 DEF StaleBeforeData, RowKnows
    <3>6. QED
      BY <2>1, <3>2, <3>4, <3>5 DEF StageOf, RowStage, Allowed
  <2>4. CASE SweepUnclear /\ Unclear(m)
    <3>1. PICK row : row = Swept(outbox[m], "ambiguous", "ambiguous", outbox[m].due)
      OBVIOUS
    <3>2. outbox'[m] = row
      BY <2>4, <3>1 DEF SweepUnclear
    <3>3. row.state = "ambiguous"
      BY <2>1, <3>1 DEF Swept, Row
    <3>4. QED
      BY <2>1, <2>4, <3>2, <3>3 DEF StageOf, RowStage, Allowed, Unclear
  <2>5. QED
    BY <2>2, <2>3, <2>4 DEF SweepBeforeData, SweepUnclear
<1>2. QED
  BY <1>1, AllowedMoves

LEMMA PromiseStarts == Init => Promise!PromiseInit
<1>1. SUFFICES ASSUME Init PROVE Promise!PromiseInit
  OBVIOUS
<1>2. RowStage(NoRow) = "none"
  BY DEF NoRow, RowStage
<1>3. \A m \in Mail : StageOf(m) = "none"
  BY <1>1, <1>2 DEF Init, StageOf
<1>4. QED
  BY <1>1, <1>3 DEF Init, Promise!PromiseInit

LEMMA PromiseSteps == OutboxInv /\ [Next]_vars => [Promise!PromiseNext]_Promise!promiseVars
<1>1. SUFFICES ASSUME OutboxInv, [Next]_vars PROVE Promise!PromiseNext
  OBVIOUS
<1>2. ASSUME NEW s \in Sender, Deliver(s) \/ Crash(s) \/ \E m \in Mail : ListDue(s, m)
      PROVE  Promise!PromiseNext
  <2>1. CASE \/ AttemptMail(s) \/ CheckDemand(s) \/ DialogFails(s) \/ ConfirmDemand(s)
             \/ Crash(s) \/ \E m \in Mail : ListDue(s, m)
    BY <1>1, <2>1, NoMails
       DEF AttemptMail, CheckDemand, DialogFails, ConfirmDemand, Crash, ListDue
  <2>2. QED
    BY <1>1, <1>2, <2>1, HoldPendingMoves, ClaimMoves, HoldSendingMoves, StartMoves,
       TransmitMoves, SettledMoves, RejectedMoves DEF Deliver
<1>3. ASSUME NEW m \in Mail, Decide(m) PROVE Promise!PromiseNext
  <2>1. CASE RequestMail(m)
    BY <1>1, <2>1, CreateMoves, ReopenMoves
       DEF RequestMail, HandleMahnungEmail, HandleMahnwesenBatchEmail, HandleBelegEmail,
           HandleNeighborOverviewEmail, DeliverMahnung
  <2>2. CASE ~RequestMail(m)
    BY <1>1, <1>3, <2>2, OperatorMoves DEF Decide
  <2>3. QED
    BY <2>1, <2>2
<1>4. ASSUME NEW m \in Mail, ClaimExpires(m) \/ BackoffElapses(m) \/ PurgeSentMail(m) \/ EraseNeighbor(m)
      PROVE  Promise!PromiseNext
  BY <1>1, <1>4, TimeMoves, PurgeMoves, EraseMoves
<1>5. ASSUME NEW m \in Mail, NEW amount \in Message \cup {Settled}, DemandChanges(m, amount)
      PROVE  Promise!PromiseNext
  BY <1>1, <1>5, NoMails DEF DemandChanges
<1>6. CASE SweepBeforeData \/ SweepUnclear
  BY <1>1, <1>6, SweepMoves
<1>7. CASE UNCHANGED vars
  BY <1>1, <1>7, NoMails DEF vars
<1>8. QED
  BY <1>1, <1>2, <1>3, <1>4, <1>5, <1>6, <1>7 DEF Next

\* The outbox implements the promise: with any number of senders, whatever crashes, is swept,
\* retried, held or erased, each mail takes only steps MailPromise allows.
THEOREM OutboxKeepsPromise == Spec => KeepsPromise
<1>1. OutboxInv /\ [Next]_vars => [Promise!PromiseNext]_Promise!promiseVars
  BY PromiseSteps
<1>2. QED
  BY <1>1, PromiseStarts, OutboxInvAlways, PTL DEF Spec, KeepsPromise, Promise!PromiseSpec

\* The promise itself: no mail is out twice, one that waits or failed is not out, and one that
\* is called delivered is.
THEOREM PromiseMeans == Promise!PromiseSpec => []Promise!PromiseHolds
<1>1. Promise!PromiseInit => Promise!PromiseHolds
  BY DEF Promise!PromiseInit, Promise!PromiseHolds
<1>2. Promise!PromiseHolds /\ [Promise!PromiseNext]_Promise!promiseVars => Promise!PromiseHolds'
  BY DEF Promise!PromiseHolds, Promise!PromiseNext, Promise!promiseVars, Promise!MailMoves,
     Promise!Submit, Promise!TryAgain,
     Promise!AcceptDuplicate, Promise!HandOver, Promise!ServerTakes, Promise!TakeBack,
     Promise!GiveUp, Promise!CallDelivered, Promise!CallUnclear, Promise!Forget,
     Promise!Erase, Promise!Rests, Promise!Moves, Promise!NoCopy, Promise!SameCopies
<1>3. QED
  BY <1>1, <1>2, PTL DEF Promise!PromiseSpec
=============================================================================
