---------------------------- MODULE MailPromise ----------------------------
(***************************************************************************)
(* What the outbox promises about each mail, whoever delivers it, dies on  *)
(* the way or tries again: an abstract specification of MailOutbox.        *)
(*                                                                         *)
(* A mail handed over is given to the SMTP server once.  It comes back to  *)
(* the queue, or is called failed, only if the server does not have it;    *)
(* it is called delivered only if the server has it.  Whoever cannot tell  *)
(* says so, and then only a person who accepts a duplicate sends it again. *)
(***************************************************************************)
EXTENDS Naturals

CONSTANT Mail

VARIABLES
  stage,   \* what is known of each mail
  copies   \* copies the server took since its duplicates were last accepted

promiseVars == <<stage, copies>>

Stages == {"none", "waiting", "leaving", "delivered", "failed", "unclear", "erased"}

PromiseInit ==
  /\ stage = [m \in Mail |-> "none"]
  /\ copies = [m \in Mail |-> 0]

\* A mail that goes from one stage to another.
Moves(m, from, to) == stage[m] \in from /\ stage'[m] = to
NoCopy(m) == copies[m] = 0 /\ copies'[m] = 0
SameCopies(m) == copies'[m] = copies[m]

\* A new mail, one tried again after a failure, and one whose outcome is
\* unclear and that may arrive twice.
Submit(m) == Moves(m, {"none"}, "waiting") /\ copies'[m] = 0
TryAgain(m) == Moves(m, {"failed"}, "waiting") /\ NoCopy(m)
AcceptDuplicate(m) == Moves(m, {"unclear"}, "waiting") /\ copies'[m] = 0

HandOver(m) == Moves(m, {"waiting"}, "leaving") /\ NoCopy(m)

\* The server takes a mail that was handed over, once, although the mail may
\* have been erased meanwhile.
ServerTakes(m) ==
  /\ stage[m] \in {"leaving", "erased"} /\ stage'[m] = stage[m]
  /\ copies[m] = 0 /\ copies'[m] = 1

TakeBack(m) == Moves(m, {"leaving"}, "waiting") /\ NoCopy(m)
GiveUp(m) == Moves(m, {"waiting", "leaving"}, "failed") /\ NoCopy(m)
CallDelivered(m) == Moves(m, {"leaving"}, "delivered") /\ copies[m] = 1 /\ SameCopies(m)
CallUnclear(m) == Moves(m, {"waiting", "leaving"}, "unclear") /\ SameCopies(m)

\* Delivered mails are forgotten in time, those of an erased neighbor at once.
Forget(m) == Moves(m, {"delivered"}, "none") /\ SameCopies(m)
Erase(m) == Moves(m, Stages \ {"erased"}, "erased") /\ SameCopies(m)

Rests(m) == stage'[m] = stage[m] /\ SameCopies(m)

MailMoves(m) ==
  \/ Submit(m) \/ TryAgain(m) \/ AcceptDuplicate(m) \/ HandOver(m) \/ ServerTakes(m)
  \/ TakeBack(m) \/ GiveUp(m) \/ CallDelivered(m) \/ CallUnclear(m)
  \/ Forget(m) \/ Erase(m) \/ Rests(m)

\* A sweep decides about many mails at once, each by itself.
PromiseNext == \A m \in Mail : MailMoves(m)

PromiseSpec == PromiseInit /\ [][PromiseNext]_promiseVars

\* Whatever order these steps come in, no mail is out twice, one that waits or
\* failed is not out, and one that is called delivered is.
PromiseHolds ==
  \A m \in Mail : /\ copies[m] \in {0, 1}
                  /\ stage[m] \in {"waiting", "failed"} => copies[m] = 0
                  /\ stage[m] = "delivered" => copies[m] = 1
=============================================================================
