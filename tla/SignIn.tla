-------------------------------- MODULE SignIn --------------------------------
(***************************************************************************)
(* Accounts, sessions and factors: what concurrent requests of users and   *)
(* administrators do to them, one database statement or transaction per    *)
(* step.  A transaction that reads before it writes is split, and holds    *)
(* its locks through its program counter.                                  *)
(***************************************************************************)
EXTENDS Naturals, FiniteSets

CONSTANTS Accounts,    \* rows of users
          Workers,     \* requests being served at the same time
          None,
          Keys,        \* passkeys an authenticator may create
          MaxFails,    \* attempts a bucket admits in its window
          MaxRequests, \* bound: requests served
          MaxClock     \* bound: TOTP time steps, passkey counters

ASSUME NobodyDistinct == None \notin Workers \cup Accounts \cup Keys \cup Nat
ASSUME BoundsNat == MaxFails \in Nat /\ MaxRequests \in Nat /\ MaxClock \in Nat

VARIABLES
  acct,       \* per account: the row of users, its unused recovery codes and its passkeys
  sessions,   \* rows of sessions
  cookies,    \* pending-2FA cookies handed out
  ceremonies, \* rows of webauthn_ceremonies that are not consumed yet
  counter,    \* per passkey: the stored signature counter, None before its registration
  fails,      \* login_attempts: the count of each bucket in its window
  policy,     \* roles that must have a second factor
  now,        \* TOTP time step
  at,         \* per worker: where its request is and what it has read
  served,     \* requests accepted so far; numbers every fresh value
  spent,      \* proofs of a second factor that were accepted and are not to be again
  reused      \* those of them that were accepted again

vars == <<acct, sessions, cookies, ceremonies, counter, fails, policy, now, at, served,
          spent, reused>>
rows == <<acct, sessions>>
tokens == <<cookies, ceremonies, counter>>
proofs == <<spent, reused>>
world == <<policy, now>>

Roles == {"admin", "editor", "viewer"}
Bucket(kind, u) == [kind |-> kind, user |-> u]
Ip == Bucket("ip", None)
AccountKey(u) == Bucket("name", u)
AcctLimitKey(u) == Bucket("acct", u)
Buckets == {Ip} \cup {Bucket(kind, u) : kind \in {"name", "acct"}, u \in Accounts}

(* A proof of a second factor: the code of a secret for a time step, a     *)
(* recovery code, a counter of a passkey.                                  *)
Proof(how, of, secret, n) == [how |-> how, of |-> of, secret |-> secret, n |-> n]
ByPassword == Proof("password", None, 0, 0)
NoInput == [how |-> "none", secret |-> 0, n |-> 0]

Row == [role : Roles \cup {"none"}, disabled : BOOLEAN, password : Nat, totp : BOOLEAN, secret : Nat,
        last : Nat, codes : SUBSET Nat, keys : SUBSET Keys]
Pcs == {"idle", "password", "pending", "policy", "factor", "spend", "session", "touch",
        "change", "stepup", "enable", "remove", "lastfactor", "cut", "regenerate", "begin",
        "add", "adminlock", "count", "apply", "reset"}
Idle == [pc |-> "idle", op |-> "none", user |-> None, seen |-> None, typed |-> 0,
         input |-> NoInput, key |-> None, by |-> ByPassword, session |-> 0, n |-> 0]

(* What an account asks about itself; what an administrator asks about one: *)
(* a new role; deactivate it; reset its password or its factor.            *)
Sensitive == {"password", "confirm", "disable", "regenerate", "addkey"}
AdminOps == {"editor", "admin", "deactivate", "password", "totp"}

Typed == [how : {"none", "totp", "recovery"}, secret : Nat, n : Nat]
Shown == [how : {"password", "totp", "recovery", "passkey"}, of : Accounts \cup Keys \cup {None},
          secret : Nat, n : Nat]
Request ==
  [pc : Pcs, op : {"none", "login", "delkey", "promote"} \cup Sensitive \cup AdminOps,
   user : Accounts \cup {None}, seen : Row \cup {None}, typed : Nat, input : Typed,
   key : Keys \cup {None}, by : Shown, session : Nat, n : Nat]

TypeOK ==
  /\ acct \in [Accounts -> Row]
  /\ \A s \in sessions : s.id \in Nat /\ s.user \in Accounts
  /\ \A c \in cookies : c.user \in Accounts
  /\ \A c \in ceremonies : c.user \in Accounts \cup {None}
  /\ counter \in [Keys -> Nat \cup {None}]
  /\ fails \in [Buckets -> 0..MaxFails]
  /\ policy \subseteq {"admin", "editor"} /\ now \in Nat \ {0} /\ served \in Nat
  /\ at \in [Workers -> Request]
  /\ spent \subseteq Shown /\ reused \subseteq Shown

Active(u) == ~acct[u].disabled
Admins == {u \in Accounts : acct[u].role = "admin" /\ Active(u)}
HasFactor(row) == row.totp \/ row.keys # {}
Requires(row) == ~row.disabled /\ row.role \in policy

(* An account that is still to be created is a disabled row with no past.  *)
Unborn == [role |-> "none", disabled |-> TRUE, password |-> 0, totp |-> FALSE, secret |-> 0,
           last |-> 0, codes |-> {}, keys |-> {}]
Born(role) == [Unborn EXCEPT !.role = role, !.disabled = FALSE, !.password = 1]
Protected(row) == [row EXCEPT !.totp = TRUE, !.secret = 1, !.codes = {1}]
SessionsOf(u) == {s \in sessions : s.user = u}

(* The state of the credentials a pending cookie is signed over.           *)
PendingTwoFactorBinding(row) ==
  <<row.password, row.totp, row.secret, row.last, Cardinality(row.codes)>>

(* Sign-ins already begun: one that waits for the administrator's second   *)
(* factor, and two with a passkey.                                         *)
Pending(u) == [user |-> u, binding |-> PendingTwoFactorBinding(acct[u])]
Begun == [id : {0, MaxRequests + 1}, user : {None}]

(* The administrator has signed in; so has the other account, if any.      *)
Init ==
  /\ policy \in {{}, {"admin"}}
  /\ \E chief \in Accounts, keys \in {{}, Keys}, totp \in BOOLEAN :
     \E other \in {Unborn, Born("editor"), Born("admin")} :
       acct = [u \in Accounts |->
         IF u = chief THEN [(IF totp THEN Protected(Born("admin")) ELSE Born("admin")) EXCEPT !.keys = keys]
         ELSE other]
  /\ cookies = {Pending(u) : u \in {v \in Accounts : acct[v].totp}}
  /\ ceremonies = IF \A u \in Accounts : acct[u].keys = {} THEN {} ELSE Begun
  /\ sessions = {[id |-> 0, user |-> u, by |-> ByPassword] : u \in {v \in Accounts : Active(v)}}
  /\ counter = [k \in Keys |-> IF \E u \in Accounts : k \in acct[u].keys THEN 0 ELSE None]
  /\ fails = [b \in Buckets |-> 0]
  /\ now = 1 /\ served = 0 /\ spent = {} /\ reused = {}
  /\ at = [w \in Workers |-> Idle]

Arrives(w) == at[w].pc = "idle" /\ served < MaxRequests /\ served' = served + 1
Proceeds == UNCHANGED served
Ends(w) == at' = [at EXCEPT ![w] = Idle]
Goes(w, pc) == at' = [at EXCEPT ![w].pc = pc]

(* Faulty variant: the transactions do not wait for each other.            *)
Unguarded == TRUE

(* Rows locked by a transaction that is still running.                     *)
Unlocked(u) == \A w \in Workers : at[w].user = u => at[w].pc \notin {"lastfactor", "cut", "apply"}

PolicyUnlocked == \A w \in Workers : at[w].pc # "cut"

AdminLockFree == \A w \in Workers : at[w].pc \notin {"count", "apply"}

(* Every attempt is charged before it is looked at; a refused one is not.  *)
Admits(b) == fails[b] < MaxFails
Charge(bs) == fails' = [b \in Buckets |-> IF b \in bs THEN fails[b] + 1 ELSE fails[b]]
Refund == IF fails[Ip] > 0 THEN fails[Ip] - 1 ELSE 0
Fail == fails' = [fails EXCEPT ![Ip] = IF @ < MaxFails THEN @ + 1 ELSE @]

Accept(p) == spent' = spent \cup {p} /\ reused' = reused \cup ({p} \cap spent)

(* The row's last step is set anew: the steps after it are open again.     *)
StillSpent == {p \in spent : p.how = "totp" => p.n <= acct'[p.of].last}
StepsReopen == spent' = StillSpent /\ UNCHANGED reused

-----------------------------------------------------------------------------
(*                         Signing in: auth.go                             *)

(* The address is charged, then the name.                                  *)
Login(w, u, right) ==
  /\ Arrives(w)
  /\ Charge(IF ~Admits(Ip) THEN {} ELSE IF ~Admits(AccountKey(u)) THEN {Ip} ELSE {Ip, AccountKey(u)})
  /\ IF Admits(Ip) /\ Admits(AccountKey(u))
     THEN at' = [at EXCEPT ![w] = [Idle EXCEPT !.pc = "password", !.op = "login", !.user = u,
            !.typed = IF right THEN acct[u].password ELSE 0, !.n = served']]
     ELSE UNCHANGED at
  /\ UNCHANGED <<rows, tokens, proofs, world>>

PasswordHolds(w) ==
  LET u == at[w].user IN Active(u) /\ at[w].typed = acct[u].password

AuthenticateUser(w) ==
  /\ at[w].pc = "password"
  /\ LET u == at[w].user IN
     IF PasswordHolds(w)
     THEN /\ fails' = [fails EXCEPT ![Ip] = Refund, ![AccountKey(u)] = 0]
          /\ at' = [at EXCEPT ![w].pc = IF acct[u].totp THEN "pending" ELSE "policy", ![w].seen = acct[u]]
     ELSE Ends(w) /\ UNCHANGED fails
  /\ Proceeds /\ UNCHANGED <<rows, tokens, proofs, world>>

SignPending2FA(w) ==
  /\ at[w].pc = "pending"
  /\ LET u == at[w].user IN
     cookies' = IF Admits(AcctLimitKey(u)) /\ Active(u)
                THEN cookies \cup {[user |-> u, binding |-> PendingTwoFactorBinding(acct[u])]}
                ELSE cookies
  /\ Ends(w) /\ Proceeds
  /\ UNCHANGED <<rows, ceremonies, counter, proofs, world, fails>>

(* A password alone is refused where the policy wants a factor and the     *)
(* account has a passkey to give it.                                       *)
SecurityPolicy(w) ==
  /\ at[w].pc = "policy"
  /\ IF at[w].seen.keys # {} /\ Requires(at[w].seen) THEN Ends(w) ELSE Goes(w, "session")
  /\ Proceeds /\ UNCHANGED <<rows, tokens, proofs, world, fails>>

(* What may be typed: a code near the present time for the secret of the   *)
(* moment, a recovery code, nonsense.                                      *)
Inputs(u) ==
  {NoInput} \cup [how : {"totp"}, secret : {acct[u].secret}, n : {now - 1, now, now + 1} \ {0}]
            \cup [how : {"recovery"}, secret : {0}, n : acct[u].codes]

Login2FA(w, c, input) ==
  /\ Arrives(w)
  /\ LET u == c.user
         genuine == Active(u) /\ c.binding = PendingTwoFactorBinding(acct[u])
     IN /\ Charge(IF ~genuine \/ ~Admits(AcctLimitKey(u)) THEN {}
                  ELSE IF ~Admits(Ip) THEN {AcctLimitKey(u)} ELSE {AcctLimitKey(u), Ip})
        /\ IF genuine /\ Admits(AcctLimitKey(u)) /\ Admits(Ip)
           THEN at' = [at EXCEPT ![w] = [Idle EXCEPT !.pc = "factor", !.op = "login", !.user = u,
                  !.input = input, !.n = served']]
           ELSE UNCHANGED at
  /\ UNCHANGED <<rows, tokens, proofs, world>>

GetTotpSecret(w) ==
  /\ at[w].pc = "factor"
  /\ LET u == at[w].user IN
     IF Active(u) /\ (acct[u].totp \/ at[w].op # "login")
     THEN at' = [at EXCEPT ![w].pc = "spend", ![w].seen = acct[u]]
     ELSE Ends(w)
  /\ Proceeds /\ UNCHANGED <<rows, tokens, proofs, world, fails>>

ValidateStep(secret, input) ==
  /\ input.how = "totp" /\ secret # 0 /\ input.secret = secret
  /\ input.n \in {now - 1, now, now + 1}

(* Faulty variant: the step of the last code is accepted again.            *)
AcceptTotpStepAgain(w) ==
  LET u == at[w].user IN
  /\ ValidateStep(at[w].seen.secret, at[w].input)
  /\ Active(u) /\ acct[u].last <= at[w].input.n

(* The compare-and-set of the step, and the one-time recovery code.        *)
AcceptTotpStep(w) ==
  LET u == at[w].user IN
  /\ ValidateStep(at[w].seen.secret, at[w].input)
  /\ Active(u) /\ acct[u].last < at[w].input.n

ConsumeRecoveryCode(w) == at[w].input.how = "recovery" /\ at[w].input.n \in acct[at[w].user].codes

Spent(w) ==
  LET u == at[w].user IN
  IF at[w].input.how = "totp"
  THEN [acct EXCEPT ![u].last = at[w].input.n]
  ELSE [acct EXCEPT ![u].codes = @ \ {at[w].input.n}]
SpentProof(w) ==
  Proof(at[w].input.how, at[w].user, at[w].input.secret, at[w].input.n)

AfterFactor == [login |-> "session", disable |-> "remove", addkey |-> "begin"]

(* The step is kept in the row of users, which may be locked; the codes    *)
(* have rows of their own.                                                 *)
VerifySecondFactor(w) ==
  /\ at[w].pc = "spend"
  /\ ValidateStep(at[w].seen.secret, at[w].input) => Unlocked(at[w].user)
  /\ IF AcceptTotpStep(w) \/ ConsumeRecoveryCode(w)
     THEN /\ acct' = Spent(w) /\ Accept(SpentProof(w))
          /\ fails' = [fails EXCEPT ![AcctLimitKey(at[w].user)] = 0,
                                    ![Ip] = IF at[w].op = "login" THEN Refund ELSE @]
          /\ at' = [at EXCEPT ![w].pc = AfterFactor[at[w].op], ![w].by = SpentProof(w)]
     ELSE Ends(w) /\ UNCHANGED <<acct, proofs, fails>>
  /\ Proceeds /\ UNCHANGED <<sessions, tokens, world>>

(* Faulty variant: the session trusts what the sign-in had read.           *)
CreateSessionUnchecked(w) ==
  /\ at[w].pc = "session" /\ Unlocked(at[w].user)
  /\ sessions' = sessions \cup {[id |-> at[w].n, user |-> at[w].user, by |-> at[w].by]}
  /\ Ends(w) /\ Proceeds /\ UNCHANGED <<acct, tokens, proofs, world, fails>>

CreateSession(w) ==
  /\ at[w].pc = "session" /\ Unlocked(at[w].user)
  /\ sessions' = IF Active(at[w].user)
                 THEN sessions \cup {[id |-> at[w].n, user |-> at[w].user, by |-> at[w].by]}
                 ELSE sessions
  /\ Ends(w) /\ Proceeds /\ UNCHANGED <<acct, tokens, proofs, world, fails>>

-----------------------------------------------------------------------------
(*                        Passkeys: webauthn.go                            *)

PasskeyLoginBegin(w) ==
  /\ Arrives(w) /\ Admits(Ip)
  /\ ceremonies' = ceremonies \cup {[id |-> served', user |-> None]}
  /\ UNCHANGED <<rows, cookies, counter, proofs, world, fails, at>>

(* The stored counter only moves forward; 0 is a key that does not count.  *)
Advances(k, m) == counter[k] < m \/ (m = 0 /\ counter[k] = 0)

(* The ceremony is consumed whatever comes of it.  The library finds the   *)
(* owner of the key and compares the asserted counter with the stored one. *)
PasskeyLoginFinish(w, c, k, m) ==
  /\ Arrives(w) /\ c.user = None
  /\ ceremonies' = ceremonies \ {c}
  /\ LET owner == {u \in Accounts : Active(u) /\ k \in acct[u].keys}
         genuine == owner # {} /\ Advances(k, m)
     IN IF Admits(Ip) /\ genuine
        THEN /\ at' = [at EXCEPT ![w] = [Idle EXCEPT !.pc = "touch", !.op = "login",
                         !.user = CHOOSE u \in owner : TRUE, !.key = k, !.by.n = m, !.n = served']]
             /\ UNCHANGED fails
        ELSE /\ UNCHANGED at
             /\ IF Admits(Ip) THEN Fail ELSE UNCHANGED fails
  /\ UNCHANGED <<rows, cookies, counter, proofs, world>>

TouchWebauthnCredential(w) ==
  /\ at[w].pc = "touch"
  /\ LET k == at[w].key
         m == at[w].by.n
         by == Proof("passkey", k, 0, m)
     IN IF /\ \E u \in Accounts : k \in acct[u].keys
           /\ Advances(k, m)
        THEN /\ counter' = [counter EXCEPT ![k] = m]
             /\ at' = [at EXCEPT ![w].pc = "session", ![w].by = by]
             /\ IF m > 0 THEN Accept(by) ELSE UNCHANGED proofs
             /\ UNCHANGED fails
        ELSE Fail /\ Ends(w) /\ UNCHANGED <<counter, proofs>>
  /\ Proceeds /\ UNCHANGED <<rows, cookies, ceremonies, world>>

PasskeyRegisterBegin(w) ==
  /\ at[w].pc = "begin"
  /\ ceremonies' = ceremonies \cup {[id |-> at[w].n, user |-> at[w].user]}
  /\ Ends(w) /\ Proceeds /\ UNCHANGED <<rows, cookies, counter, proofs, world, fails>>

PasskeyRegisterFinish(w, s, c, k) ==
  /\ Arrives(w) /\ Active(s.user) /\ c.user = s.user /\ counter[k] = None
  /\ ceremonies' = ceremonies \ {c}
  /\ at' = [at EXCEPT ![w] = [Idle EXCEPT !.pc = "add", !.user = s.user, !.key = k]]
  /\ UNCHANGED <<rows, cookies, counter, proofs, world, fails>>

AddWebauthnCredential(w) ==
  /\ at[w].pc = "add" /\ Unlocked(at[w].user)
  /\ LET k == at[w].key IN
     IF Active(at[w].user) /\ counter[k] = None
     THEN /\ acct' = [acct EXCEPT ![at[w].user].keys = @ \cup {k}]
          /\ counter' = [counter EXCEPT ![k] = 0]
     ELSE UNCHANGED <<acct, counter>>
  /\ Ends(w) /\ Proceeds /\ UNCHANGED <<sessions, cookies, ceremonies, proofs, world, fails>>

-----------------------------------------------------------------------------
(*              An account's own factors and sessions: account.go          *)

(* The request has a session, and the row as it was when it was resolved.  *)
SensitiveRequest(w, s, op, right, input) ==
  /\ Arrives(w) /\ Active(s.user)
  /\ op = "regenerate" => acct[s.user].totp
  /\ op = "confirm" => acct[s.user].secret # 0
  /\ ~right \/ op \notin {"confirm", "disable", "addkey"} => input = NoInput
  /\ LET u == s.user IN
     IF Admits(AcctLimitKey(u))
     THEN /\ Charge({AcctLimitKey(u)})
          /\ at' = [at EXCEPT ![w] = [Idle EXCEPT !.pc = IF op = "password" THEN "change" ELSE "stepup",
               !.op = op, !.user = u, !.seen = acct[u], !.typed = IF right THEN acct[u].password ELSE 0,
               !.input = input, !.session = s.id, !.n = served']]
     ELSE UNCHANGED <<fails, at>>
  /\ UNCHANGED <<rows, tokens, proofs, world>>

(* The old password and a session that still exists, then a new password   *)
(* and no session but a new one.                                           *)
ChangePassword(w) ==
  /\ at[w].pc = "change" /\ Unlocked(at[w].user)
  /\ LET u == at[w].user IN
     IF PasswordHolds(w) /\ \E s \in SessionsOf(u) : s.id = at[w].session
     THEN /\ acct' = [acct EXCEPT ![u].password = at[w].n + 1]
          /\ sessions' = (sessions \ SessionsOf(u)) \cup {[id |-> at[w].n, user |-> u, by |-> ByPassword]}
          /\ fails' = [fails EXCEPT ![AcctLimitKey(u)] = 0]
     ELSE UNCHANGED <<rows, fails>>
  /\ Ends(w) /\ Proceeds /\ UNCHANGED <<tokens, proofs, world>>

(* The password again; an enabled factor again where it could be evaded.   *)
StepUp(w) ==
  /\ at[w].pc = "stepup"
  /\ LET op == at[w].op
         asks == op \in {"disable", "addkey"} /\ at[w].seen.totp
         next == CASE asks -> "factor"
                   [] op = "disable" -> "remove"
                   [] op = "addkey" -> "begin"
                   [] op = "regenerate" -> "regenerate"
                   [] op = "confirm" -> "enable"
     IN IF PasswordHolds(w) /\ (op = "confirm" => ValidateStep(at[w].seen.secret, at[w].input))
        THEN /\ Goes(w, next)
             /\ fails' = IF asks THEN fails ELSE [fails EXCEPT ![AcctLimitKey(at[w].user)] = 0]
        ELSE Ends(w) /\ UNCHANGED fails
  /\ Proceeds /\ UNCHANGED <<rows, tokens, proofs, world>>

(* A visit of the setup page stores a new secret, never over a live one.   *)
SetTotp(w, s) ==
  /\ Arrives(w) /\ Active(s.user) /\ ~acct[s.user].totp /\ Unlocked(s.user)
  /\ acct' = [acct EXCEPT ![s.user].secret = served' + 1]
  /\ UNCHANGED <<sessions, tokens, proofs, world, fails, at>>

(* One code stands for the ten that are shown once.                        *)
FreshCodes(w) == {at[w].n + 1}

(* The step of the confirming code becomes the last one, be it older than  *)
(* the last: a factor that is already enabled may be confirmed again.      *)
EnableTwoFactor(w) ==
  /\ at[w].pc = "enable" /\ Unlocked(at[w].user)
  /\ LET u == at[w].user IN
     IF Active(u)
     THEN /\ acct' = [acct EXCEPT ![u].totp = TRUE, ![u].secret = at[w].seen.secret,
               ![u].last = at[w].input.n, ![u].codes = FreshCodes(w)]
          /\ spent' = StillSpent \cup {Proof("totp", u, at[w].seen.secret, at[w].input.n)}
          /\ UNCHANGED reused
     ELSE UNCHANGED <<acct, proofs>>
  /\ Ends(w) /\ Proceeds /\ UNCHANGED <<sessions, tokens, world, fails>>

ReplaceRecoveryCodes(w) ==
  /\ at[w].pc = "regenerate" /\ Unlocked(at[w].user)
  /\ acct' = IF Active(at[w].user) THEN [acct EXCEPT ![at[w].user].codes = FreshCodes(w)] ELSE acct
  /\ Ends(w) /\ Proceeds /\ UNCHANGED <<sessions, tokens, proofs, world, fails>>

(* The early answer of keepsSecondFactor decides nothing and is left out.  *)
DeletePasskey(w, s, k) ==
  /\ Arrives(w) /\ Active(s.user) /\ k \in acct[s.user].keys
  /\ at' = [at EXCEPT ![w] = [Idle EXCEPT !.pc = "remove", !.op = "delkey", !.user = s.user, !.key = k]]
  /\ UNCHANGED <<rows, tokens, proofs, world, fails>>

(* Removing a factor: lock the row and read it; read the policy and what   *)
(* remains; remove.  Three statements of one transaction.                  *)
LockFactors(w) ==
  /\ at[w].pc = "remove" /\ Unlocked(at[w].user)
  /\ IF Active(at[w].user)
     THEN at' = [at EXCEPT ![w].pc = "lastfactor", ![w].seen = acct[at[w].user]]
     ELSE Ends(w)
  /\ Proceeds /\ UNCHANGED <<rows, tokens, proofs, world, fails>>

Remains(w) ==
  \/ ~Requires(at[w].seen)
  \/ at[w].op = "delkey" /\ at[w].seen.totp
  \/ acct[at[w].user].keys \ {at[w].key} # {}

CheckFactorRemoval(w) ==
  /\ at[w].pc = "lastfactor"
  /\ IF Remains(w) THEN Goes(w, "cut") ELSE Ends(w)
  /\ Proceeds /\ UNCHANGED <<rows, tokens, proofs, world, fails>>

RemoveFactor(w) ==
  /\ at[w].pc = "cut"
  /\ acct' = IF at[w].op = "delkey"
             THEN [acct EXCEPT ![at[w].user].keys = @ \ {at[w].key}]
             ELSE [acct EXCEPT ![at[w].user].totp = FALSE, ![at[w].user].secret = 0,
                    ![at[w].user].last = 0, ![at[w].user].codes = {}]
  /\ StepsReopen
  /\ Ends(w) /\ Proceeds /\ UNCHANGED <<sessions, tokens, world, fails>>

(* Logging out, ending one session, ending all but this one.               *)
EndSessions(w, s) ==
  /\ Arrives(w) /\ Active(s.user)
  /\ \E gone \in {{t} : t \in SessionsOf(s.user)} \cup {SessionsOf(s.user) \ {s}} :
       sessions' = sessions \ gone
  /\ UNCHANGED <<acct, tokens, proofs, world, fails, at>>

-----------------------------------------------------------------------------
(*                    Administration: admin.go, store.go                   *)

AdminRequest(w, s, u, op) ==
  /\ Arrives(w) /\ s.user \in Admins
  /\ op = "deactivate" => u # s.user
  /\ at' = [at EXCEPT ![w] = [Idle EXCEPT !.op = op, !.user = u, !.n = served',
       !.pc = IF op \in {"password", "totp"} THEN "reset" ELSE "adminlock"]]
  /\ UNCHANGED <<rows, tokens, proofs, world, fails>>

(* Changes of who administers wait for each other.                         *)
TakeAdminLock(w) ==
  /\ at[w].pc = "adminlock" /\ AdminLockFree
  /\ Goes(w, "count") /\ Proceeds /\ UNCHANGED <<rows, tokens, proofs, world, fails>>

LeavesAdmin(w) == at[w].op \notin {"admin", "promote"} /\ at[w].user \in Admins => Admins \ {at[w].user} # {}

CountAdmins(w) ==
  /\ at[w].pc = "count" /\ Unlocked(at[w].user)
  /\ IF Active(at[w].user) /\ LeavesAdmin(w) THEN Goes(w, "apply") ELSE Ends(w)
  /\ Proceeds /\ UNCHANGED <<rows, tokens, proofs, world, fails>>

Deactivated(row) == [row EXCEPT !.disabled = TRUE, !.password = 0, !.totp = FALSE, !.secret = 0,
                                !.last = 0, !.codes = {}, !.keys = {}]

ApplyRole(w) ==
  /\ at[w].pc = "apply"
  /\ LET u == at[w].user IN
     /\ acct' = [acct EXCEPT ![u] =
          CASE at[w].op = "deactivate" -> Deactivated(@)
            [] at[w].op = "promote" -> [@ EXCEPT !.role = "admin"]
            [] OTHER -> [@ EXCEPT !.role = at[w].op]]
     /\ sessions' = sessions \ SessionsOf(u)
  /\ StepsReopen
  /\ IF at[w].op = "promote" THEN Goes(w, "reset") ELSE Ends(w)
  /\ Proceeds /\ UNCHANGED <<tokens, world, fails>>

(* An administrator's reset ends the sessions and takes the passkeys; that *)
(* of the factor leaves the step clock where it was.                       *)
ResetRow(w, row) ==
  IF at[w].op = "totp" THEN [row EXCEPT !.totp = FALSE, !.secret = 0, !.codes = {}, !.keys = {}]
  ELSE [row EXCEPT !.password = at[w].n + 1, !.keys = {}]

Reset(w) ==
  /\ at[w].pc = "reset" /\ Unlocked(at[w].user)
  /\ LET u == at[w].user IN
     IF Active(u)
     THEN /\ acct' = [acct EXCEPT ![u] = ResetRow(w, @)]
          /\ sessions' = sessions \ SessionsOf(u)
     ELSE UNCHANGED rows
  /\ Ends(w) /\ Proceeds /\ UNCHANGED <<tokens, proofs, world, fails>>

CreateAccount(w, s, u, role) ==
  /\ Arrives(w) /\ s.user \in Admins /\ acct[u] = Unborn
  /\ acct' = [acct EXCEPT ![u] = Born(role)]
  /\ UNCHANGED <<sessions, tokens, proofs, world, fails, at>>

UpdateSecurityPolicy(w, s, p) ==
  /\ Arrives(w) /\ s.user \in Admins /\ PolicyUnlocked
  /\ policy' = p
  /\ UNCHANGED <<rows, tokens, proofs, now, fails, at>>

(* ADMIN_PASSWORD_RESET at boot: promote the named account, then reset it. *)
EnsureAdmin(w, u) ==
  /\ Arrives(w) /\ Active(u)
  /\ at' = [at EXCEPT ![w] = [Idle EXCEPT !.op = "promote", !.user = u, !.n = served',
       !.pc = IF u \in Admins THEN "reset" ELSE "adminlock"]]
  /\ UNCHANGED <<rows, tokens, proofs, world, fails>>

-----------------------------------------------------------------------------
(* Expiries count against the bound of requests.                           *)
Expires == served < MaxRequests /\ served' = served + 1

PurgeExpiredSessions ==
  /\ Expires /\ \E s \in sessions : sessions' = sessions \ {s}
  /\ UNCHANGED <<acct, tokens, proofs, world, fails, at>>

(* A window is much longer than a request: none is being served meanwhile. *)
WindowElapses ==
  /\ Expires /\ \A w \in Workers : at[w].pc = "idle"
  /\ \E b \in Buckets : fails[b] > 0 /\ fails' = [fails EXCEPT ![b] = 0]
  /\ UNCHANGED <<rows, tokens, proofs, world, at>>

ClockTicks ==
  /\ now < MaxClock /\ now' = now + 1
  /\ UNCHANGED <<rows, tokens, proofs, policy, fails, at, served>>

Signing(w) ==
  \/ \E u \in Accounts, right \in BOOLEAN : Login(w, u, right)
  \/ \E c \in cookies : \E input \in Inputs(c.user) : Login2FA(w, c, input)
  \/ AuthenticateUser(w) \/ SignPending2FA(w) \/ SecurityPolicy(w) \/ GetTotpSecret(w)
  \/ VerifySecondFactor(w) \/ CreateSession(w)
Passkeys(w) ==
  \/ PasskeyLoginBegin(w) \/ TouchWebauthnCredential(w) \/ PasskeyRegisterBegin(w)
  \/ \E c \in ceremonies, k \in Keys, m \in 0..MaxClock : PasskeyLoginFinish(w, c, k, m)
  \/ \E s \in sessions, c \in ceremonies, k \in Keys : PasskeyRegisterFinish(w, s, c, k)
  \/ AddWebauthnCredential(w) \/ \E s \in sessions, k \in Keys : DeletePasskey(w, s, k)
OwnAccount(w) ==
  \/ \E s \in sessions, op \in Sensitive, right \in BOOLEAN : \E input \in Inputs(s.user) :
       SensitiveRequest(w, s, op, right, input)
  \/ ChangePassword(w) \/ StepUp(w) \/ EnableTwoFactor(w) \/ ReplaceRecoveryCodes(w)
  \/ LockFactors(w) \/ CheckFactorRemoval(w) \/ RemoveFactor(w)
  \/ \E s \in sessions : SetTotp(w, s) \/ EndSessions(w, s)
Administration(w) ==
  \/ \E s \in sessions, u \in Accounts, op \in AdminOps : AdminRequest(w, s, u, op)
  \/ \E s \in sessions, u \in Accounts, role \in Roles : CreateAccount(w, s, u, role)
  \/ \E s \in sessions, p \in SUBSET {"admin", "editor"} : UpdateSecurityPolicy(w, s, p)
  \/ TakeAdminLock(w) \/ CountAdmins(w) \/ ApplyRole(w) \/ Reset(w)
  \/ \E u \in Accounts : EnsureAdmin(w, u)

Next ==
  \/ \E w \in Workers : Signing(w) \/ Passkeys(w) \/ OwnAccount(w) \/ Administration(w)
  \/ PurgeExpiredSessions \/ WindowElapses \/ ClockTicks

Spec == Init /\ [][Next]_vars

-----------------------------------------------------------------------------
(* Two administrators who demote or deactivate each other, or themselves,  *)
(* at the same time never leave the program without one (store.go).        *)
AdminRemains == Admins # {}

(* Deactivation is final for what was in flight: a request that had passed *)
(* its checks leaves a retired account no session, factor or passkey.      *)
DeactivatedHoldsNothing ==
  \A u \in Accounts : acct[u].disabled =>
    SessionsOf(u) = {} /\ ~HasFactor(acct[u]) /\ acct[u].codes = {} /\ acct[u].password = 0

(* A recovery code and a value of a passkey's counter open one session or  *)
(* pass one step-up, however many requests present them at once.  So does  *)
(* the code of a time step, the one typed at the confirmation of the       *)
(* factor included, until the factor is confirmed again or removed: that   *)
(* sets the last step anew, and the steps after it count as unused.        *)
ProofUsedOnce == reused = {}
=============================================================================
