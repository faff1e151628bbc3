---------------------------- MODULE AccessProofs ----------------------------
(***************************************************************************)
(* Theorems about what administrators watch over: the accounts with their  *)
(* sessions and factors (SignIn), the prices of bookings with the preview  *)
(* of a recalculation (PriceBase), and the audit log with its hash chains  *)
(* (AuditChain); for any number of accounts, requests, passkeys, bases,    *)
(* items, terms, bookings, rows and backups, and any bound.                *)
(***************************************************************************)
EXTENDS SignIn, PriceBase, AuditChain, SumProofs, SequenceTheorems, TLAPS

-----------------------------------------------------------------------------
(* What is known of a request by its place.                                *)

Placed(r) ==
  /\ r.pc # "idle" => r.user \in Accounts
  /\ r.pc \in {"policy", "spend", "stepup", "enable", "lastfactor"} => r.seen \in Row
  /\ r.pc \in {"factor", "spend"} => r.op \in {"login", "disable", "addkey"}
  /\ r.pc = "stepup" => r.op \in Sensitive \ {"password"}
  /\ r.pc \in {"stepup", "enable", "regenerate"} => r.n # 0
  /\ r.pc \in {"touch", "add"} => r.key \in Keys
  /\ r.pc \in {"adminlock", "count", "apply"} => r.op \in {"editor", "admin", "deactivate", "promote"}

AllPlaced == at \in [Workers -> Request] /\ \A w \in Workers : Placed(at[w])

TypeInv == TypeOK /\ AllPlaced

USE DEF rows, tokens, proofs, world

\* What a step may make of the request w: only the administrators' lock and
\* count lead to "count" and "apply"; a fresh number comes with an arrival.
Proper(w, r) ==
  /\ r \in Request /\ Placed(r)
  /\ r.pc = "count" => TakeAdminLock(w)
  /\ r.pc = "apply" => CountAdmins(w)
  /\ r.n \in {0, at[w].n} \/ (Arrives(w) /\ r.n = served')

Moves(w) == at' = at \/ \E r : Proper(w, r) /\ at' = [at EXCEPT ![w] = r]

LEMMA IdleRequest == Idle \in Request /\ Placed(Idle) /\ Idle.pc = "idle" /\ Idle.n = 0
BY DEF Idle, Request, Placed, Pcs, NoInput, Typed, ByPassword, Proof, Shown

LEMMA RequestEnds ==
  ASSUME NEW w \in Workers, Ends(w)
  PROVE  Moves(w)
<1>1. Proper(w, Idle)
  BY IdleRequest DEF Proper
<1> QED
  BY <1>1 DEF Ends, Moves

\* A request that goes on keeps what it knows.
LEMMA RequestGoes ==
  ASSUME TypeInv, NEW w \in Workers, NEW pc \in Pcs, Goes(w, pc),
         pc # "idle" => at[w].user \in Accounts,
         pc \in {"policy", "spend", "stepup", "enable", "lastfactor"} => at[w].seen \in Row,
         pc \in {"factor", "spend"} => at[w].op \in {"login", "disable", "addkey"},
         pc = "stepup" => at[w].op \in Sensitive \ {"password"},
         pc \in {"stepup", "enable", "regenerate"} => at[w].n # 0,
         pc \in {"touch", "add"} => at[w].key \in Keys,
         pc \in {"adminlock", "count", "apply"} =>
           at[w].op \in {"editor", "admin", "deactivate", "promote"},
         pc = "count" => TakeAdminLock(w),
         pc = "apply" => CountAdmins(w)
  PROVE  Moves(w)
<1> DEFINE r == [at[w] EXCEPT !.pc = pc]
<1>1. at[w] \in Request
  BY DEF TypeInv, AllPlaced
<1>2. r \in Request /\ Placed(r) /\ r.pc = pc /\ r.n = at[w].n
  BY <1>1 DEF Request, Placed
<1>4. Proper(w, r)
  <2> HIDE DEF r
  <2> QED BY <1>2 DEF Proper
<1>3. at' = [at EXCEPT ![w] = r]
  BY DEF Goes
<1> QED
  BY <1>4, <1>3 DEF Moves

LEMMA LoginMoves ==
  ASSUME TypeInv, NEW w \in Workers, NEW u \in Accounts, NEW right \in BOOLEAN, Login(w, u, right)
  PROVE  Moves(w)
<1> DEFINE typed == IF right THEN acct[u].password ELSE 0
           r == [Idle EXCEPT !.pc = "password", !.op = "login", !.user = u, !.typed = typed,
                             !.n = served']
<1>1. at' = at \/ at' = [at EXCEPT ![w] = r]
  <2>1. CASE Admits(Ip) /\ Admits(AccountKey(u))
    BY <2>1 DEF Login
  <2>2. CASE ~(Admits(Ip) /\ Admits(AccountKey(u)))
    BY <2>2 DEF Login
  <2> QED BY <2>1, <2>2
<1>2. Arrives(w) /\ served' \in Nat /\ typed \in Nat
  BY DEF Login, Arrives, TypeInv, TypeOK, Row
<1> HIDE DEF typed
<1>3. Proper(w, r)
  BY ZenonT(50), <1>2, IdleRequest DEF Proper, Request, Placed, Pcs
<1> QED
  BY <1>1, <1>3 DEF Moves

LEMMA AuthenticateUserMoves ==
  ASSUME TypeInv, NEW w \in Workers, AuthenticateUser(w)
  PROVE  Moves(w)
<1>1. at[w] \in Request /\ Placed(at[w]) /\ at[w].pc = "password"
  BY DEF AuthenticateUser, TypeInv, AllPlaced
<1>2. acct[at[w].user] \in Row /\ at[w].user \in Accounts
  BY <1>1 DEF Placed, TypeInv, TypeOK
<1>3. CASE PasswordHolds(w)
  <2> DEFINE to == IF acct[at[w].user].totp THEN "pending" ELSE "policy"
             r == [at[w] EXCEPT !.pc = to, !.seen = acct[at[w].user]]
  <2>1. at' = [at EXCEPT ![w] = r]
    BY <1>3 DEF AuthenticateUser
  <2>2. Proper(w, r)
    BY ZenonT(50), <1>1, <1>2 DEF Proper, Request, Placed, Pcs
  <2> QED BY <2>1, <2>2 DEF Moves
<1>4. CASE ~PasswordHolds(w)
  BY <1>4, RequestEnds DEF AuthenticateUser
<1> QED BY <1>3, <1>4

LEMMA VerifySecondFactorMoves ==
  ASSUME TypeInv, NEW w \in Workers, VerifySecondFactor(w)
  PROVE  Moves(w)
<1>1. at[w] \in Request /\ Placed(at[w]) /\ at[w].pc = "spend"
  BY DEF VerifySecondFactor, TypeInv, AllPlaced
<1>2. CASE AcceptTotpStep(w) \/ ConsumeRecoveryCode(w)
  <2> DEFINE to == AfterFactor[at[w].op]
             r == [at[w] EXCEPT !.pc = to, !.by = SpentProof(w)]
  <2>1. at' = [at EXCEPT ![w] = r]
    BY <1>2 DEF VerifySecondFactor
  <2>2. to \in {"session", "remove", "begin"}
    BY <1>1 DEF Placed, AfterFactor
  <2>4. at[w].user \in Accounts
    BY <1>1 DEF Placed
  <2>3. SpentProof(w) \in Shown
    BY <1>1, <1>2, <2>4 DEF SpentProof, Proof, Shown, Request, Typed, AcceptTotpStep, ValidateStep,
         ConsumeRecoveryCode
  <2> HIDE DEF to
  <2>5. Proper(w, r)
    BY ZenonT(50), <1>1, <2>2, <2>3 DEF Proper, Request, Placed, Pcs
  <2> QED BY <2>1, <2>5 DEF Moves
<1>3. CASE ~(AcceptTotpStep(w) \/ ConsumeRecoveryCode(w))
  BY <1>3, RequestEnds DEF VerifySecondFactor
<1> QED BY <1>2, <1>3

\* The remaining steps of a sign-in.
LEMMA SigningGoesOn ==
  ASSUME TypeInv, NEW w \in Workers,
         SignPending2FA(w) \/ SecurityPolicy(w) \/ CreateSession(w)
  PROVE  Moves(w)
<1>1. at[w] \in Request /\ Placed(at[w])
  BY DEF TypeInv, AllPlaced
<1>2. CASE Ends(w)
  BY <1>2, RequestEnds
<1>3. CASE at[w].pc = "policy" /\ Goes(w, "session")
  BY <1>1, <1>3, RequestGoes DEF Placed, Pcs
<1> QED
  BY <1>2, <1>3 DEF SignPending2FA, SecurityPolicy, CreateSession

LEMMA InputsTyped ==
  ASSUME TypeInv, NEW u \in Accounts
  PROVE  Inputs(u) \subseteq Typed
BY DEF Inputs, Typed, NoInput, TypeInv, TypeOK, Row

LEMMA Login2FAMoves ==
  ASSUME TypeInv, NEW w \in Workers, NEW c \in cookies, NEW input \in Inputs(c.user),
         Login2FA(w, c, input)
  PROVE  Moves(w)
<1> DEFINE r == [Idle EXCEPT !.pc = "factor", !.op = "login", !.user = c.user, !.input = input,
                             !.n = served']
<1>1. at' = at \/ at' = [at EXCEPT ![w] = r]
  BY DEF Login2FA
<1>2. Arrives(w) /\ served' \in Nat /\ c.user \in Accounts
  BY DEF Login2FA, Arrives, TypeInv, TypeOK
<1>3. input \in Typed
  BY <1>2, InputsTyped
<1>4. Proper(w, r)
  BY ZenonT(50), <1>2, <1>3, IdleRequest DEF Proper, Request, Placed, Pcs
<1> QED
  BY <1>1, <1>4 DEF Moves

LEMMA GetTotpSecretMoves ==
  ASSUME TypeInv, NEW w \in Workers, GetTotpSecret(w)
  PROVE  Moves(w)
<1> DEFINE r == [at[w] EXCEPT !.pc = "spend", !.seen = acct[at[w].user]]
<1>1. at[w] \in Request /\ Placed(at[w]) /\ at[w].pc = "factor"
  BY DEF GetTotpSecret, TypeInv, AllPlaced
<1>2. acct[at[w].user] \in Row
  BY <1>1 DEF Placed, TypeInv, TypeOK
<1>3. Ends(w) \/ at' = [at EXCEPT ![w] = r]
  BY DEF GetTotpSecret
<1>4. Proper(w, r)
  BY <1>1, <1>2 DEF Proper, Request, Placed, Pcs
<1> QED
  BY <1>3, <1>4, RequestEnds DEF Moves

LEMMA PasskeyLoginMoves ==
  ASSUME TypeInv, NEW w \in Workers, NEW c \in ceremonies, NEW k \in Keys, NEW m \in 0..MaxClock,
         PasskeyLoginFinish(w, c, k, m)
  PROVE  Moves(w)
<1> DEFINE owner == {u \in Accounts : Active(u) /\ k \in acct[u].keys}
           u == CHOOSE u \in owner : TRUE
           r == [Idle EXCEPT !.pc = "touch", !.op = "login", !.user = u, !.key = k,
                             !.by.n = m, !.n = served']
<1>1. at' = at \/ (owner # {} /\ at' = [at EXCEPT ![w] = r])
  BY DEF PasskeyLoginFinish
<1>2. Arrives(w) /\ served' \in Nat /\ (owner # {} => u \in Accounts) /\ m \in Nat
  BY BoundsNat DEF PasskeyLoginFinish, Arrives, TypeInv, TypeOK
<1>3. [ByPassword EXCEPT !.n = m] \in Shown
  BY <1>2 DEF ByPassword, Proof, Shown
<1>4. r = [Idle EXCEPT !.pc = "touch", !.op = "login", !.user = u, !.key = k,
                       !.by = [ByPassword EXCEPT !.n = m], !.n = served']
  BY DEF Idle
<1> HIDE DEF owner, u
<1>5. ASSUME owner # {} PROVE Proper(w, r)
  <2> HIDE DEF r
  <2> QED BY ZenonT(50), <1>2, <1>3, <1>4, <1>5, IdleRequest DEF Proper, Request, Placed, Pcs
<1> QED
  BY <1>1, <1>5 DEF Moves

LEMMA TouchMoves ==
  ASSUME TypeInv, NEW w \in Workers, TouchWebauthnCredential(w)
  PROVE  Moves(w)
<1> DEFINE by == Proof("passkey", at[w].key, 0, at[w].by.n)
           r == [at[w] EXCEPT !.pc = "session", !.by = by]
<1>1. at[w] \in Request /\ Placed(at[w]) /\ at[w].pc = "touch"
  BY DEF TouchWebauthnCredential, TypeInv, AllPlaced
<1>2. by \in Shown
  BY <1>1 DEF Proof, Shown, Request, Placed
<1>3. Ends(w) \/ at' = [at EXCEPT ![w] = r]
  BY DEF TouchWebauthnCredential
<1> HIDE DEF by
<1>4. Proper(w, r)
  BY <1>1, <1>2 DEF Proper, Request, Placed, Pcs
<1> QED
  BY <1>3, <1>4, RequestEnds DEF Moves

LEMMA PasskeyRegisterMoves ==
  ASSUME TypeInv, NEW w \in Workers, NEW s \in sessions, NEW c \in ceremonies, NEW k \in Keys,
         PasskeyRegisterFinish(w, s, c, k)
  PROVE  Moves(w)
<1> DEFINE r == [Idle EXCEPT !.pc = "add", !.user = s.user, !.key = k]
<1>1. at' = [at EXCEPT ![w] = r] /\ s.user \in Accounts
  BY DEF PasskeyRegisterFinish, TypeInv, TypeOK
<1>2. Idle \in Request /\ Idle.n = 0 /\ "add" \in Pcs
  BY IdleRequest DEF Pcs
<1>3. r \in Request
  BY <1>1, <1>2 DEF Request
<1>4. r.pc = "add" /\ r.user \in Accounts /\ r.key \in Keys /\ r.n = 0
  BY <1>1, <1>2 DEF Request
<1> HIDE DEF r
<1>5. Placed(r)
  BY <1>4 DEF Placed
<1>6. Proper(w, r)
  BY <1>3, <1>4, <1>5 DEF Proper
<1> QED
  BY <1>1, <1>6 DEF Moves

LEMMA DeletePasskeyMoves ==
  ASSUME TypeInv, NEW w \in Workers, NEW s \in sessions, NEW k \in Keys, DeletePasskey(w, s, k)
  PROVE  Moves(w)
<1> DEFINE r == [Idle EXCEPT !.pc = "remove", !.op = "delkey", !.user = s.user, !.key = k]
<1>1. at' = [at EXCEPT ![w] = r] /\ s.user \in Accounts
  BY DEF DeletePasskey, TypeInv, TypeOK
<1>2. Proper(w, r)
  BY ZenonT(50), <1>1, IdleRequest DEF Proper, Request, Placed, Pcs
<1> QED
  BY <1>1, <1>2 DEF Moves

LEMMA SensitiveRequestMoves ==
  ASSUME TypeInv, NEW w \in Workers, NEW s \in sessions, NEW op \in Sensitive, NEW right \in BOOLEAN,
         NEW input \in Inputs(s.user), SensitiveRequest(w, s, op, right, input)
  PROVE  Moves(w)
<1> DEFINE typed == IF right THEN acct[s.user].password ELSE 0
           to == IF op = "password" THEN "change" ELSE "stepup"
           r == [Idle EXCEPT !.pc = to, !.op = op, !.user = s.user, !.seen = acct[s.user],
                   !.typed = typed, !.input = input, !.session = s.id, !.n = served']
<1>1. at' = at \/ at' = [at EXCEPT ![w] = r]
  BY DEF SensitiveRequest
<1>2. /\ s.user \in Accounts /\ acct[s.user] \in Row /\ s.id \in Nat
      /\ Arrives(w) /\ served' \in Nat \ {0}
  BY DEF SensitiveRequest, Arrives, TypeInv, TypeOK
<1>3. input \in Typed /\ typed \in Nat
  BY <1>2, InputsTyped DEF Row
<1>4. to \in {"change", "stepup"} /\ (to = "stepup" => op # "password")
  OBVIOUS
<1> HIDE DEF typed, to
<1>5. Proper(w, r)
  BY ZenonT(50), <1>2, <1>3, <1>4, IdleRequest DEF Proper, Request, Placed, Pcs
<1> QED
  BY <1>1, <1>5 DEF Moves

LEMMA StepUpMoves ==
  ASSUME TypeInv, NEW w \in Workers, StepUp(w)
  PROVE  Moves(w)
<1>1. at[w] \in Request /\ Placed(at[w]) /\ at[w].pc = "stepup"
  BY DEF StepUp, TypeInv, AllPlaced
<1>2. at[w].op \in {"confirm", "disable", "regenerate", "addkey"} /\ at[w].seen \in Row
  BY <1>1 DEF Placed, Sensitive
<1>3. \/ Ends(w)
      \/ at[w].op \in {"disable", "addkey"} /\ Goes(w, "factor")
      \/ \E pc \in {"remove", "begin", "regenerate", "enable"} : Goes(w, pc)
  BY <1>2 DEF StepUp
<1>4. ASSUME NEW pc \in {"factor", "remove", "begin", "regenerate", "enable"}, Goes(w, pc),
             pc = "factor" => at[w].op \in {"disable", "addkey"}
      PROVE  Moves(w)
  BY <1>1, <1>2, <1>4, RequestGoes DEF Placed, Pcs
<1> QED
  BY <1>3, <1>4, RequestEnds

LEMMA LockFactorsMoves ==
  ASSUME TypeInv, NEW w \in Workers, LockFactors(w)
  PROVE  Moves(w)
<1> DEFINE r == [at[w] EXCEPT !.pc = "lastfactor", !.seen = acct[at[w].user]]
<1>1. at[w] \in Request /\ Placed(at[w]) /\ at[w].pc = "remove"
  BY DEF LockFactors, TypeInv, AllPlaced
<1>2. acct[at[w].user] \in Row
  BY <1>1 DEF Placed, TypeInv, TypeOK
<1>3. Ends(w) \/ at' = [at EXCEPT ![w] = r]
  BY DEF LockFactors
<1>4. Proper(w, r)
  BY <1>1, <1>2 DEF Proper, Request, Placed, Pcs
<1> QED
  BY <1>3, <1>4, RequestEnds DEF Moves

LEMMA CheckFactorRemovalMoves ==
  ASSUME TypeInv, NEW w \in Workers, CheckFactorRemoval(w)
  PROVE  Moves(w)
<1>1. at[w] \in Request /\ Placed(at[w]) /\ at[w].pc = "lastfactor"
  BY DEF CheckFactorRemoval, TypeInv, AllPlaced
<1>2. Ends(w) \/ Goes(w, "cut")
  BY DEF CheckFactorRemoval
<1>3. ASSUME Goes(w, "cut") PROVE Moves(w)
  BY <1>1, <1>3, RequestGoes DEF Placed, Pcs
<1> QED
  BY <1>2, <1>3, RequestEnds

LEMMA AdminRequestMoves ==
  ASSUME TypeInv, NEW w \in Workers, NEW s \in sessions, NEW u \in Accounts, NEW op \in AdminOps,
         AdminRequest(w, s, u, op)
  PROVE  Moves(w)
<1> DEFINE to == IF op \in {"password", "totp"} THEN "reset" ELSE "adminlock"
           r == [Idle EXCEPT !.op = op, !.user = u, !.n = served', !.pc = to]
<1>1. at' = [at EXCEPT ![w] = r] /\ Arrives(w) /\ served' \in Nat
  BY DEF AdminRequest, Arrives, TypeInv, TypeOK
<1>2. to \in {"reset", "adminlock"} /\ (to = "adminlock" => op \in {"editor", "admin", "deactivate"})
  BY DEF AdminOps
<1> HIDE DEF to
<1>3. r \in Request
  BY <1>1, <1>2, IdleRequest DEF Request, Pcs
<1>4. r.pc = to /\ r.op = op /\ r.user = u /\ r.n = served'
  BY IdleRequest DEF Request
<1> HIDE DEF r
<1>5. Proper(w, r)
  BY <1>1, <1>2, <1>3, <1>4 DEF Proper, Placed
<1> QED
  BY <1>1, <1>5 DEF Moves

LEMMA EnsureAdminMoves ==
  ASSUME TypeInv, NEW w \in Workers, NEW u \in Accounts, EnsureAdmin(w, u)
  PROVE  Moves(w)
<1> DEFINE to == IF u \in Admins THEN "reset" ELSE "adminlock"
           r == [Idle EXCEPT !.op = "promote", !.user = u, !.n = served', !.pc = to]
<1>1. at' = [at EXCEPT ![w] = r] /\ Arrives(w) /\ served' \in Nat
  BY DEF EnsureAdmin, Arrives, TypeInv, TypeOK
<1>2. to \in {"reset", "adminlock"}
  OBVIOUS
<1> HIDE DEF to
<1>3. Proper(w, r)
  BY ZenonT(50), <1>1, <1>2, IdleRequest DEF Proper, Request, Placed, Pcs
<1> QED
  BY <1>1, <1>3 DEF Moves

LEMMA AdminLockMoves ==
  ASSUME TypeInv, NEW w \in Workers, TakeAdminLock(w) \/ CountAdmins(w) \/ ApplyRole(w)
  PROVE  Moves(w)
<1>1. at[w] \in Request /\ Placed(at[w])
  BY DEF TypeInv, AllPlaced
<1>2. CASE TakeAdminLock(w)
  <2>1. Goes(w, "count") /\ at[w].pc = "adminlock"
    BY <1>2 DEF TakeAdminLock
  <2> QED BY <1>1, <1>2, <2>1, RequestGoes DEF Placed, Pcs
<1>3. CASE CountAdmins(w)
  <2>1. at[w].pc = "count" /\ (Ends(w) \/ Goes(w, "apply"))
    BY <1>3 DEF CountAdmins
  <2>2. ASSUME Goes(w, "apply") PROVE Moves(w)
    BY <1>1, <1>3, <2>1, <2>2, RequestGoes DEF Placed, Pcs
  <2> QED BY <2>1, <2>2, RequestEnds
<1>4. CASE ApplyRole(w)
  <2>1. at[w].pc = "apply" /\ (Ends(w) \/ Goes(w, "reset"))
    BY <1>4 DEF ApplyRole
  <2>2. ASSUME Goes(w, "reset") PROVE Moves(w)
    BY <1>1, <2>1, <2>2, RequestGoes DEF Placed, Pcs
  <2> QED BY <2>1, <2>2, RequestEnds
<1> QED
  BY <1>2, <1>3, <1>4

-----------------------------------------------------------------------------
\* Every step moves at most one request, and properly.
LEMMA RequestsMove ==
  ASSUME TypeInv, [Next]_vars
  PROVE  at' = at \/ \E w \in Workers : Moves(w)
<1>1. ASSUME NEW w \in Workers, Signing(w) PROVE Moves(w)
  <2>1. CASE \E u \in Accounts, right \in BOOLEAN : Login(w, u, right)
    BY <2>1, LoginMoves
  <2>2. CASE \E c \in cookies : \E input \in Inputs(c.user) : Login2FA(w, c, input)
    BY <2>2, Login2FAMoves
  <2>3. CASE AuthenticateUser(w) \/ GetTotpSecret(w) \/ VerifySecondFactor(w)
    BY <2>3, AuthenticateUserMoves, GetTotpSecretMoves, VerifySecondFactorMoves
  <2>4. CASE SignPending2FA(w) \/ SecurityPolicy(w) \/ CreateSession(w)
    BY <2>4, SigningGoesOn
  <2> QED
    BY <1>1, <2>1, <2>2, <2>3, <2>4 DEF Signing
<1>2. ASSUME NEW w \in Workers, Passkeys(w) PROVE Moves(w)
  <2>1. CASE \E c \in ceremonies, k \in Keys, m \in 0..MaxClock : PasskeyLoginFinish(w, c, k, m)
    BY <2>1, PasskeyLoginMoves
  <2>2. CASE \E s \in sessions, c \in ceremonies, k \in Keys : PasskeyRegisterFinish(w, s, c, k)
    BY <2>2, PasskeyRegisterMoves
  <2>3. CASE \E s \in sessions, k \in Keys : DeletePasskey(w, s, k)
    BY <2>3, DeletePasskeyMoves
  <2>4. CASE PasskeyLoginBegin(w)
    BY <2>4 DEF PasskeyLoginBegin, Moves
  <2>5. CASE TouchWebauthnCredential(w)
    BY <2>5, TouchMoves
  <2>6. CASE PasskeyRegisterBegin(w) \/ AddWebauthnCredential(w)
    BY <2>6, RequestEnds DEF PasskeyRegisterBegin, AddWebauthnCredential
  <2> QED
    BY <1>2, <2>1, <2>2, <2>3, <2>4, <2>5, <2>6 DEF Passkeys
<1>3. ASSUME NEW w \in Workers, OwnAccount(w) PROVE Moves(w)
  <2>1. CASE \E s \in sessions, op \in Sensitive, right \in BOOLEAN : \E input \in Inputs(s.user) :
               SensitiveRequest(w, s, op, right, input)
    BY <2>1, SensitiveRequestMoves
  <2>2. CASE \E s \in sessions : SetTotp(w, s) \/ EndSessions(w, s)
    BY <2>2 DEF SetTotp, EndSessions, Moves
  <2>3. CASE StepUp(w) \/ LockFactors(w) \/ CheckFactorRemoval(w)
    BY <2>3, StepUpMoves, LockFactorsMoves, CheckFactorRemovalMoves
  <2>4. CASE ChangePassword(w) \/ EnableTwoFactor(w) \/ ReplaceRecoveryCodes(w) \/ RemoveFactor(w)
    BY <2>4, RequestEnds DEF ChangePassword, EnableTwoFactor, ReplaceRecoveryCodes, RemoveFactor
  <2> QED
    BY <1>3, <2>1, <2>2, <2>3, <2>4 DEF OwnAccount
<1>4. ASSUME NEW w \in Workers, Administration(w) PROVE Moves(w)
  <2>1. CASE \E s \in sessions, u \in Accounts, op \in AdminOps : AdminRequest(w, s, u, op)
    BY <2>1, AdminRequestMoves
  <2>2. CASE \E s \in sessions, u \in Accounts, role \in Roles : CreateAccount(w, s, u, role)
    BY <2>2 DEF CreateAccount, Moves
  <2>3. CASE \E s \in sessions, p \in SUBSET {"admin", "editor"} : UpdateSecurityPolicy(w, s, p)
    BY <2>3 DEF UpdateSecurityPolicy, Moves
  <2>4. CASE TakeAdminLock(w) \/ CountAdmins(w) \/ ApplyRole(w)
    BY <2>4, AdminLockMoves
  <2>5. CASE Reset(w)
    BY <2>5, RequestEnds DEF Reset
  <2>6. CASE \E u \in Accounts : EnsureAdmin(w, u)
    BY <2>6, EnsureAdminMoves
  <2> QED
    BY <1>4, <2>1, <2>2, <2>3, <2>4, <2>5, <2>6 DEF Administration
<1>5. CASE \E w \in Workers : Signing(w) \/ Passkeys(w) \/ OwnAccount(w) \/ Administration(w)
  BY <1>5, <1>1, <1>2, <1>3, <1>4
<1>6. CASE PurgeExpiredSessions \/ WindowElapses \/ ClockTicks \/ UNCHANGED vars
  BY <1>6 DEF PurgeExpiredSessions, WindowElapses, ClockTicks, vars
<1> QED
  BY <1>5, <1>6 DEF Next

LEMMA PlacesKept ==
  ASSUME TypeInv, [Next]_vars
  PROVE  AllPlaced'
<1>1. CASE at' = at
  BY <1>1 DEF TypeInv, AllPlaced
<1>2. ASSUME NEW w \in Workers, NEW r, Proper(w, r), at' = [at EXCEPT ![w] = r]
      PROVE  AllPlaced'
  <2>1. at' \in [Workers -> Request]
    BY <1>2 DEF TypeInv, AllPlaced, Proper
  <2>2. \A x \in Workers : Placed(at'[x])
    <3> TAKE x \in Workers
    <3>1. at'[x] = r \/ at'[x] = at[x]
      BY <1>2 DEF TypeInv, AllPlaced
    <3> QED BY <3>1, <1>2 DEF TypeInv, AllPlaced, Proper
  <2> QED BY <2>1, <2>2 DEF AllPlaced
<1> QED
  BY <1>1, <1>2, RequestsMove DEF Moves

-----------------------------------------------------------------------------
(* The rows of users.                                                      *)

\* A change of the own row that leaves role and state to the administrators.
KeepsPower(u) == acct'[u].role = acct[u].role /\ acct'[u].disabled = acct[u].disabled

WritesOwnRow(w) ==
  \/ VerifySecondFactor(w) \/ AddWebauthnCredential(w) \/ ChangePassword(w) \/ EnableTwoFactor(w)
  \/ ReplaceRecoveryCodes(w) \/ RemoveFactor(w) \/ Reset(w) \/ \E s \in sessions : SetTotp(w, s)

Creates(w) == \E s \in sessions, u \in Accounts, role \in Roles : CreateAccount(w, s, u, role)

LEMMA RowsWritten ==
  ASSUME [Next]_vars
  PROVE  acct' = acct \/ \E w \in Workers : WritesOwnRow(w) \/ ApplyRole(w) \/ Creates(w)
<1>1. ASSUME NEW w \in Workers, Signing(w)
      PROVE  acct' = acct \/ WritesOwnRow(w)
  BY <1>1 DEF Signing, WritesOwnRow, Login, Login2FA, AuthenticateUser, GetTotpSecret, SignPending2FA,
              SecurityPolicy, CreateSession
<1>2. ASSUME NEW w \in Workers, Passkeys(w)
      PROVE  acct' = acct \/ WritesOwnRow(w)
  BY <1>2 DEF Passkeys, WritesOwnRow, PasskeyLoginFinish, PasskeyRegisterFinish, DeletePasskey,
              PasskeyLoginBegin, TouchWebauthnCredential, PasskeyRegisterBegin
<1>3. ASSUME NEW w \in Workers, OwnAccount(w)
      PROVE  acct' = acct \/ WritesOwnRow(w)
  BY <1>3 DEF OwnAccount, WritesOwnRow, SensitiveRequest, EndSessions, StepUp, LockFactors,
              CheckFactorRemoval
<1>4. ASSUME NEW w \in Workers, Administration(w)
      PROVE  acct' = acct \/ WritesOwnRow(w) \/ ApplyRole(w) \/ Creates(w)
  BY <1>4 DEF Administration, WritesOwnRow, Creates, AdminRequest, UpdateSecurityPolicy,
              TakeAdminLock, CountAdmins, EnsureAdmin
<1>5. CASE \E w \in Workers : Signing(w) \/ Passkeys(w) \/ OwnAccount(w) \/ Administration(w)
  BY <1>5, <1>1, <1>2, <1>3, <1>4
<1>6. CASE PurgeExpiredSessions \/ WindowElapses \/ ClockTicks \/ UNCHANGED vars
  BY <1>6 DEF PurgeExpiredSessions, WindowElapses, ClockTicks, vars
<1> QED
  BY <1>5, <1>6 DEF Next

\* A new row for u, in which role and state are the old ones.
Rewrites(u, row) ==
  /\ u \in Accounts /\ row \in Row
  /\ row.role = acct[u].role /\ row.disabled = acct[u].disabled
  /\ acct' = [acct EXCEPT ![u] = row]

LEMMA RewriteKeeps ==
  ASSUME TypeInv, NEW u, NEW row, Rewrites(u, row)
  PROVE  acct' \in [Accounts -> Row] /\ \A v \in Accounts : KeepsPower(v)
BY DEF TypeInv, TypeOK, KeepsPower, Rewrites

LEMMA OwnRowWritten ==
  ASSUME TypeInv, NEW w \in Workers, WritesOwnRow(w)
  PROVE  acct' = acct \/ \E u, row : Rewrites(u, row)
<1> DEFINE u == at[w].user
<1>1. at[w] \in Request /\ Placed(at[w]) /\ acct \in [Accounts -> Row]
  BY DEF TypeInv, TypeOK, AllPlaced
<1>2. CASE VerifySecondFactor(w)
  <2> DEFINE a == [acct[u] EXCEPT !.last = at[w].input.n]
             b == [acct[u] EXCEPT !.codes = acct[u].codes \ {at[w].input.n}]
  <2>1. u \in Accounts /\ acct[u] \in Row /\ at[w].input.n \in Nat
    BY <1>1, <1>2 DEF VerifySecondFactor, Placed, Request, Typed
  <2>2. acct' = acct \/ acct' = [acct EXCEPT ![u] = a] \/ acct' = [acct EXCEPT ![u] = b]
    <3>1. CASE AcceptTotpStep(w) \/ ConsumeRecoveryCode(w)
      BY <1>2, <2>1, <3>1, <1>1 DEF VerifySecondFactor, Spent
    <3> QED BY <3>1, <1>2 DEF VerifySecondFactor
  <2>3. a \in Row /\ a.role = acct[u].role /\ a.disabled = acct[u].disabled
    BY <2>1 DEF Row
  <2>4. b \in Row /\ b.role = acct[u].role /\ b.disabled = acct[u].disabled
    BY <2>1 DEF Row
  <2> HIDE DEF a, b, u
  <2> QED BY <2>1, <2>2, <2>3, <2>4 DEF Rewrites
<1>3. CASE AddWebauthnCredential(w)
  <2> DEFINE a == [acct[u] EXCEPT !.keys = acct[u].keys \cup {at[w].key}]
  <2>1. u \in Accounts /\ acct[u] \in Row /\ at[w].key \in Keys
    BY <1>1, <1>3 DEF AddWebauthnCredential, Placed
  <2>2. acct' = acct \/ acct' = [acct EXCEPT ![u] = a]
    BY <1>3, <2>1, <1>1 DEF AddWebauthnCredential
  <2>3. a \in Row /\ a.role = acct[u].role /\ a.disabled = acct[u].disabled
    BY <2>1 DEF Row
  <2> HIDE DEF a, u
  <2> QED BY <2>1, <2>2, <2>3 DEF Rewrites
<1>4. CASE ChangePassword(w)
  <2> DEFINE a == [acct[u] EXCEPT !.password = at[w].n + 1]
  <2>1. u \in Accounts /\ acct[u] \in Row /\ at[w].n \in Nat
    BY <1>1, <1>4 DEF ChangePassword, Placed, Request
  <2>2. acct' = acct \/ acct' = [acct EXCEPT ![u] = a]
    BY <1>4, <2>1, <1>1 DEF ChangePassword
  <2>3. a \in Row /\ a.role = acct[u].role /\ a.disabled = acct[u].disabled
    BY <2>1 DEF Row
  <2> HIDE DEF a, u
  <2> QED BY <2>1, <2>2, <2>3 DEF Rewrites
<1>5. CASE EnableTwoFactor(w)
  <2> DEFINE codes == FreshCodes(w)
             a == [acct[u] EXCEPT !.totp = TRUE, !.secret = at[w].seen.secret,
                     !.last = at[w].input.n, !.codes = codes]
  <2>1. u \in Accounts /\ acct[u] \in Row /\ at[w].input.n \in Nat /\ at[w].seen \in Row
    BY <1>1, <1>5 DEF EnableTwoFactor, Placed, Request, Typed
  <2>4. codes \in SUBSET Nat /\ at[w].seen.secret \in Nat
    BY <1>1, <2>1 DEF FreshCodes, Request, Row
  <2>2. acct' = acct \/ acct' = [acct EXCEPT ![u] = a]
    BY <1>5, <2>1, <1>1 DEF EnableTwoFactor
  <2>3. a \in Row /\ a.role = acct[u].role /\ a.disabled = acct[u].disabled
    <3> HIDE DEF codes
    <3> QED BY <2>1, <2>4 DEF Row
  <2> HIDE DEF a, u
  <2> QED BY <2>1, <2>2, <2>3 DEF Rewrites
<1>6. CASE ReplaceRecoveryCodes(w)
  <2> DEFINE a == [acct[u] EXCEPT !.codes = FreshCodes(w)]
  <2>1. u \in Accounts /\ acct[u] \in Row /\ at[w].n \in Nat
    BY <1>1, <1>6 DEF ReplaceRecoveryCodes, Placed, Request
  <2>2. acct' = acct \/ acct' = [acct EXCEPT ![u] = a]
    BY <1>6, <2>1, <1>1 DEF ReplaceRecoveryCodes
  <2>3. a \in Row /\ a.role = acct[u].role /\ a.disabled = acct[u].disabled
    BY <2>1 DEF Row, FreshCodes
  <2> HIDE DEF a, u
  <2> QED BY <2>1, <2>2, <2>3 DEF Rewrites
<1>7. CASE RemoveFactor(w)
  <2> DEFINE a == [acct[u] EXCEPT !.keys = acct[u].keys \ {at[w].key}]
             b == [acct[u] EXCEPT !.totp = FALSE, !.secret = 0, !.last = 0, !.codes = {}]
  <2>1. u \in Accounts /\ acct[u] \in Row
    BY <1>1, <1>7 DEF RemoveFactor, Placed
  <2>2. acct' = [acct EXCEPT ![u] = a] \/ acct' = [acct EXCEPT ![u] = b]
    BY <1>7, <2>1, <1>1 DEF RemoveFactor
  <2>3. a \in Row /\ a.role = acct[u].role /\ a.disabled = acct[u].disabled
    BY <2>1 DEF Row
  <2>4. b \in Row /\ b.role = acct[u].role /\ b.disabled = acct[u].disabled
    BY <2>1 DEF Row
  <2> HIDE DEF a, b, u
  <2> QED BY <2>1, <2>2, <2>3, <2>4 DEF Rewrites
<1>8. CASE Reset(w)
  <2> DEFINE password == at[w].n + 1
             a == [acct[u] EXCEPT !.totp = FALSE, !.secret = 0, !.codes = {}, !.keys = {}]
             b == [acct[u] EXCEPT !.password = password, !.keys = {}]
  <2>1. u \in Accounts /\ acct[u] \in Row /\ password \in Nat
    BY <1>1, <1>8 DEF Reset, Placed, Request
  <2>2. \/ acct' = acct
        \/ acct' = [acct EXCEPT ![u] = a]
        \/ acct' = [acct EXCEPT ![u] = b]
    <3>1. CASE Active(u)
      BY <1>8, <2>1, <1>1, <3>1 DEF Reset, ResetRow
    <3> QED BY <3>1, <1>8 DEF Reset
  <2>3. a \in Row /\ a.role = acct[u].role /\ a.disabled = acct[u].disabled
    BY <2>1 DEF Row
  <2>4. b \in Row /\ b.role = acct[u].role /\ b.disabled = acct[u].disabled
    <3> HIDE DEF password
    <3> QED BY <2>1 DEF Row
  <2> HIDE DEF a, b, u
  <2> QED BY <2>1, <2>2, <2>3, <2>4 DEF Rewrites
<1>9. ASSUME NEW s \in sessions, SetTotp(w, s)
      PROVE  \E v, row : Rewrites(v, row)
  <2> DEFINE v == s.user
             a == [acct[v] EXCEPT !.secret = served' + 1]
  <2>1. v \in Accounts /\ acct[v] \in Row /\ served' \in Nat
    BY <1>1, <1>9 DEF SetTotp, Arrives, TypeInv, TypeOK
  <2>2. acct' = [acct EXCEPT ![v] = a]
    BY <1>9, <2>1, <1>1 DEF SetTotp
  <2>3. a \in Row /\ a.role = acct[v].role /\ a.disabled = acct[v].disabled
    BY <2>1 DEF Row
  <2> HIDE DEF a, v
  <2> QED BY <2>1, <2>2, <2>3 DEF Rewrites
<1> QED
  BY <1>2, <1>3, <1>4, <1>5, <1>6, <1>7, <1>8, <1>9 DEF WritesOwnRow

\* What ApplyRole makes of the row.
Decided(w, row) ==
  /\ row \in Row
  /\ at[w].op \in {"admin", "promote"} => row.role = "admin" /\ row.disabled = acct[at[w].user].disabled
  /\ at[w].op = "editor" => row.role = "editor" /\ row.disabled = acct[at[w].user].disabled
  /\ at[w].op = "deactivate" =>
       row.disabled /\ row.password = 0 /\ ~row.totp /\ row.keys = {} /\ row.codes = {}
  /\ at[w].op # "deactivate" =>
       \E role \in Roles : row = [acct[at[w].user] EXCEPT !.role = role]

LEMMA RoleApplied ==
  ASSUME TypeInv, NEW w \in Workers, ApplyRole(w)
  PROVE  /\ at[w].pc = "apply" /\ at[w].user \in Accounts
         /\ at[w].op \in {"editor", "admin", "deactivate", "promote"}
         /\ sessions' = sessions \ SessionsOf(at[w].user)
         /\ \E row : Decided(w, row) /\ acct' = [acct EXCEPT ![at[w].user] = row]
<1> DEFINE u == at[w].user
<1>1. /\ at[w].pc = "apply" /\ u \in Accounts /\ at[w].op \in {"editor", "admin", "deactivate", "promote"}
      /\ sessions' = sessions \ SessionsOf(u)
      /\ acct \in [Accounts -> Row] /\ acct[u] \in Row
  BY DEF ApplyRole, TypeInv, TypeOK, AllPlaced, Placed
<1>2. CASE at[w].op = "deactivate"
  <2> DEFINE row == Deactivated(acct[u])
  <2>1. acct' = [acct EXCEPT ![u] = row]
    BY <1>1, <1>2 DEF ApplyRole
  <2>2. Decided(w, row)
    <3>1. row = [acct[u] EXCEPT !.disabled = TRUE, !.password = 0, !.totp = FALSE, !.secret = 0,
                                !.last = 0, !.codes = {}, !.keys = {}]
      BY DEF Deactivated
    <3> HIDE DEF row
    <3> QED BY <1>1, <1>2, <3>1 DEF Decided, Row
  <2> QED BY <1>1, <2>1, <2>2
<1>3. CASE at[w].op = "promote"
  <2> DEFINE row == [acct[u] EXCEPT !.role = "admin"]
  <2>1. acct' = [acct EXCEPT ![u] = row]
    BY <1>1, <1>3 DEF ApplyRole
  <2>2. Decided(w, row)
    BY <1>1, <1>3 DEF Decided, Row, Roles
  <2> QED BY <1>1, <2>1, <2>2
<1>4. CASE at[w].op \in {"editor", "admin"}
  <2> DEFINE row == [acct[u] EXCEPT !.role = at[w].op]
  <2>1. acct' = [acct EXCEPT ![u] = row]
    BY <1>1, <1>4 DEF ApplyRole
  <2>2. Decided(w, row)
    BY <1>1, <1>4 DEF Decided, Row, Roles
  <2> QED BY <1>1, <2>1, <2>2
<1> QED
  BY <1>1, <1>2, <1>3, <1>4

LEMMA AccountCreated ==
  ASSUME TypeInv, NEW w \in Workers, Creates(w)
  PROVE  /\ UNCHANGED <<sessions, at>>
         /\ \E u \in Accounts, role \in Roles :
              acct[u] = Unborn /\ Born(role) \in Row /\ acct' = [acct EXCEPT ![u] = Born(role)]
<1>1. \A role \in Roles : Born(role) \in Row
  BY DEF Born, Unborn, Row, Roles
<1> QED
  BY <1>1 DEF Creates, CreateAccount

-----------------------------------------------------------------------------
(* Decisions about who administers exclude each other, and the one that is *)
(* about to be applied still leaves an administrator.                      *)

Deciding == {"count", "apply"}

AdminInv ==
  /\ TypeInv
  /\ \A w, x \in Workers : at[w].pc \in Deciding /\ at[x].pc \in Deciding => w = x
  /\ \A w \in Workers : at[w].pc = "apply" => Active(at[w].user) /\ LeavesAdmin(w)
  /\ Admins # {}

LEMMA OneDecides ==
  ASSUME AdminInv, [Next]_vars
  PROVE  \A w, x \in Workers : at'[w].pc \in Deciding /\ at'[x].pc \in Deciding => w = x
<1>1. CASE at' = at
  BY <1>1 DEF AdminInv
<1>2. ASSUME NEW y \in Workers, NEW r, Proper(y, r), at' = [at EXCEPT ![y] = r]
      PROVE  \A w, x \in Workers : at'[w].pc \in Deciding /\ at'[x].pc \in Deciding => w = x
  <2>1. at \in [Workers -> Request]
    BY DEF AdminInv, TypeInv, AllPlaced
  <2>2. r.pc \in Deciding => \A w \in Workers \ {y} : at[w].pc \notin Deciding
    <3>1. CASE r.pc = "count"
      BY <1>2, <3>1 DEF Proper, TakeAdminLock, AdminLockFree, Deciding
    <3>2. CASE r.pc = "apply"
      <4>1. at[y].pc = "count"
        BY <1>2, <3>2 DEF Proper, CountAdmins
      <4> QED BY <4>1 DEF AdminInv, Deciding
    <3> QED BY <3>1, <3>2 DEF Deciding
  <2>3. \A w \in Workers : at'[w] = IF w = y THEN r ELSE at[w]
    BY <1>2, <2>1
  <2> QED BY <2>2, <2>3 DEF AdminInv
<1> QED
  BY <1>1, <1>2, RequestsMove DEF AdminInv, Moves

\* Every other step takes the office of no account.
LEMMA AdminsGrow ==
  ASSUME TypeInv, [Next]_vars, \A w \in Workers : ~ApplyRole(w)
  PROVE  /\ \A u \in Accounts : Active(u) => Active(u)' /\ KeepsPower(u)
         /\ Admins \subseteq Admins'
<1>1. CASE acct' = acct
  BY <1>1 DEF Admins, Active, KeepsPower
<1>2. ASSUME NEW u, NEW row, Rewrites(u, row)
      PROVE  \A v \in Accounts : KeepsPower(v)
  BY <1>2, RewriteKeeps
<1>3. ASSUME NEW w \in Workers, Creates(w)
      PROVE  \A v \in Accounts : Active(v) => Active(v)' /\ KeepsPower(v)
  <2>1. PICK u \in Accounts, role \in Roles :
          acct[u] = Unborn /\ Born(role) \in Row /\ acct' = [acct EXCEPT ![u] = Born(role)]
    BY <1>3, AccountCreated
  <2>2. ~Active(u)
    BY <2>1 DEF Active, Unborn
  <2> QED BY <2>1, <2>2 DEF Active, KeepsPower, TypeInv, TypeOK
<1>4. \A v \in Accounts : Active(v) => Active(v)' /\ KeepsPower(v)
  BY <1>1, <1>2, <1>3, RowsWritten, OwnRowWritten DEF Active, KeepsPower
<1> QED
  BY <1>4 DEF Admins, KeepsPower

LEMMA AdminsAfterDecision ==
  ASSUME AdminInv, NEW w \in Workers, ApplyRole(w)
  PROVE  Admins' # {}
<1>1. PICK row : Decided(w, row) /\ acct' = [acct EXCEPT ![at[w].user] = row]
  BY RoleApplied DEF AdminInv
<1>2. /\ at[w].pc = "apply" /\ at[w].user \in Accounts
      /\ at[w].op \in {"editor", "admin", "deactivate", "promote"}
  BY RoleApplied DEF AdminInv
<1>3. Active(at[w].user) /\ LeavesAdmin(w)
  BY <1>2 DEF AdminInv
<1>4. CASE at[w].op \in {"admin", "promote"}
  <2>1. at[w].user \in Admins'
    BY <1>1, <1>2, <1>3, <1>4 DEF Decided, Admins, Active, AdminInv, TypeInv, TypeOK
  <2> QED BY <2>1
<1>5. CASE at[w].op \notin {"admin", "promote"}
  <2>1. PICK v \in Admins : v # at[w].user
    BY <1>3, <1>5 DEF LeavesAdmin, AdminInv
  <2>2. v \in Admins'
    BY <2>1, <1>1 DEF Admins, Active, AdminInv, TypeInv, TypeOK
  <2> QED BY <2>2
<1> QED
  BY <1>4, <1>5

LEMMA AdminInvKept ==
  ASSUME AdminInv, [Next]_vars, TypeOK'
  PROVE  AdminInv'
<1>1. TypeInv'
  BY PlacesKept DEF AdminInv, TypeInv
<1>2. Admins' # {}
  BY AdminsAfterDecision, AdminsGrow DEF AdminInv
<1>3. ASSUME NEW x \in Workers, at'[x].pc = "apply"
      PROVE  (Active(at[x].user) /\ LeavesAdmin(x))'
  <2>1. ASSUME NEW y \in Workers, NEW r, Proper(y, r), at' = [at EXCEPT ![y] = r]
        PROVE  CountAdmins(x) \/ at'[x] = at[x]
    BY <1>3, <2>1 DEF Proper, AdminInv, TypeInv, AllPlaced
  <2>2. CASE CountAdmins(x)
    <3>1. acct' = acct /\ at'[x].user = at[x].user /\ at'[x].op = at[x].op
      BY <1>3, <2>2 DEF CountAdmins, Goes, Ends, Idle, AdminInv, TypeInv, AllPlaced, Request
    <3>2. Active(at[x].user) /\ LeavesAdmin(x)
      BY <1>3, <2>2 DEF CountAdmins, Ends, Idle, AdminInv, TypeInv, AllPlaced
    <3> QED BY <3>1, <3>2 DEF Active, LeavesAdmin, Admins
  <2>3. CASE at'[x] = at[x]
    <3>1. at[x].pc = "apply" /\ at[x].user \in Accounts /\ Active(at[x].user) /\ LeavesAdmin(x)
      BY <1>3, <2>3 DEF AdminInv, TypeInv, AllPlaced, Placed
    <3>2. ASSUME NEW w \in Workers, ApplyRole(w) PROVE FALSE
      <4>1. at[w].pc = "apply" /\ at'[w].pc # "apply"
        BY <3>2 DEF ApplyRole, Goes, Ends, Idle, AdminInv, TypeInv, AllPlaced, Request
      <4> QED BY <4>1, <3>1, <1>3 DEF AdminInv, Deciding
    <3>3. Active(at[x].user)' /\ KeepsPower(at[x].user) /\ Admins \subseteq Admins'
      BY <3>1, <3>2, <2>3, AdminsGrow DEF AdminInv, Active
    <3>4. ASSUME at[x].op \notin {"admin", "promote"}, at[x].user \in Admins'
          PROVE  Admins' \ {at[x].user} # {}
      <4>1. at[x].user \in Admins
        BY <3>1, <3>3, <3>4 DEF Admins, KeepsPower
      <4> QED BY <3>1, <3>3, <3>4, <4>1 DEF LeavesAdmin
    <3> QED BY <2>3, <3>3, <3>4 DEF LeavesAdmin
  <2> QED BY <1>3, <2>1, <2>2, <2>3, RequestsMove DEF AdminInv, Moves
<1> QED
  BY <1>1, <1>2, <1>3, OneDecides DEF AdminInv

-----------------------------------------------------------------------------
(* The types of everything else.                                           *)

LEMMA SessionsWritten ==
  ASSUME [Next]_vars
  PROVE  \/ sessions' \subseteq sessions
         \/ \E w \in Workers : CreateSession(w) \/ ChangePassword(w)
<1>1. ASSUME NEW w \in Workers, Signing(w)
      PROVE  sessions' = sessions \/ CreateSession(w)
  BY <1>1 DEF Signing, Login, Login2FA, AuthenticateUser, GetTotpSecret, SignPending2FA,
              SecurityPolicy, VerifySecondFactor
<1>2. ASSUME NEW w \in Workers, Passkeys(w)
      PROVE  sessions' = sessions
  BY <1>2 DEF Passkeys, PasskeyLoginFinish, PasskeyRegisterFinish, DeletePasskey,
              PasskeyLoginBegin, TouchWebauthnCredential, PasskeyRegisterBegin, AddWebauthnCredential
<1>3. ASSUME NEW w \in Workers, OwnAccount(w)
      PROVE  sessions' \subseteq sessions \/ ChangePassword(w)
  BY <1>3 DEF OwnAccount, SensitiveRequest, EndSessions, StepUp, LockFactors, CheckFactorRemoval,
              EnableTwoFactor, ReplaceRecoveryCodes, RemoveFactor, SetTotp
<1>4. ASSUME NEW w \in Workers, Administration(w)
      PROVE  sessions' \subseteq sessions
  BY <1>4 DEF Administration, AdminRequest, UpdateSecurityPolicy, TakeAdminLock, CountAdmins,
              EnsureAdmin, CreateAccount, ApplyRole, Reset
<1>5. CASE \E w \in Workers : Signing(w) \/ Passkeys(w) \/ OwnAccount(w) \/ Administration(w)
  BY <1>5, <1>1, <1>2, <1>3, <1>4
<1>6. CASE PurgeExpiredSessions \/ WindowElapses \/ ClockTicks \/ UNCHANGED vars
  BY <1>6 DEF PurgeExpiredSessions, WindowElapses, ClockTicks, vars
<1> QED
  BY <1>5, <1>6 DEF Next

LEMMA RowsTyped ==
  ASSUME TypeInv, [Next]_vars
  PROVE  acct' \in [Accounts -> Row]
<1>1. acct \in [Accounts -> Row]
  BY DEF TypeInv, TypeOK
<1>2. ASSUME NEW w \in Workers, WritesOwnRow(w)
      PROVE  acct' \in [Accounts -> Row]
  BY <1>1, <1>2, OwnRowWritten, RewriteKeeps
<1>3. ASSUME NEW w \in Workers, ApplyRole(w)
      PROVE  acct' \in [Accounts -> Row]
  BY <1>1, <1>3, RoleApplied DEF Decided
<1>4. ASSUME NEW w \in Workers, Creates(w)
      PROVE  acct' \in [Accounts -> Row]
  BY <1>1, <1>4, AccountCreated
<1> QED
  BY <1>1, <1>2, <1>3, <1>4, RowsWritten

LEMMA SessionsTyped ==
  ASSUME TypeInv, [Next]_vars
  PROVE  \A s \in sessions' : s.id \in Nat /\ s.user \in Accounts
<1>1. \A s \in sessions : s.id \in Nat /\ s.user \in Accounts
  BY DEF TypeInv, TypeOK
<1>2. ASSUME NEW w \in Workers, CreateSession(w) \/ ChangePassword(w)
      PROVE  \A s \in sessions' : s.id \in Nat /\ s.user \in Accounts
  <2>1. at[w].n \in Nat /\ at[w].user \in Accounts
    BY <1>2 DEF CreateSession, ChangePassword, TypeInv, AllPlaced, Placed, Request
  <2> QED
    BY <1>1, <1>2, <2>1 DEF CreateSession, ChangePassword, SessionsOf
<1> QED
  BY <1>1, <1>2, SessionsWritten

LEMMA TokensTyped ==
  ASSUME TypeInv, [Next]_vars
  PROVE  /\ \A c \in cookies' : c.user \in Accounts
         /\ \A c \in ceremonies' : c.user \in Accounts \cup {None}
         /\ counter' \in [Keys -> Nat \cup {None}]
<1> DEFINE Typed3 == /\ \A c \in cookies' : c.user \in Accounts
                     /\ \A c \in ceremonies' : c.user \in Accounts \cup {None}
                     /\ counter' \in [Keys -> Nat \cup {None}]
<1>0. /\ \A c \in cookies : c.user \in Accounts
      /\ \A c \in ceremonies : c.user \in Accounts \cup {None}
      /\ counter \in [Keys -> Nat \cup {None}]
      /\ \A w \in Workers : at[w] \in Request /\ Placed(at[w])
  BY DEF TypeInv, TypeOK, AllPlaced
<1>1. ASSUME NEW w \in Workers, Signing(w)
      PROVE  Typed3
  <2>1. CASE SignPending2FA(w)
    BY <1>0, <2>1 DEF SignPending2FA, Placed
  <2>2. CASE ~SignPending2FA(w)
    BY <1>0, <1>1, <2>2 DEF Signing, Login, Login2FA, AuthenticateUser, GetTotpSecret,
                            SecurityPolicy, VerifySecondFactor, CreateSession
  <2> QED BY <2>1, <2>2
<1>2. ASSUME NEW w \in Workers, Passkeys(w)
      PROVE  Typed3
  <2>1. CASE TouchWebauthnCredential(w)
    <3>1. at[w].key \in Keys /\ at[w].by.n \in Nat
      BY <1>0, <2>1 DEF TouchWebauthnCredential, Placed, Request, Shown
    <3> QED BY <1>0, <2>1, <3>1 DEF TouchWebauthnCredential
  <2>2. CASE AddWebauthnCredential(w)
    BY <1>0, <2>2 DEF AddWebauthnCredential, Placed
  <2>3. CASE PasskeyRegisterBegin(w)
    BY <1>0, <2>3 DEF PasskeyRegisterBegin, Placed
  <2>4. CASE PasskeyLoginBegin(w)
    BY <1>0, <2>4 DEF PasskeyLoginBegin
  <2>5. CASE \E c \in ceremonies, k \in Keys, m \in 0..MaxClock : PasskeyLoginFinish(w, c, k, m)
    BY <1>0, <2>5 DEF PasskeyLoginFinish
  <2>6. CASE \E s \in sessions, c \in ceremonies, k \in Keys : PasskeyRegisterFinish(w, s, c, k)
    BY <1>0, <2>6 DEF PasskeyRegisterFinish
  <2>7. CASE \E s \in sessions, k \in Keys : DeletePasskey(w, s, k)
    BY <1>0, <2>7 DEF DeletePasskey
  <2> QED BY <1>2, <2>1, <2>2, <2>3, <2>4, <2>5, <2>6, <2>7 DEF Passkeys
<1>3. ASSUME NEW w \in Workers, OwnAccount(w)
      PROVE  Typed3
  BY <1>0, <1>3 DEF OwnAccount, SensitiveRequest, EndSessions, StepUp, LockFactors,
                    CheckFactorRemoval, ChangePassword, EnableTwoFactor, ReplaceRecoveryCodes,
                    RemoveFactor, SetTotp
<1>4. ASSUME NEW w \in Workers, Administration(w)
      PROVE  Typed3
  BY <1>0, <1>4 DEF Administration, AdminRequest, UpdateSecurityPolicy, TakeAdminLock, CountAdmins,
                    EnsureAdmin, CreateAccount, ApplyRole, Reset
<1>5. CASE \E w \in Workers : Signing(w) \/ Passkeys(w) \/ OwnAccount(w) \/ Administration(w)
  BY <1>5, <1>1, <1>2, <1>3, <1>4
<1>6. CASE PurgeExpiredSessions \/ WindowElapses \/ ClockTicks \/ UNCHANGED vars
  BY <1>0, <1>6 DEF PurgeExpiredSessions, WindowElapses, ClockTicks, vars
<1> QED
  BY <1>5, <1>6 DEF Next

LEMMA BucketsDistinct ==
  /\ Ip \in Buckets
  /\ \A u \in Accounts : AccountKey(u) \in Buckets /\ AcctLimitKey(u) \in Buckets
BY DEF Ip, AccountKey, AcctLimitKey, Buckets

LEMMA AttemptsTyped ==
  ASSUME TypeInv, [Next]_vars
  PROVE  fails' \in [Buckets -> 0..MaxFails]
<1> DEFINE Good == fails' \in [Buckets -> 0..MaxFails]
<1>0. /\ fails \in [Buckets -> 0..MaxFails] /\ MaxFails \in Nat
      /\ \A w \in Workers : at[w] \in Request /\ Placed(at[w])
      /\ \A s \in sessions : s.user \in Accounts
      /\ \A c \in cookies : c.user \in Accounts
  BY BoundsNat DEF TypeInv, TypeOK, AllPlaced
<1>1. ASSUME NEW bs, Charge(bs), \A b \in bs : Admits(b)
      PROVE  Good
  BY <1>0, <1>1 DEF Charge, Admits
<1>2. Refund \in 0..MaxFails
  BY <1>0, BucketsDistinct DEF Refund
<1>3. ASSUME Fail PROVE Good
  BY <1>0, <1>3, BucketsDistinct DEF Fail
<1>4. ASSUME NEW w \in Workers, Signing(w)
      PROVE  Good
  <2>1. ASSUME NEW u \in Accounts, NEW right \in BOOLEAN, Login(w, u, right)
        PROVE  Good
    BY <2>1, <1>1 DEF Login
  <2>2. ASSUME NEW c \in cookies, NEW input \in Inputs(c.user), Login2FA(w, c, input)
        PROVE  Good
    <3> DEFINE bs == IF ~(Active(c.user) /\ c.binding = PendingTwoFactorBinding(acct[c.user]))
                          \/ ~Admits(AcctLimitKey(c.user)) THEN {}
                     ELSE IF ~Admits(Ip) THEN {AcctLimitKey(c.user)}
                     ELSE {AcctLimitKey(c.user), Ip}
    <3>1. Charge(bs) /\ \A b \in bs : Admits(b)
      BY <2>2 DEF Login2FA
    <3> HIDE DEF bs
    <3> QED BY <3>1, <1>1
  <2>3. CASE AuthenticateUser(w)
    <3>1. CASE PasswordHolds(w)
      BY <1>0, <1>2, <2>3, <3>1, BucketsDistinct DEF AuthenticateUser, Placed
    <3>2. CASE ~PasswordHolds(w)
      BY <1>0, <2>3, <3>2 DEF AuthenticateUser
    <3> QED BY <3>1, <3>2
  <2>4. CASE VerifySecondFactor(w)
    <3> DEFINE ip == IF at[w].op = "login" THEN Refund ELSE fails[Ip]
    <3>1. CASE AcceptTotpStep(w) \/ ConsumeRecoveryCode(w)
      <4>1. at[w].user \in Accounts
        BY <1>0, <2>4 DEF VerifySecondFactor, Placed
      <4>2. AcctLimitKey(at[w].user) # Ip
        BY DEF AcctLimitKey, Ip, Bucket
      <4>3. fails' = [fails EXCEPT ![AcctLimitKey(at[w].user)] = 0, ![Ip] = ip]
        BY <2>4, <3>1, <4>1, <4>2, <1>0, BucketsDistinct DEF VerifySecondFactor
      <4>4. ip \in 0..MaxFails
        BY <1>0, <1>2, BucketsDistinct
      <4> HIDE DEF ip
      <4> QED BY <1>0, <4>1, <4>3, <4>4, BucketsDistinct
    <3>2. CASE ~(AcceptTotpStep(w) \/ ConsumeRecoveryCode(w))
      BY <1>0, <2>4, <3>2 DEF VerifySecondFactor
    <3> QED BY <3>1, <3>2
  <2>5. CASE SignPending2FA(w) \/ SecurityPolicy(w) \/ GetTotpSecret(w) \/ CreateSession(w)
    BY <1>0, <2>5 DEF SignPending2FA, SecurityPolicy, GetTotpSecret, CreateSession
  <2> QED BY <1>4, <2>1, <2>2, <2>3, <2>4, <2>5 DEF Signing
<1>5. ASSUME NEW w \in Workers, Passkeys(w)
      PROVE  Good
  BY <1>0, <1>3, <1>5 DEF Passkeys, PasskeyLoginFinish, PasskeyRegisterFinish, DeletePasskey,
     PasskeyLoginBegin, TouchWebauthnCredential, PasskeyRegisterBegin, AddWebauthnCredential
<1>6. ASSUME NEW w \in Workers, OwnAccount(w)
      PROVE  Good
  <2>1. ASSUME NEW s \in sessions, NEW op \in Sensitive, NEW right \in BOOLEAN,
               NEW input \in Inputs(s.user), SensitiveRequest(w, s, op, right, input)
        PROVE  Good
    <3>1. CASE Admits(AcctLimitKey(s.user))
      BY <2>1, <3>1, <1>1 DEF SensitiveRequest
    <3>2. CASE ~Admits(AcctLimitKey(s.user))
      BY <1>0, <2>1, <3>2 DEF SensitiveRequest
    <3> QED BY <3>1, <3>2
  <2>2. CASE ChangePassword(w) \/ StepUp(w)
    <3>1. fails' = fails \/ fails' = [fails EXCEPT ![AcctLimitKey(at[w].user)] = 0]
      BY <2>2 DEF ChangePassword, StepUp
    <3> QED BY <1>0, <3>1
  <2>3. CASE \/ EnableTwoFactor(w) \/ ReplaceRecoveryCodes(w) \/ LockFactors(w)
             \/ CheckFactorRemoval(w) \/ RemoveFactor(w)
    BY <1>0, <2>3 DEF EnableTwoFactor, ReplaceRecoveryCodes, LockFactors, CheckFactorRemoval,
                      RemoveFactor
  <2>4. CASE \E s \in sessions : SetTotp(w, s) \/ EndSessions(w, s)
    BY <1>0, <2>4 DEF SetTotp, EndSessions
  <2> QED BY <1>6, <2>1, <2>2, <2>3, <2>4 DEF OwnAccount
<1>7. ASSUME NEW w \in Workers, Administration(w)
      PROVE  Good
  BY <1>0, <1>7 DEF Administration, AdminRequest, UpdateSecurityPolicy, TakeAdminLock, CountAdmins,
                    EnsureAdmin, CreateAccount, ApplyRole, Reset
<1>8. CASE \E w \in Workers : Signing(w) \/ Passkeys(w) \/ OwnAccount(w) \/ Administration(w)
  BY <1>8, <1>4, <1>5, <1>6, <1>7
<1>9. CASE PurgeExpiredSessions \/ WindowElapses \/ ClockTicks \/ UNCHANGED vars
  BY <1>0, <1>9 DEF PurgeExpiredSessions, WindowElapses, ClockTicks, vars
<1> QED
  BY <1>8, <1>9 DEF Next

\* The three places where a proof is accepted.
LEMMA ProofsWritten ==
  ASSUME [Next]_vars
  PROVE  \/ UNCHANGED <<spent, reused>> \/ StepsReopen
         \/ \E w \in Workers : VerifySecondFactor(w) \/ TouchWebauthnCredential(w) \/ EnableTwoFactor(w)
<1>1. ASSUME NEW w \in Workers, Signing(w)
      PROVE  UNCHANGED <<spent, reused>> \/ VerifySecondFactor(w)
  BY <1>1 DEF Signing, Login, Login2FA, AuthenticateUser, GetTotpSecret, SignPending2FA,
              SecurityPolicy, CreateSession
<1>2. ASSUME NEW w \in Workers, Passkeys(w)
      PROVE  UNCHANGED <<spent, reused>> \/ TouchWebauthnCredential(w)
  BY <1>2 DEF Passkeys, PasskeyLoginFinish, PasskeyRegisterFinish, DeletePasskey,
              PasskeyLoginBegin, PasskeyRegisterBegin, AddWebauthnCredential
<1>3. ASSUME NEW w \in Workers, OwnAccount(w)
      PROVE  UNCHANGED <<spent, reused>> \/ StepsReopen \/ EnableTwoFactor(w)
  BY ZenonT(50), <1>3 DEF OwnAccount, SensitiveRequest, EndSessions, StepUp, LockFactors,
              CheckFactorRemoval, ChangePassword, ReplaceRecoveryCodes, RemoveFactor, SetTotp
<1>4. ASSUME NEW w \in Workers, Administration(w)
      PROVE  UNCHANGED <<spent, reused>> \/ StepsReopen
  BY <1>4 DEF Administration, AdminRequest, UpdateSecurityPolicy, TakeAdminLock, CountAdmins,
              EnsureAdmin, CreateAccount, ApplyRole, Reset
<1>5. CASE \E w \in Workers : Signing(w) \/ Passkeys(w) \/ OwnAccount(w) \/ Administration(w)
  BY <1>5, <1>1, <1>2, <1>3, <1>4
<1>6. CASE PurgeExpiredSessions \/ WindowElapses \/ ClockTicks \/ UNCHANGED vars
  BY <1>6 DEF PurgeExpiredSessions, WindowElapses, ClockTicks, vars
<1> QED
  BY <1>5, <1>6 DEF Next

\* The proof a step accepts, if it accepts one.
LEMMA ProofAccepted ==
  ASSUME TypeInv, NEW w \in Workers, VerifySecondFactor(w) \/ TouchWebauthnCredential(w)
  PROVE  UNCHANGED <<spent, reused>> \/ \E p \in Shown : Accept(p)
<1>1. at[w] \in Request /\ Placed(at[w]) /\ acct \in [Accounts -> Row]
  BY DEF TypeInv, TypeOK, AllPlaced
<1>2. CASE VerifySecondFactor(w)
  <2>1. CASE AcceptTotpStep(w) \/ ConsumeRecoveryCode(w)
    <3>1. Accept(SpentProof(w))
      BY <1>2, <2>1 DEF VerifySecondFactor
    <3>2. /\ at[w].input.how \in {"totp", "recovery"} /\ at[w].input.n \in Nat
          /\ at[w].user \in Accounts /\ at[w].input.secret \in Nat
      BY <1>1, <1>2, <2>1 DEF AcceptTotpStep, ConsumeRecoveryCode, ValidateStep, VerifySecondFactor,
                              Placed, Request, Typed
    <3>3. SpentProof(w) \in Shown
      BY <3>2 DEF SpentProof, Proof, Shown
    <3> QED BY <3>1, <3>3
  <2> QED BY <1>2, <2>1 DEF VerifySecondFactor
<1>3. CASE TouchWebauthnCredential(w)
  <2> DEFINE p == Proof("passkey", at[w].key, 0, at[w].by.n)
  <2>1. p \in Shown
    BY <1>1, <1>3 DEF TouchWebauthnCredential, Placed, Request, Shown, Proof
  <2>2. UNCHANGED <<spent, reused>> \/ Accept(p)
    BY <1>3 DEF TouchWebauthnCredential
  <2> QED BY <2>1, <2>2
<1> QED
  BY <1>2, <1>3

\* A confirmation spends the code that was typed, and opens the steps after it.
LEMMA Confirmed ==
  ASSUME TypeInv, NEW w \in Workers, EnableTwoFactor(w)
  PROVE  \/ UNCHANGED <<acct, spent, reused>>
         \/ /\ at[w].user \in Accounts /\ at[w].input.n \in Nat /\ at[w].seen \in Row
            /\ acct'[at[w].user] = [acct[at[w].user] EXCEPT !.totp = TRUE, !.secret = at[w].seen.secret,
                                      !.last = at[w].input.n, !.codes = FreshCodes(w)]
            /\ spent' = StillSpent \cup {Proof("totp", at[w].user, at[w].seen.secret, at[w].input.n)}
            /\ reused' = reused
<1>1. at[w] \in Request /\ Placed(at[w]) /\ acct \in [Accounts -> Row] /\ at[w].pc = "enable"
  BY DEF EnableTwoFactor, TypeInv, TypeOK, AllPlaced
<1>2. at[w].user \in Accounts /\ at[w].input.n \in Nat /\ at[w].seen \in Row
  BY <1>1 DEF Placed, Request, Typed
<1>3. CASE Active(at[w].user)
  BY <1>1, <1>2, <1>3 DEF EnableTwoFactor
<1>4. CASE ~Active(at[w].user)
  BY <1>4 DEF EnableTwoFactor
<1> QED
  BY <1>3, <1>4

LEMMA ProofsTyped ==
  ASSUME TypeInv, [Next]_vars
  PROVE  spent' \subseteq Shown /\ reused' \subseteq Shown
<1>1. spent \subseteq Shown /\ reused \subseteq Shown
  BY DEF TypeInv, TypeOK
<1>2. ASSUME NEW w \in Workers, VerifySecondFactor(w) \/ TouchWebauthnCredential(w)
      PROVE  spent' \subseteq Shown /\ reused' \subseteq Shown
  BY <1>1, <1>2, ProofAccepted DEF Accept
<1>3. ASSUME NEW w \in Workers, EnableTwoFactor(w)
      PROVE  spent' \subseteq Shown /\ reused' \subseteq Shown
  <2> DEFINE u == at[w].user
             n == at[w].input.n
  <2>1. PICK p : p = Proof("totp", u, at[w].seen.secret, n)
    OBVIOUS
  <2>2. CASE UNCHANGED <<acct, spent, reused>>
    BY <1>1, <2>2
  <2>3. CASE ~UNCHANGED <<acct, spent, reused>>
    <3>1. /\ u \in Accounts /\ n \in Nat /\ at[w].seen \in Row
          /\ spent' = StillSpent \cup {p} /\ reused' = reused
      BY <1>3, <2>1, <2>3, Confirmed
    <3>2. at[w].seen.secret \in Nat
      BY <3>1 DEF Row
    <3>3. p \in Shown
      BY <2>1, <3>1, <3>2 DEF Proof, Shown
    <3>4. StillSpent \subseteq spent
      BY DEF StillSpent
    <3> QED BY <1>1, <3>1, <3>3, <3>4
  <2> QED BY <2>2, <2>3
<1>4. CASE StepsReopen
  <2>1. StillSpent \subseteq spent
    BY DEF StillSpent
  <2> QED BY <1>1, <1>4, <2>1 DEF StepsReopen
<1> QED
  BY <1>1, <1>2, <1>3, <1>4, ProofsWritten

LEMMA WorldTyped ==
  ASSUME TypeInv, [Next]_vars
  PROVE  /\ policy' \subseteq {"admin", "editor"} /\ now' \in Nat \ {0} /\ served' \in Nat
         /\ served' \in {served, served + 1}
<1>0. policy \subseteq {"admin", "editor"} /\ now \in Nat \ {0} /\ served \in Nat
  BY DEF TypeInv, TypeOK
<1>1. ASSUME NEW w \in Workers, Signing(w)
      PROVE  UNCHANGED world /\ served' \in {served, served + 1}
  BY <1>1 DEF Signing, Login, Login2FA, AuthenticateUser, GetTotpSecret, SignPending2FA,
              SecurityPolicy, CreateSession, VerifySecondFactor, Arrives, Proceeds
<1>2. ASSUME NEW w \in Workers, Passkeys(w)
      PROVE  UNCHANGED world /\ served' \in {served, served + 1}
  BY <1>2 DEF Passkeys, PasskeyLoginFinish, PasskeyRegisterFinish, DeletePasskey, PasskeyLoginBegin,
              PasskeyRegisterBegin, AddWebauthnCredential, TouchWebauthnCredential, Arrives, Proceeds
<1>3. ASSUME NEW w \in Workers, OwnAccount(w)
      PROVE  UNCHANGED world /\ served' \in {served, served + 1}
  BY <1>3 DEF OwnAccount, SensitiveRequest, EndSessions, StepUp, LockFactors, CheckFactorRemoval,
              ChangePassword, ReplaceRecoveryCodes, RemoveFactor, SetTotp, EnableTwoFactor, Arrives,
              Proceeds
<1>4. ASSUME NEW w \in Workers, Administration(w)
      PROVE  policy' \subseteq {"admin", "editor"} /\ now' = now /\ served' \in {served, served + 1}
  BY <1>0, <1>4 DEF Administration, AdminRequest, UpdateSecurityPolicy, TakeAdminLock, CountAdmins,
              EnsureAdmin, CreateAccount, ApplyRole, Reset, Arrives, Proceeds
<1>5. ASSUME PurgeExpiredSessions \/ WindowElapses \/ ClockTicks \/ UNCHANGED vars
      PROVE  UNCHANGED policy /\ now' \in {now, now + 1} /\ served' \in {served, served + 1}
  BY <1>5 DEF PurgeExpiredSessions, WindowElapses, ClockTicks, vars, Expires
<1>6. /\ policy' \subseteq {"admin", "editor"}
      /\ now' \in {now, now + 1} /\ served' \in {served, served + 1}
  BY <1>0, <1>1, <1>2, <1>3, <1>4, <1>5 DEF Next
<1> QED
  BY <1>0, <1>6

LEMMA TypesKept ==
  ASSUME TypeInv, [Next]_vars
  PROVE  TypeInv'
<1>1. AllPlaced'
  BY PlacesKept
<1>2. TypeOK'
  BY <1>1, RowsTyped, SessionsTyped, TokensTyped, AttemptsTyped, ProofsTyped, WorldTyped
     DEF TypeOK, AllPlaced
<1> QED
  BY <1>1, <1>2 DEF TypeInv

LEMMA InitTyped == Init => TypeInv
<1> SUFFICES ASSUME Init PROVE TypeInv
  OBVIOUS
<1>1. \A role \in Roles : Born(role) \in Row
  BY DEF Born, Unborn, Row, Roles
<1>2. Unborn \in Row
  BY DEF Unborn, Row, Roles
<1>3. acct \in [Accounts -> Row]
  <2>1. PICK chief \in Accounts, keys \in {{}, Keys}, totp \in BOOLEAN,
             other \in {Unborn, Born("editor"), Born("admin")} :
               acct = [u \in Accounts |->
                 IF u = chief
                 THEN [(IF totp THEN Protected(Born("admin")) ELSE Born("admin")) EXCEPT !.keys = keys]
                 ELSE other]
    BY DEF Init
  <2> DEFINE root == IF totp THEN Protected(Born("admin")) ELSE Born("admin")
  <2>2. ASSUME NEW row \in Row PROVE Protected(row) \in Row
    <3> DEFINE codes == {1}
               one == 1
    <3>1. codes \in SUBSET Nat /\ one \in Nat
      OBVIOUS
    <3>2. Protected(row) = [row EXCEPT !.totp = TRUE, !.secret = one, !.codes = codes]
      BY DEF Protected
    <3> HIDE DEF codes, one
    <3> QED BY <3>1, <3>2 DEF Row
  <2>3. root \in Row
    BY <1>1, <2>2 DEF Roles
  <2>4. [root EXCEPT !.keys = keys] \in Row
    <3> HIDE DEF root
    <3> QED BY <2>3 DEF Row
  <2>5. other \in Row
    BY <1>1, <1>2 DEF Roles
  <2> QED BY <2>1, <2>4, <2>5
<1>4. AllPlaced
  BY IdleRequest DEF Init, AllPlaced
<1>5. /\ \A s \in sessions : s.id \in Nat /\ s.user \in Accounts
      /\ (\A c \in cookies : c.user \in Accounts) /\ (\A c \in ceremonies : c.user = None)
      /\ spent = {} /\ reused = {}
      /\ counter \in [Keys -> Nat \cup {None}]
      /\ policy \subseteq {"admin", "editor"} /\ now \in Nat \ {0} /\ served \in Nat
  <2>1. \A c \in cookies : \E u \in Accounts : c = Pending(u)
    BY DEF Init
  <2>2. \A c \in cookies : c.user \in Accounts
    BY <2>1 DEF Pending
  <2>3. \A c \in ceremonies : c \in Begun
    BY DEF Init
  <2>4. \A c \in ceremonies : c.user = None
    BY <2>3 DEF Begun
  <2>5. \A s \in sessions : s.id \in Nat /\ s.user \in Accounts
    BY DEF Init
  <2>6. counter \in [Keys -> Nat \cup {None}]
    BY DEF Init
  <2>7. policy \subseteq {"admin", "editor"} /\ now \in Nat \ {0} /\ served \in Nat
        /\ spent = {} /\ reused = {}
    BY DEF Init
  <2> QED BY <2>2, <2>4, <2>5, <2>6, <2>7
<1>6. fails \in [Buckets -> 0..MaxFails]
  BY BoundsNat DEF Init
<1> QED
  BY <1>3, <1>4, <1>5, <1>6 DEF TypeInv, TypeOK, AllPlaced

\* Every variable keeps its type and every request its place, for any number
\* of accounts, requests, attempts and passkeys.
THEOREM TypeCorrect == Spec => []TypeOK
<1>1. TypeInv /\ [Next]_vars => TypeInv'
  BY TypesKept
<1>2. TypeInv => TypeOK
  BY DEF TypeInv
<1> QED
  BY InitTyped, <1>1, <1>2, PTL DEF Spec

LEMMA InitAdmin == Init => AdminInv
<1> SUFFICES ASSUME Init PROVE AdminInv
  OBVIOUS
<1>1. \A w \in Workers : at[w].pc = "idle"
  BY IdleRequest DEF Init
<1>2. Admins # {}
  <2>1. PICK chief \in Accounts, keys \in {{}, Keys}, totp \in BOOLEAN :
          acct[chief] = [(IF totp THEN Protected(Born("admin")) ELSE Born("admin")) EXCEPT !.keys = keys]
    BY DEF Init
  <2>2. acct[chief].role = "admin" /\ ~acct[chief].disabled
    BY <2>1 DEF Protected, Born, Unborn
  <2> QED BY <2>2 DEF Admins, Active
<1> QED BY <1>1, <1>2, InitTyped DEF AdminInv, Deciding

\* Whatever administrators and start-up resets decide at the same time, an active
\* administrator remains: the lock that SetAdmin, SetRoleSafe and DeleteUserSafe
\* take (store.go:160-260).
THEOREM AdministratorRemains == Spec => []AdminRemains
<1>1. Init => AdminInv
  BY InitAdmin
<1>2. AdminInv /\ [Next]_vars => AdminInv'
  BY AdminInvKept, TypesKept DEF AdminInv, TypeInv
<1>3. AdminInv => AdminRemains
  BY DEF AdminInv, AdminRemains
<1> QED
  BY <1>1, <1>2, <1>3, PTL DEF Spec

-----------------------------------------------------------------------------
(* What was in flight when an account was retired.                         *)

Bare(row) == ~HasFactor(row) /\ row.codes = {} /\ row.password = 0

RetiredInv == AdminInv /\ DeactivatedHoldsNothing

\* Writes that were admitted before find the account inactive, or only take.
LEMMA RetiredRowStays ==
  ASSUME TypeInv, NEW w \in Workers, WritesOwnRow(w),
         NEW v \in Accounts, acct[v].disabled, Bare(acct[v])
  PROVE  Bare(acct'[v])
<1>0. at[w] \in Request /\ Placed(at[w]) /\ acct \in [Accounts -> Row] /\ ~Active(v)
  BY DEF TypeInv, TypeOK, AllPlaced, Active
<1>1. CASE VerifySecondFactor(w)
  <2>1. CASE AcceptTotpStep(w) \/ ConsumeRecoveryCode(w)
    <3>1. at[w].user # v
      BY <1>0, <2>1 DEF AcceptTotpStep, ConsumeRecoveryCode, Bare
    <3>2. acct'[v] = acct[v]
      BY <1>0, <1>1, <2>1, <3>1 DEF VerifySecondFactor, Spent
    <3> QED BY <3>2
  <2> QED BY <1>1, <2>1 DEF VerifySecondFactor
<1>2. CASE AddWebauthnCredential(w)
  <2>1. acct'[v] = acct[v]
    BY <1>0, <1>2 DEF AddWebauthnCredential
  <2> QED BY <2>1
<1>3. CASE ChangePassword(w)
  <2>1. acct'[v] = acct[v]
    BY <1>0, <1>3 DEF ChangePassword, PasswordHolds
  <2> QED BY <2>1
<1>4. CASE EnableTwoFactor(w)
  <2>1. acct'[v] = acct[v]
    BY <1>0, <1>4 DEF EnableTwoFactor
  <2> QED BY <2>1
<1>5. CASE ReplaceRecoveryCodes(w)
  <2>1. acct'[v] = acct[v]
    BY <1>0, <1>5 DEF ReplaceRecoveryCodes
  <2> QED BY <2>1
<1>6. CASE RemoveFactor(w)
  <2>1. \/ acct'[v] = acct[v]
        \/ acct'[v] = [acct[v] EXCEPT !.keys = @ \ {at[w].key}]
        \/ acct'[v] = [acct[v] EXCEPT !.totp = FALSE, !.secret = 0, !.last = 0, !.codes = {}]
    BY <1>0, <1>6 DEF RemoveFactor
  <2>2. acct[v] \in Row
    BY <1>0
  <2> QED BY <2>1, <2>2 DEF Bare, HasFactor, Row
<1>7. CASE Reset(w)
  <2>1. acct'[v] = acct[v]
    BY <1>0, <1>7 DEF Reset
  <2> QED BY <2>1
<1>8. CASE \E s \in sessions : SetTotp(w, s)
  <2>1. acct'[v] = acct[v]
    BY <1>0, <1>8 DEF SetTotp
  <2> QED BY <2>1
<1> QED
  BY <1>1, <1>2, <1>3, <1>4, <1>5, <1>6, <1>7, <1>8 DEF WritesOwnRow

LEMMA RetiredRows ==
  ASSUME RetiredInv, [Next]_vars, NEW v \in Accounts, acct'[v].disabled
  PROVE  Bare(acct'[v])
<1>0. TypeInv /\ acct \in [Accounts -> Row] /\ (acct[v].disabled => Bare(acct[v]))
  BY DEF RetiredInv, AdminInv, TypeInv, TypeOK, DeactivatedHoldsNothing, Bare
<1>1. CASE acct' = acct
  BY <1>0, <1>1
<1>2. ASSUME NEW w \in Workers, WritesOwnRow(w) PROVE Bare(acct'[v])
  <2>1. acct'[v].disabled = acct[v].disabled
    BY <1>0, <1>2, OwnRowWritten, RewriteKeeps DEF KeepsPower
  <2> QED BY <1>0, <1>2, <2>1, RetiredRowStays
<1>3. ASSUME NEW w \in Workers, ApplyRole(w) PROVE Bare(acct'[v])
  <2>1. PICK row : Decided(w, row) /\ acct' = [acct EXCEPT ![at[w].user] = row]
    BY <1>0, <1>3, RoleApplied
  <2>2. at[w].pc = "apply" /\ at[w].user \in Accounts /\ Active(at[w].user)
    BY <1>0, <1>3, RoleApplied DEF RetiredInv, AdminInv
  <2>3. CASE v # at[w].user
    BY <1>0, <2>1, <2>3
  <2>4. CASE v = at[w].user
    <3>1. acct'[v] = row /\ acct[v] \in Row /\ ~acct[v].disabled
      BY <1>0, <2>1, <2>2, <2>4 DEF Active
    <3>2. at[w].op = "deactivate"
      <4> SUFFICES ASSUME at[w].op # "deactivate" PROVE FALSE
        OBVIOUS
      <4>1. PICK role \in Roles : row = [acct[v] EXCEPT !.role = role]
        BY <2>1, <2>4 DEF Decided
      <4>2. row.disabled = acct[v].disabled
        BY <3>1, <4>1 DEF Row
      <4> QED BY <3>1, <4>2
    <3> QED BY <2>1, <3>1, <3>2 DEF Decided, Bare, HasFactor
  <2> QED BY <2>3, <2>4
<1>4. ASSUME NEW w \in Workers, Creates(w) PROVE Bare(acct'[v])
  <2>1. PICK u \in Accounts, role \in Roles : acct[u] = Unborn /\ acct' = [acct EXCEPT ![u] = Born(role)]
    BY <1>0, <1>4, AccountCreated
  <2>2. ~Born(role).disabled
    BY DEF Born, Unborn
  <2> QED BY <1>0, <2>1, <2>2
<1> QED
  BY <1>1, <1>2, <1>3, <1>4, RowsWritten

LEMMA RetiredSessions ==
  ASSUME RetiredInv, [Next]_vars, NEW v \in Accounts, acct'[v].disabled
  PROVE  \A s \in sessions' : s.user # v
<1>0. TypeInv /\ acct \in [Accounts -> Row] /\ (acct[v].disabled => \A s \in sessions : s.user # v)
  BY DEF RetiredInv, AdminInv, TypeInv, TypeOK, DeactivatedHoldsNothing, SessionsOf
<1>1. ASSUME NEW w \in Workers, CreateSession(w) \/ ChangePassword(w)
      PROVE  \A s \in sessions' : s.user # v
  <2>1. acct'[v].disabled = acct[v].disabled
    <3>1. CASE CreateSession(w)
      BY <3>1 DEF CreateSession
    <3>2. CASE ChangePassword(w)
      BY <1>0, <3>2, OwnRowWritten, RewriteKeeps DEF KeepsPower, WritesOwnRow
    <3> QED BY <1>1, <3>1, <3>2
  <2>2. sessions' \subseteq sessions \/ at[w].user # v
    BY <1>1, <2>1 DEF CreateSession, ChangePassword, PasswordHolds, Active
  <2>3. \A s \in sessions' : s \in sessions \/ s.user = at[w].user
    BY <1>1 DEF CreateSession, ChangePassword
  <2> QED BY <1>0, <2>1, <2>2, <2>3
<1>2. CASE sessions' \subseteq sessions /\ acct[v].disabled
  BY <1>0, <1>2
<1>3. CASE ~acct[v].disabled
  <2>1. PICK w \in Workers : ApplyRole(w)
    BY <1>0, <1>3, AdminsGrow DEF Active
  <2>2. PICK row : acct' = [acct EXCEPT ![at[w].user] = row]
    BY <1>0, <2>1, RoleApplied
  <2>3. v = at[w].user /\ sessions' = sessions \ SessionsOf(at[w].user)
    BY <1>0, <1>3, <2>1, <2>2, RoleApplied
  <2> QED BY <2>3 DEF SessionsOf
<1> QED
  BY <1>1, <1>2, <1>3, SessionsWritten

\* DeleteUserSafe and the conditions of every later write (store.go:230): whatever was
\* in flight, a retired account has no session, factor, passkey or password.
THEOREM RetiredHoldsNothing == Spec => []DeactivatedHoldsNothing
<1>1. Init => AdminInv
  BY InitAdmin
<1>2. Init => DeactivatedHoldsNothing
  <2> SUFFICES ASSUME Init, NEW u \in Accounts, acct[u].disabled
               PROVE  SessionsOf(u) = {} /\ Bare(acct[u])
    BY DEF DeactivatedHoldsNothing, Bare
  <2>1. PICK chief \in Accounts, keys \in {{}, Keys}, totp \in BOOLEAN,
             other \in {Unborn, Born("editor"), Born("admin")} :
               acct = [v \in Accounts |->
                 IF v = chief
                 THEN [(IF totp THEN Protected(Born("admin")) ELSE Born("admin")) EXCEPT !.keys = keys]
                 ELSE other]
    BY DEF Init
  <2>2. acct[u] = Unborn
    <3>1. /\ \A role \in Roles : ~Born(role).disabled
          /\ ~[(IF totp THEN Protected(Born("admin")) ELSE Born("admin")) EXCEPT !.keys = keys].disabled
      BY DEF Born, Unborn, Protected
    <3> QED BY <2>1, <3>1 DEF Roles
  <2>3. Bare(acct[u])
    BY <2>2 DEF Bare, HasFactor, Unborn
  <2>4. SessionsOf(u) = {}
    BY DEF Init, SessionsOf, Active
  <2> QED BY <2>3, <2>4
<1>3. RetiredInv /\ [Next]_vars => RetiredInv'
  <2> SUFFICES ASSUME RetiredInv, [Next]_vars PROVE RetiredInv'
    OBVIOUS
  <2>1. AdminInv'
    BY AdminInvKept, TypesKept DEF RetiredInv, AdminInv, TypeInv
  <2>2. \A v \in Accounts : acct'[v].disabled =>
          (\A s \in sessions' : s.user # v) /\ Bare(acct'[v])
    BY RetiredRows, RetiredSessions
  <2> QED BY <2>1, <2>2 DEF RetiredInv, DeactivatedHoldsNothing, Bare, SessionsOf
<1>4. RetiredInv => DeactivatedHoldsNothing
  BY DEF RetiredInv
<1> QED
  BY <1>1, <1>2, <1>3, <1>4, PTL DEF Spec, RetiredInv

-----------------------------------------------------------------------------
(* Why a proof is accepted once.  A time step that counts as spent is not  *)
(* after the row's last step; a recovery code is no longer in the row, and *)
(* no request holds the number it was made of; a signature counter is at   *)
(* or below the stored one.                                                *)

Past(p) ==
  /\ p.how = "totp" =>
       p.of \in Accounts /\ p.n <= acct[p.of].last
  /\ p.how = "recovery" =>
       /\ p.of \in Accounts /\ p.n \notin acct[p.of].codes /\ p.n <= served + 1
       /\ \A w \in Workers : at[w].n # 0 => p.n # at[w].n + 1
  /\ p.how = "passkey" =>
       p.of \in Keys /\ counter[p.of] \in Nat /\ p.n <= counter[p.of]

NumbersApart ==
  /\ \A w \in Workers : at[w].n <= served
  /\ \A w, x \in Workers : at[w].n = at[x].n /\ at[w].n # 0 => w = x

CodesApart ==
  \A u \in Accounts : \A c \in acct[u].codes :
    c <= served + 1 /\ \A w \in Workers : at[w].n # 0 => c # at[w].n + 1

KeysCounted == \A u \in Accounts : \A k \in acct[u].keys : counter[k] \in Nat

ProofInv ==
  TypeInv /\ NumbersApart /\ CodesApart /\ KeysCounted /\ (\A p \in spent : Past(p)) /\ reused = {}

\* A request's number is its own: the next one is larger than any before.
LEMMA NumbersMove ==
  ASSUME TypeInv, [Next]_vars
  PROVE  \/ \A w \in Workers : at'[w].n = at[w].n
         \/ \E y \in Workers :
              /\ \A w \in Workers \ {y} : at'[w].n = at[w].n
              /\ at'[y].n \in {0, at[y].n} \/ (at'[y].n = served' /\ served' = served + 1)
<1>1. ASSUME NEW y \in Workers, NEW r, Proper(y, r), at' = [at EXCEPT ![y] = r]
      PROVE  /\ \A w \in Workers \ {y} : at'[w].n = at[w].n
             /\ at'[y].n \in {0, at[y].n} \/ (at'[y].n = served' /\ served' = served + 1)
  <2>1. at \in [Workers -> Request]
    BY DEF TypeInv, AllPlaced
  <2>2. at'[y] = r /\ \A w \in Workers \ {y} : at'[w] = at[w]
    BY <1>1, <2>1
  <2>3. r.n \in {0, at[y].n} \/ (Arrives(y) /\ r.n = served')
    BY <1>1 DEF Proper
  <2> QED BY <2>2, <2>3 DEF Arrives
<1> QED
  BY <1>1, RequestsMove DEF Moves

LEMMA ServedGrows ==
  ASSUME TypeInv, [Next]_vars
  PROVE  served' \in {served, served + 1}
BY WorldTyped

LEMMA NumbersStayApart ==
  ASSUME TypeInv, NumbersApart, [Next]_vars
  PROVE  NumbersApart'
<1>0. served \in Nat /\ served' \in {served, served + 1} /\ \A w \in Workers : at[w].n \in Nat
  BY ServedGrows DEF TypeInv, TypeOK, AllPlaced, Request
<1>1. CASE \A w \in Workers : at'[w].n = at[w].n
  BY <1>0, <1>1 DEF NumbersApart
<1>2. ASSUME NEW y \in Workers, \A w \in Workers \ {y} : at'[w].n = at[w].n,
             at'[y].n \in {0, at[y].n} \/ (at'[y].n = served' /\ served' = served + 1)
      PROVE  NumbersApart'
  <2>1. CASE at'[y].n = 0
    BY <1>0, <1>2, <2>1 DEF NumbersApart
  <2>2. CASE at'[y].n = at[y].n
    BY <1>0, <1>2, <2>2 DEF NumbersApart
  <2>3. CASE at'[y].n = served' /\ served' = served + 1
    <3>1. \A w \in Workers \ {y} : at'[w].n # at'[y].n
      BY <1>0, <1>2, <2>3 DEF NumbersApart
    <3> QED BY <1>0, <1>2, <2>3, <3>1 DEF NumbersApart
  <2> QED BY <1>2, <2>1, <2>2, <2>3
<1> QED
  BY <1>1, <1>2, NumbersMove

\* What a step may make of a row's last step, codes and keys; where it sets the last
\* step anew, no later one counts as spent.
Reopened == \A p \in spent' : p.how = "totp" => p.n <= acct'[p.of].last

Onward(u) ==
  /\ acct[u].last <= acct'[u].last \/ Reopened
  /\ \A c \in acct'[u].codes : \/ c \in acct[u].codes
                               \/ \E w \in Workers : at[w].n # 0 /\ at'[w].n = 0 /\ c = at[w].n + 1
  /\ \A k \in acct'[u].keys : k \in acct[u].keys \/ counter'[k] = 0

LEMMA SameRowOnward ==
  ASSUME TypeInv, NEW u \in Accounts, acct'[u] = acct[u]
  PROVE  Onward(u)
BY DEF Onward, TypeInv, TypeOK, Row

LEMMA LessOnward ==
  ASSUME TypeInv, NEW u \in Accounts, acct'[u].last = acct[u].last \/ Reopened,
         acct'[u].codes \subseteq acct[u].codes, acct'[u].keys \subseteq acct[u].keys
  PROVE  Onward(u)
<1>1. acct[u].last \in Nat
  BY DEF TypeInv, TypeOK, Row
<1> QED
  BY <1>1 DEF Onward

LEMMA StepsReopenReopened ==
  ASSUME StepsReopen
  PROVE  Reopened
BY DEF StepsReopen, StillSpent, Reopened

LEMMA ConfirmedReopens ==
  ASSUME TypeInv, NEW w \in Workers, EnableTwoFactor(w)
  PROVE  acct' = acct \/ Reopened
<1> DEFINE u == at[w].user
           n == at[w].input.n
<1>1. PICK p : p = Proof("totp", u, at[w].seen.secret, n)
  OBVIOUS
<1>2. CASE ~UNCHANGED <<acct, spent, reused>>
  <2>1. /\ u \in Accounts /\ n \in Nat /\ acct[u] \in Row
        /\ acct'[u] = [acct[u] EXCEPT !.totp = TRUE, !.secret = at[w].seen.secret, !.last = n,
                                      !.codes = FreshCodes(w)]
        /\ spent' = StillSpent \cup {p}
    BY <1>1, <1>2, Confirmed DEF TypeInv, TypeOK
  <2>2. acct'[u].last = n
    BY <2>1 DEF Row
  <2>3. PICK m \in Nat : m = n
    BY <2>1
  <2>4. p.of = u /\ p.n = m
    BY <1>1, <2>3 DEF Proof
  <2>5. p.n <= acct'[p.of].last
    BY <2>2, <2>3, <2>4
  <2>6. ASSUME NEW q \in spent', q.how = "totp" PROVE q.n <= acct'[q.of].last
    BY <2>1, <2>5, <2>6 DEF StillSpent
  <2> QED BY <2>6 DEF Reopened
<1> QED
  BY <1>2

LEMMA OwnRowOnward ==
  ASSUME TypeInv, NEW w \in Workers, WritesOwnRow(w), NEW v \in Accounts
  PROVE  Onward(v)
<1> DEFINE u == at[w].user
<1>0. /\ at[w] \in Request /\ Placed(at[w]) /\ acct \in [Accounts -> Row] /\ acct[v] \in Row
      /\ at \in [Workers -> Request] /\ counter \in [Keys -> Nat \cup {None}]
  BY DEF TypeInv, TypeOK, AllPlaced
<1>1. CASE VerifySecondFactor(w)
  <2>1. CASE (AcceptTotpStep(w) \/ ConsumeRecoveryCode(w)) /\ v = u
    <3>1. CASE at[w].input.how = "totp"
      <4>1. acct[v].last < at[w].input.n /\ at[w].input.n \in Nat
        BY <1>0, <2>1, <3>1 DEF AcceptTotpStep, ConsumeRecoveryCode, Request, Typed
      <4>2. acct'[v] = [acct[v] EXCEPT !.last = at[w].input.n]
        BY <1>0, <1>1, <2>1, <3>1 DEF VerifySecondFactor, Spent
      <4> QED BY <1>0, <4>1, <4>2 DEF Onward, Row
    <3>2. CASE at[w].input.how # "totp"
      <4>1. acct'[v] = [acct[v] EXCEPT !.codes = @ \ {at[w].input.n}]
        BY <1>0, <1>1, <2>1, <3>2 DEF VerifySecondFactor, Spent
      <4> QED BY <1>0, <4>1 DEF Onward, Row
    <3> QED BY <3>1, <3>2
  <2>2. CASE ~((AcceptTotpStep(w) \/ ConsumeRecoveryCode(w)) /\ v = u)
    <3>1. acct'[v] = acct[v]
      BY <1>0, <1>1, <2>2 DEF VerifySecondFactor, Spent
    <3> QED BY <3>1, SameRowOnward
  <2> QED BY <2>1, <2>2
<1>2. CASE AddWebauthnCredential(w)
  <2>1. CASE Active(u) /\ counter[at[w].key] = None /\ v = u
    <3>1. acct'[v] = [acct[v] EXCEPT !.keys = @ \cup {at[w].key}] /\ at[w].key \in Keys
      BY <1>0, <1>2, <2>1 DEF AddWebauthnCredential, Placed
    <3>2. counter'[at[w].key] = 0
      BY <1>0, <1>2, <2>1, <3>1 DEF AddWebauthnCredential
    <3> QED BY <1>0, <3>1, <3>2 DEF Onward, Row
  <2>2. CASE ~(Active(u) /\ counter[at[w].key] = None /\ v = u)
    <3>1. acct'[v] = acct[v]
      BY <1>0, <1>2, <2>2 DEF AddWebauthnCredential
    <3> QED BY <3>1, SameRowOnward
  <2> QED BY <2>1, <2>2
<1>3. CASE ChangePassword(w)
  <2>1. acct'[v] = acct[v] \/ acct'[v] = [acct[v] EXCEPT !.password = at[w].n + 1]
    BY <1>0, <1>3 DEF ChangePassword
  <2> QED BY <1>0, <2>1 DEF Onward, Row
<1>4. ASSUME EnableTwoFactor(w) \/ ReplaceRecoveryCodes(w)
      PROVE  at[w].n # 0 /\ at'[w].n = 0 /\ \A c \in FreshCodes(w) : c = at[w].n + 1
  <2>1. at' = [at EXCEPT ![w] = Idle] /\ at[w].pc \in {"enable", "regenerate"}
    BY <1>4 DEF EnableTwoFactor, ReplaceRecoveryCodes, Ends
  <2>2. at'[w].n = 0
    BY <1>0, <2>1 DEF Idle
  <2>3. at[w].n # 0
    BY <1>0, <2>1 DEF Placed
  <2> QED BY <2>2, <2>3 DEF FreshCodes
<1>5. CASE EnableTwoFactor(w)
  <2>1. \/ acct'[v] = acct[v]
        \/ acct'[v] = [acct[v] EXCEPT !.totp = TRUE, !.secret = at[w].seen.secret,
                         !.last = at[w].input.n, !.codes = FreshCodes(w)]
    <3>1. CASE Active(u) /\ v = u
      BY <1>0, <1>5, <3>1 DEF EnableTwoFactor
    <3>2. CASE ~(Active(u) /\ v = u)
      BY <1>0, <1>5, <3>2 DEF EnableTwoFactor
    <3> QED BY <3>1, <3>2
  <2>2. acct'[v] = acct[v] \/ (acct'[v].codes = FreshCodes(w) /\ acct'[v].keys = acct[v].keys)
    BY <1>0, <2>1 DEF Row
  <2>3. acct' = acct \/ Reopened
    BY <1>5, ConfirmedReopens
  <2> QED BY <1>4, <1>5, <2>2, <2>3, SameRowOnward DEF Onward
<1>6. CASE ReplaceRecoveryCodes(w)
  <2>1. acct'[v] = acct[v] \/ acct'[v] = [acct[v] EXCEPT !.codes = FreshCodes(w)]
    BY <1>0, <1>6 DEF ReplaceRecoveryCodes
  <2>2. acct'[v] = acct[v] \/ (/\ acct'[v].codes = FreshCodes(w)
                               /\ acct'[v].keys = acct[v].keys /\ acct'[v].last = acct[v].last)
    BY <1>0, <2>1 DEF Row
  <2>3. acct[v].last \in Nat
    BY <1>0 DEF Row
  <2> QED BY <1>4, <1>6, <2>2, <2>3, SameRowOnward DEF Onward
<1>7. CASE RemoveFactor(w)
  <2>1. \/ acct'[v] = acct[v]
        \/ acct'[v] = [acct[v] EXCEPT !.keys = @ \ {at[w].key}]
        \/ acct'[v] = [acct[v] EXCEPT !.totp = FALSE, !.secret = 0, !.last = 0, !.codes = {}]
    BY <1>0, <1>7 DEF RemoveFactor
  <2>2. acct'[v].codes \subseteq acct[v].codes /\ acct'[v].keys \subseteq acct[v].keys
    BY <1>0, <2>1 DEF Row
  <2>3. Reopened
    BY <1>7, StepsReopenReopened DEF RemoveFactor
  <2> QED BY <2>2, <2>3, LessOnward
<1>8. CASE Reset(w)
  <2>1. \/ acct'[v] = acct[v]
        \/ acct'[v] = [acct[v] EXCEPT !.totp = FALSE, !.secret = 0, !.codes = {}, !.keys = {}]
        \/ acct'[v] = [acct[v] EXCEPT !.password = at[w].n + 1, !.keys = {}]
    BY <1>0, <1>8 DEF Reset, ResetRow
  <2>2. /\ acct'[v].last = acct[v].last
        /\ acct'[v].codes \subseteq acct[v].codes /\ acct'[v].keys \subseteq acct[v].keys
    BY <1>0, <2>1 DEF Row
  <2> QED BY <2>2, LessOnward
<1>9. CASE \E s \in sessions : SetTotp(w, s)
  <2>1. acct'[v] = acct[v] \/ acct'[v] = [acct[v] EXCEPT !.secret = served' + 1]
    BY <1>0, <1>9 DEF SetTotp
  <2> QED BY <1>0, <2>1 DEF Onward, Row
<1> QED
  BY <1>1, <1>2, <1>3, <1>5, <1>6, <1>7, <1>8, <1>9 DEF WritesOwnRow

LEMMA RowsOnward ==
  ASSUME TypeInv, [Next]_vars, NEW v \in Accounts
  PROVE  Onward(v)
<1>0. acct \in [Accounts -> Row] /\ acct[v] \in Row
  BY DEF TypeInv, TypeOK
<1>1. ASSUME NEW w \in Workers, ApplyRole(w) PROVE Onward(v)
  <2>1. CASE v = at[w].user
    <3>1. \/ acct'[v] = Deactivated(acct[v])
          \/ \E role : acct'[v] = [acct[v] EXCEPT !.role = role]
      BY <1>0, <1>1, <2>1 DEF ApplyRole
    <3>2. acct'[v].codes \subseteq acct[v].codes /\ acct'[v].keys \subseteq acct[v].keys
      BY <1>0, <3>1 DEF Row, Deactivated
    <3>3. Reopened
      BY <1>1, StepsReopenReopened DEF ApplyRole
    <3> QED BY <3>2, <3>3, LessOnward
  <2>2. CASE v # at[w].user
    <3>1. acct'[v] = acct[v]
      BY <1>0, <1>1, <2>2 DEF ApplyRole
    <3> QED BY <3>1, SameRowOnward
  <2> QED BY <2>1, <2>2
<1>2. ASSUME NEW w \in Workers, Creates(w) PROVE Onward(v)
  <2>1. PICK u \in Accounts, role \in Roles :
          acct[u] = Unborn /\ acct' = [acct EXCEPT ![u] = Born(role)]
    BY <1>2, AccountCreated
  <2>2. acct'[v] = acct[v] \/ (acct[v] = Unborn /\ acct'[v] = Born(role))
    BY <1>0, <2>1
  <2>3. /\ acct'[v].last = acct[v].last
        /\ acct'[v].codes \subseteq acct[v].codes /\ acct'[v].keys \subseteq acct[v].keys
    <3>1. \A r : /\ Born(r).last = Unborn.last
                 /\ Born(r).codes = Unborn.codes /\ Born(r).keys = Unborn.keys
      BY DEF Born, Unborn
    <3> QED BY <2>2, <3>1
  <2> QED BY <2>3, LessOnward
<1> QED
  BY <1>1, <1>2, RowsWritten, OwnRowOnward, SameRowOnward

LEMMA CountersWritten ==
  ASSUME [Next]_vars
  PROVE  counter' = counter \/ \E w \in Workers : TouchWebauthnCredential(w) \/ AddWebauthnCredential(w)
<1>1. ASSUME NEW w \in Workers, Signing(w)
      PROVE  counter' = counter
  BY <1>1 DEF Signing, Login, Login2FA, AuthenticateUser, GetTotpSecret, SignPending2FA,
              SecurityPolicy, CreateSession, VerifySecondFactor
<1>2. ASSUME NEW w \in Workers, Passkeys(w)
      PROVE  counter' = counter \/ TouchWebauthnCredential(w) \/ AddWebauthnCredential(w)
  BY <1>2 DEF Passkeys, PasskeyLoginFinish, PasskeyRegisterFinish, DeletePasskey,
              PasskeyLoginBegin, PasskeyRegisterBegin
<1>3. ASSUME NEW w \in Workers, OwnAccount(w)
      PROVE  counter' = counter
  BY <1>3 DEF OwnAccount, SensitiveRequest, EndSessions, StepUp, LockFactors, CheckFactorRemoval,
              ChangePassword, ReplaceRecoveryCodes, RemoveFactor, SetTotp, EnableTwoFactor
<1>4. ASSUME NEW w \in Workers, Administration(w)
      PROVE  counter' = counter
  BY <1>4 DEF Administration, AdminRequest, UpdateSecurityPolicy, TakeAdminLock, CountAdmins,
              EnsureAdmin, CreateAccount, ApplyRole, Reset
<1>5. CASE \E w \in Workers : Signing(w) \/ Passkeys(w) \/ OwnAccount(w) \/ Administration(w)
  BY <1>5, <1>1, <1>2, <1>3, <1>4
<1>6. CASE PurgeExpiredSessions \/ WindowElapses \/ ClockTicks \/ UNCHANGED vars
  BY <1>6 DEF PurgeExpiredSessions, WindowElapses, ClockTicks, vars
<1> QED
  BY <1>5, <1>6 DEF Next

\* A passkey that is registered stays counted, and its counter never falls.
LEMMA CountersForward ==
  ASSUME TypeInv, [Next]_vars, NEW k \in Keys, counter[k] \in Nat
  PROVE  counter'[k] \in Nat /\ counter[k] <= counter'[k]
<1>0. /\ counter \in [Keys -> Nat \cup {None}] /\ None \notin Nat
      /\ \A w \in Workers : at[w] \in Request /\ Placed(at[w])
  BY NobodyDistinct DEF TypeInv, TypeOK, AllPlaced
<1>1. ASSUME NEW w \in Workers, TouchWebauthnCredential(w)
      PROVE  counter'[k] \in Nat /\ counter[k] <= counter'[k]
  <2>1. at[w].by.n \in Nat
    BY <1>0 DEF Request, Shown
  <2>2. counter' = counter \/ (/\ counter' = [counter EXCEPT ![at[w].key] = at[w].by.n]
                               /\ Advances(at[w].key, at[w].by.n))
    BY <1>1 DEF TouchWebauthnCredential
  <2>3. CASE k = at[w].key /\ Advances(at[w].key, at[w].by.n)
    BY <1>0, <2>1, <2>2, <2>3 DEF Advances
  <2>4. CASE ~(k = at[w].key /\ Advances(at[w].key, at[w].by.n))
    BY <1>0, <2>2, <2>4
  <2> QED BY <2>3, <2>4
<1>2. ASSUME NEW w \in Workers, AddWebauthnCredential(w)
      PROVE  counter'[k] = counter[k]
  <2>1. counter' = counter \/ (/\ counter' = [counter EXCEPT ![at[w].key] = 0]
                               /\ counter[at[w].key] = None)
    BY <1>2 DEF AddWebauthnCredential
  <2> QED BY <1>0, <2>1
<1> QED
  BY <1>0, <1>1, <1>2, CountersWritten

LEMMA CodesStayApart ==
  ASSUME ProofInv, [Next]_vars
  PROVE  CodesApart'
<1> SUFFICES ASSUME NEW u \in Accounts, NEW c \in acct'[u].codes
             PROVE  c <= served' + 1 /\ \A w \in Workers : at'[w].n # 0 => c # at'[w].n + 1
  BY DEF CodesApart
<1>0. /\ TypeInv /\ served \in Nat /\ served' \in {served, served + 1}
      /\ \A w \in Workers : at[w].n \in Nat /\ at[w].n <= served
      /\ \A w, x \in Workers : at[w].n = at[x].n /\ at[w].n # 0 => w = x
  BY ServedGrows DEF ProofInv, TypeInv, TypeOK, AllPlaced, Request, NumbersApart
<1>1. \A w \in Workers :
        at'[w].n \in {0, at[w].n} \/ (at'[w].n = served' /\ served' = served + 1)
  BY <1>0, NumbersMove
<1>2. CASE c \in acct[u].codes
  <2>1. c \in Nat
    BY <1>0, <1>2 DEF TypeInv, TypeOK, Row
  <2>2. c <= served + 1 /\ \A w \in Workers : at[w].n # 0 => c # at[w].n + 1
    BY <1>2 DEF ProofInv, CodesApart
  <2> QED BY <1>0, <1>1, <2>1, <2>2
<1>3. ASSUME NEW x \in Workers, at[x].n # 0, at'[x].n = 0, c = at[x].n + 1
      PROVE  c <= served' + 1 /\ \A w \in Workers : at'[w].n # 0 => c # at'[w].n + 1
  <2>1. ASSUME NEW w \in Workers, at'[w].n # 0 PROVE c # at'[w].n + 1
    <3>1. w # x
      BY <1>3, <2>1
    <3>2. at[w].n # at[x].n
      BY <1>0, <1>3, <3>1
    <3> QED BY <1>0, <1>1, <1>3, <2>1, <3>2
  <2> QED BY <1>0, <1>3, <2>1
<1> QED
  BY <1>0, <1>2, <1>3, RowsOnward DEF Onward

LEMMA KeysStayCounted ==
  ASSUME ProofInv, [Next]_vars
  PROVE  KeysCounted'
<1> SUFFICES ASSUME NEW u \in Accounts, NEW k \in acct'[u].keys PROVE counter'[k] \in Nat
  BY DEF KeysCounted
<1>1. TypeInv /\ TypeInv'
  BY TypesKept DEF ProofInv
<1>2. k \in Keys
  BY <1>1 DEF TypeInv, TypeOK, Row
<1>3. CASE k \in acct[u].keys
  BY <1>1, <1>2, <1>3, CountersForward DEF ProofInv, KeysCounted
<1> QED
  BY <1>1, <1>3, RowsOnward DEF Onward

\* What was accepted stays in the past.
LEMMA PastStays ==
  ASSUME ProofInv, [Next]_vars, NEW p \in spent, p \in spent'
  PROVE  Past(p)'
<1>0. /\ TypeInv /\ served \in Nat /\ served' \in {served, served + 1} /\ p \in Shown /\ Past(p)
      /\ \A w \in Workers : at[w].n \in Nat /\ at[w].n <= served
  BY ServedGrows DEF ProofInv, TypeInv, TypeOK, AllPlaced, Request, NumbersApart
<1>1. CASE p.how = "totp"
  <2>1. acct[p.of].last \in Nat /\ p.n \in Nat /\ acct'[p.of].last \in Nat
    BY <1>0, <1>1, RowsTyped DEF Past, TypeInv, TypeOK, Row, Shown
  <2>2. Onward(p.of)
    BY <1>0, <1>1, RowsOnward DEF Past
  <2> QED BY <1>0, <1>1, <2>1, <2>2 DEF Past, Onward, Reopened
<1>2. CASE p.how = "recovery"
  <2>1. Onward(p.of) /\ p.n \in Nat
    BY <1>0, <1>2, RowsOnward DEF Past, Shown
  <2>2. p.n \notin acct'[p.of].codes
    BY <1>0, <1>2, <2>1 DEF Past, Onward
  <2>3. \A w \in Workers :
          at'[w].n \in {0, at[w].n} \/ (at'[w].n = served' /\ served' = served + 1)
    BY <1>0, NumbersMove
  <2>4. \A w \in Workers : at'[w].n # 0 => p.n # at'[w].n + 1
    BY <1>0, <1>2, <2>1, <2>3 DEF Past
  <2> QED BY <1>0, <1>2, <2>1, <2>2, <2>4 DEF Past
<1>3. CASE p.how = "passkey"
  <2>1. counter'[p.of] \in Nat /\ counter[p.of] <= counter'[p.of] /\ p.n \in Nat
    BY <1>0, <1>3, CountersForward DEF Past, Shown
  <2> QED BY <1>0, <1>3, <2>1 DEF Past
<1> QED
  BY <1>1, <1>2, <1>3 DEF Past

Fresh(p) == p \notin spent /\ Past(p)'

\* AcceptTotpStep and ConsumeRecoveryCode: the compare-and-set of the step, the
\* deletion of the code.
LEMMA SecondFactorFresh ==
  ASSUME ProofInv, [Next]_vars, NEW w \in Workers, VerifySecondFactor(w)
  PROVE  UNCHANGED proofs \/ \E p : Accept(p) /\ Fresh(p)
<1> DEFINE u == at[w].user
           n == at[w].input.n
<1>p. PICK p : p = SpentProof(w)
  OBVIOUS
<1>0. /\ TypeInv /\ acct \in [Accounts -> Row] /\ u \in Accounts /\ n \in Nat /\ acct[u] \in Row
      /\ at[w] \in Request
  BY DEF ProofInv, TypeInv, TypeOK, AllPlaced, VerifySecondFactor, Placed, Request, Typed
<1>1. CASE ~(AcceptTotpStep(w) \/ ConsumeRecoveryCode(w))
  BY <1>1 DEF VerifySecondFactor
<1>2. CASE AcceptTotpStep(w)
  <2>1. Accept(p) /\ acct' = Spent(w)
    BY <1>p, <1>2 DEF VerifySecondFactor
  <2>2. at[w].input.how = "totp" /\ acct[u].last < n
    BY <1>2 DEF AcceptTotpStep, ValidateStep
  <2>3. p.how = "totp" /\ p.of = u /\ p.n = n
    BY <1>p, <2>2 DEF SpentProof, Proof
  <2>4. acct'[u] = [acct[u] EXCEPT !.last = n]
    BY <1>0, <2>1, <2>2 DEF Spent
  <2>5. acct'[u].last = n /\ acct[u].last \in Nat
    BY <1>0, <2>4 DEF Row
  <2>6. p \notin spent
    BY <1>0, <2>2, <2>3, <2>5 DEF ProofInv, Past
  <2>7. Past(p)'
    BY <1>0, <2>3, <2>5 DEF Past
  <2> QED BY <2>1, <2>6, <2>7 DEF Fresh
<1>3. CASE ConsumeRecoveryCode(w)
  <2>1. Accept(p) /\ acct' = Spent(w)
    BY <1>p, <1>3 DEF VerifySecondFactor
  <2>2. at[w].input.how = "recovery" /\ n \in acct[u].codes
    BY <1>3 DEF ConsumeRecoveryCode
  <2>3. p.how = "recovery" /\ p.of = u /\ p.n = n
    BY <1>p, <2>2 DEF SpentProof, Proof
  <2>4. acct'[u] = [acct[u] EXCEPT !.codes = acct[u].codes \ {n}]
    BY <1>0, <2>1, <2>2 DEF Spent
  <2>5. n \notin acct'[u].codes
    BY <1>0, <2>4 DEF Row
  <2>6. p \notin spent
    BY <2>2, <2>3 DEF ProofInv, Past
  <2>7. n <= served' + 1 /\ \A x \in Workers : at'[x].n # 0 => n # at'[x].n + 1
    <3>1. /\ n <= served + 1 /\ \A x \in Workers : at[x].n # 0 => n # at[x].n + 1
          /\ served \in Nat /\ served' \in {served, served + 1}
      BY <1>0, <2>2, ServedGrows DEF ProofInv, CodesApart, TypeInv, TypeOK
    <3>2. \A x \in Workers : at'[x].n \in {0, at[x].n} \/ (at'[x].n = served' /\ served' = served + 1)
      BY <1>0, NumbersMove
    <3> QED BY <1>0, <3>1, <3>2
  <2>8. Past(p)'
    BY <1>0, <2>3, <2>5, <2>7 DEF Past
  <2> QED BY <2>1, <2>6, <2>8 DEF Fresh
<1> QED
  BY <1>1, <1>2, <1>3

\* EnableTwoFactor: the code that was typed is the last step from then on.
LEMMA ConfirmationPast ==
  ASSUME ProofInv, [Next]_vars, NEW w \in Workers, EnableTwoFactor(w)
  PROVE  (\A p \in spent' : Past(p)') /\ reused' = {}
<1> DEFINE u == at[w].user
           n == at[w].input.n
<1>1. PICK c : c = Proof("totp", u, at[w].seen.secret, n)
  OBVIOUS
<1>2. CASE UNCHANGED <<acct, spent, reused>>
  BY <1>2, PastStays DEF ProofInv
<1>3. CASE ~UNCHANGED <<acct, spent, reused>>
  <2>1. /\ u \in Accounts /\ n \in Nat /\ acct[u] \in Row
        /\ acct'[u] = [acct[u] EXCEPT !.totp = TRUE, !.secret = at[w].seen.secret, !.last = n,
                                      !.codes = FreshCodes(w)]
        /\ spent' = StillSpent \cup {c} /\ reused' = reused
    BY <1>1, <1>3, Confirmed DEF ProofInv, TypeInv, TypeOK
  <2>2. acct'[u].last = n
    BY <2>1 DEF Row
  <2>3. c.how = "totp" /\ c.of = u /\ c.n = n
    BY <1>1 DEF Proof
  <2>6. PICK m \in Nat : m = n
    BY <2>1
  <2>7. c.of = u /\ c.n = m /\ acct'[u].last = m
    BY <2>2, <2>3, <2>6
  <2>8. acct'[c.of].last = m /\ c.of \in Accounts
    BY <2>1, <2>7
  <2>4. Past(c)'
    <3>1. c.how # "recovery" /\ c.how # "passkey" /\ c.n <= acct'[c.of].last
      BY <2>3, <2>6, <2>7, <2>8
    <3> QED BY <2>8, <3>1 DEF Past
  <2>5. \A p \in StillSpent : p \in spent /\ p \in spent'
    BY <2>1 DEF StillSpent
  <2> QED BY <2>1, <2>4, <2>5, PastStays DEF ProofInv
<1> QED
  BY <1>2, <1>3

\* TouchWebauthnCredential: the stored counter only moves forward.
LEMMA AssertionFresh ==
  ASSUME ProofInv, [Next]_vars, NEW w \in Workers, TouchWebauthnCredential(w)
  PROVE  UNCHANGED proofs \/ \E p : Accept(p) /\ Fresh(p)
<1> DEFINE k == at[w].key
           m == at[w].by.n
<1>p. PICK p : p = Proof("passkey", k, 0, m)
  OBVIOUS
<1>0. TypeInv /\ counter \in [Keys -> Nat \cup {None}] /\ k \in Keys /\ m \in Nat
  BY DEF ProofInv, TypeInv, TypeOK, AllPlaced, TouchWebauthnCredential, Placed, Request, Shown
<1>1. CASE UNCHANGED proofs
  BY <1>1
<1>2. CASE ~UNCHANGED proofs
  <2>1. /\ Accept(p) /\ m > 0 /\ Advances(k, m) /\ counter' = [counter EXCEPT ![k] = m]
        /\ \E u \in Accounts : k \in acct[u].keys
    BY <1>p, <1>2 DEF TouchWebauthnCredential
  <2>2. counter[k] \in Nat /\ counter[k] < m /\ counter'[k] = m
    BY <1>0, <2>1 DEF ProofInv, KeysCounted, Advances
  <2>3. p.how = "passkey" /\ p.of = k /\ p.n = m
    BY <1>p DEF Proof
  <2>4. p \notin spent
    BY <1>0, <2>2, <2>3 DEF ProofInv, Past
  <2>5. Past(p)'
    BY <1>0, <2>2, <2>3 DEF Past
  <2> QED BY <2>1, <2>4, <2>5 DEF Fresh
<1> QED
  BY <1>1, <1>2

LEMMA ProofInvKept ==
  ASSUME ProofInv, [Next]_vars
  PROVE  ProofInv'
<1>1. \/ UNCHANGED proofs \/ StepsReopen
      \/ \E p : Accept(p) /\ Fresh(p)
      \/ (\A p \in spent' : Past(p)') /\ reused' = {}
  BY ProofsWritten, SecondFactorFresh, ConfirmationPast, AssertionFresh
<1>2. (\A p \in spent' : Past(p)') /\ reused' = {}
  <2>1. CASE UNCHANGED proofs
    BY <2>1, PastStays DEF ProofInv
  <2>2. ASSUME NEW p, Accept(p), Fresh(p)
        PROVE  (\A q \in spent' : Past(q)') /\ reused' = {}
    BY <2>2, PastStays DEF ProofInv, Accept, Fresh
  <2>3. CASE StepsReopen
    <3>1. \A p \in spent' : p \in spent
      BY <2>3 DEF StepsReopen, StillSpent
    <3> QED BY <2>3, <3>1, PastStays DEF ProofInv, StepsReopen
  <2> QED BY <1>1, <2>1, <2>2, <2>3
<1> QED
  BY <1>2, TypesKept, NumbersStayApart, CodesStayApart, KeysStayCounted DEF ProofInv

\* No recovery code or signature counter is accepted twice, nor, until the factor is
\* confirmed again or removed, the code of a time step, the confirming one included;
\* however many requests present it at once (AcceptTotpStep, ConsumeRecoveryCode,
\* TouchWebauthnCredential of webauthn.go and totp.go).
THEOREM NothingAcceptedTwice == Spec => []ProofUsedOnce
<1>1. Init => ProofInv
  <2> SUFFICES ASSUME Init PROVE ProofInv
    OBVIOUS
  <2>1. TypeInv /\ \A w \in Workers : at[w].n = 0
    BY InitTyped, IdleRequest DEF Init
  <2>2. PICK chief \in Accounts, keys \in {{}, Keys}, totp \in BOOLEAN,
             other \in {Unborn, Born("editor"), Born("admin")} :
               acct = [u \in Accounts |->
                 IF u = chief
                 THEN [(IF totp THEN Protected(Born("admin")) ELSE Born("admin")) EXCEPT !.keys = keys]
                 ELSE other]
    BY DEF Init
  <2>3. \A u \in Accounts : acct[u].codes \subseteq {1}
    <3> DEFINE root == IF totp THEN Protected(Born("admin")) ELSE Born("admin")
    <3>1. /\ \A role : Born(role).codes = {} /\ Unborn.codes = {}
          /\ [Born("admin") EXCEPT !.keys = keys].codes = {}
          /\ [Protected(Born("admin")) EXCEPT !.keys = keys].codes = {1}
      BY DEF Protected, Born, Unborn
    <3>2. [root EXCEPT !.keys = keys].codes \subseteq {1}
      <4>1. CASE totp
        BY <3>1, <4>1
      <4>2. CASE ~totp
        BY <3>1, <4>2
      <4> QED BY <4>1, <4>2
    <3> QED BY <2>2, <3>1, <3>2
  <2>4. CodesApart
    BY <2>1, <2>3 DEF Init, CodesApart
  <2>5. KeysCounted
    BY <2>1 DEF Init, KeysCounted, TypeInv, TypeOK, Row
  <2> QED BY <2>1, <2>4, <2>5 DEF Init, ProofInv, NumbersApart
<1>2. ProofInv /\ [Next]_vars => ProofInv'
  BY ProofInvKept
<1>3. ProofInv => ProofUsedOnce
  BY DEF ProofInv, ProofUsedOnce
<1> QED
  BY <1>1, <1>2, <1>3, PTL DEF Spec

HIDE DEF rows, tokens, proofs, world

-----------------------------------------------------------------------------
(* Prices: bookings, and the preview of a recalculation.                   *)

EntryFields == {"base", "unit", "tractor", "load", "machines", "labels", "day", "price",
                "claimed", "voided"}
CatalogFields == DOMAIN Blank
RecalcFields == {"pc", "rev", "moved", "old", "new", "labels", "accounts"}

\* What a price is computed from, and the revision that tells of it.
PricingFields == {"loads", "tractors", "machines", "fuel", "increment", "minimum"}
KeptFields == PricingFields \cup {"rev"}

SameOn(fields, r, s) == \A x \in fields : r[x] = s[x]

StoredShaped == \A e \in DOMAIN entries : DOMAIN entries[e] = EntryFields

BaseStands ==
  /\ DOMAIN year = {"base", "status"} /\ year.base \in DOMAIN bases
  /\ \A b \in DOMAIN bases : DOMAIN bases[b] = CatalogFields /\ bases[b].rev \in 0..clock

\* A recalculation that holds the year's lock found the year open.
RecalcShaped ==
  recalc # Null =>
    /\ DOMAIN recalc = RecalcFields /\ recalc.rev \in 0..clock
    /\ recalc.pc = "locked" => Open

PriceInv == clock \in Nat /\ StoredShaped /\ BaseStands /\ RecalcShaped

\* A step on the year's basis gives it a revision no preview has seen, or leaves what its
\* prices are computed from.
Touches == bases'[year.base].rev = clock + 1
Keeps == terms' = terms /\ SameOn(KeptFields, bases'[year.base], bases[year.base])

LEMMA BlankFields ==
  CatalogFields = {"locked", "increment", "minimum", "rev", "loads", "tractors", "machines",
                   "fuel", "rigs"}
BY DEF CatalogFields, Blank

\* An edit of one basis.
Edited(b) ==
  /\ b \in DOMAIN bases /\ DOMAIN bases' = DOMAIN bases
  /\ \A x \in DOMAIN bases : x # b => bases'[x] = bases[x]
  /\ DOMAIN bases'[b] = CatalogFields
  /\ UNCHANGED <<terms, year, requests>>
  /\ \/ clock' = clock + 1 /\ bases'[b].rev = clock + 1
     \/ UNCHANGED <<clock, entries>> /\ SameOn(KeptFields, bases'[b], bases[b])
  /\ DOMAIN entries' = DOMAIN entries
  /\ \A e \in DOMAIN entries :
       /\ entries[e].base # b => entries'[e] = entries[e]
       /\ DOMAIN entries'[e] = EntryFields
       /\ SameOn({"price", "claimed"}, entries'[e], entries[e])

LEMMA TouchedEdits ==
  ASSUME PriceInv, NEW b \in DOMAIN bases, NEW cat, DOMAIN cat = CatalogFields,
         bases' = [bases EXCEPT ![b] = Touched(cat)], clock' = clock + 1,
         UNCHANGED <<terms, year, requests>>,
         DOMAIN entries' = DOMAIN entries,
         \A e \in DOMAIN entries :
           /\ entries[e].base # b => entries'[e] = entries[e]
           /\ DOMAIN entries'[e] = EntryFields
           /\ SameOn({"price", "claimed"}, entries'[e], entries[e])
  PROVE  Edited(b)
<1>1. bases'[b] = Touched(cat) /\ DOMAIN bases' = DOMAIN bases
      /\ \A x \in DOMAIN bases : x # b => bases'[x] = bases[x]
  OBVIOUS
<1>2. DOMAIN Touched(cat) = CatalogFields /\ Touched(cat).rev = clock + 1
  BY BlankFields DEF Touched
<1> QED
  BY <1>1, <1>2 DEF Edited

LEMMA WriteEdits ==
  ASSUME PriceInv, NEW b, NEW cat, DOMAIN cat = CatalogFields, Editing(b), Write(b, cat)
  PROVE  Edited(b)
<1>1. b \in DOMAIN bases /\ clock' = clock + 1
  BY DEF Editing, Tick
<1>2. \A e \in DOMAIN entries :
           /\ entries[e].base # b => entries'[e] = entries[e]
           /\ DOMAIN entries'[e] = EntryFields
           /\ SameOn({"price", "claimed"}, entries'[e], entries[e])
  BY DEF Write, SameOn, PriceInv, StoredShaped
<1> QED
  BY <1>1, <1>2, TouchedEdits DEF Editing, Write

\* Rigs and locks price nothing.
LEMMA AsideEdits ==
  ASSUME PriceInv, NEW b \in DOMAIN bases, NEW cat, DOMAIN cat = CatalogFields,
         SameOn(KeptFields, cat, bases[b]), bases' = [bases EXCEPT ![b] = cat],
         UNCHANGED <<terms, year, entries, clock, requests>>
  PROVE  Edited(b)
<1>1. bases'[b] = cat /\ DOMAIN bases' = DOMAIN bases
      /\ \A x \in DOMAIN bases : x # b => bases'[x] = bases[x]
  OBVIOUS
<1> QED
  BY <1>1 DEF Edited, SameOn, PriceInv, StoredShaped

LEMMA ItemEdits ==
  ASSUME PriceInv, NEW b,
         \/ \E l, c : SaveLoadLevel(b, l, c)
         \/ \E t : ToggleTractor(b, t) \/ \E c : SaveTractor(b, t, c)
         \/ \E m : \/ DeleteMachine(b, m) \/ ToggleMachine(b, m)
                   \/ \E c : SaveMachine(b, m, 1, c, 0)
                   \/ \E apply : UpdateMachineCostModel(b, m, 1, apply)
         \/ \E d : DeleteFuelAdjustment(b, d) \/ \E c : SaveFuelAdjustment(b, d, c)
  PROVE  Edited(b)
<1>0. b \in DOMAIN bases => DOMAIN bases[b] = CatalogFields
  BY DEF PriceInv, BaseStands
<1>1. ASSUME NEW l, NEW c, SaveLoadLevel(b, l, c) PROVE Edited(b)
  BY <1>0, <1>1, WriteEdits DEF SaveLoadLevel, Editing
<1>2. ASSUME NEW t, ToggleTractor(b, t) PROVE Edited(b)
  BY <1>0, <1>2, WriteEdits DEF ToggleTractor, Editing
<1>3. ASSUME NEW t, NEW c, SaveTractor(b, t, c) PROVE Edited(b)
  BY <1>0, <1>3, WriteEdits DEF SaveTractor, Editing
<1>4. ASSUME NEW m, DeleteMachine(b, m) PROVE Edited(b)
  BY <1>0, <1>4, WriteEdits DEF DeleteMachine, Editing
<1>5. ASSUME NEW m, ToggleMachine(b, m) PROVE Edited(b)
  BY <1>0, <1>5, WriteEdits DEF ToggleMachine, Editing
<1>6. ASSUME NEW m, NEW c, SaveMachine(b, m, 1, c, 0) PROVE Edited(b)
  BY <1>0, <1>6, WriteEdits DEF SaveMachine, Editing
<1>7. ASSUME NEW m, NEW apply, UpdateMachineCostModel(b, m, 1, apply) PROVE Edited(b)
  BY <1>0, <1>7, WriteEdits DEF UpdateMachineCostModel, Editing
<1>8. ASSUME NEW d, DeleteFuelAdjustment(b, d) PROVE Edited(b)
  BY <1>0, <1>8, WriteEdits DEF DeleteFuelAdjustment, Editing
<1>9. ASSUME NEW d, NEW c, SaveFuelAdjustment(b, d, c) PROVE Edited(b)
  BY <1>0, <1>9, WriteEdits DEF SaveFuelAdjustment, Editing
<1> QED
  BY <1>1, <1>2, <1>3, <1>4, <1>5, <1>6, <1>7, <1>8, <1>9

LEMMA DeleteEdits ==
  ASSUME PriceInv, NEW b, (\E t : DeleteTractor(b, t)) \/ \E l : DeleteLoadLevel(b, l)
  PROVE  Edited(b)
<1>0. b \in DOMAIN bases /\ DOMAIN bases[b] = CatalogFields /\ clock' = clock + 1
      /\ UNCHANGED <<terms, year, requests>>
  BY DEF PriceInv, BaseStands, DeleteTractor, DeleteLoadLevel, Editing, Tick
<1>1. ASSUME NEW t, DeleteTractor(b, t) PROVE Edited(b)
  <2> DEFINE cat == [bases[b] EXCEPT !.tractors = Drop(@, t), !.rigs = Nulled(@, "tractor", t)]
  <2>1. bases' = [bases EXCEPT ![b] = Touched(cat)] /\ DOMAIN cat = CatalogFields
    BY <1>0, <1>1 DEF DeleteTractor
  <2>2. /\ DOMAIN entries' = DOMAIN entries
        /\ \A e \in DOMAIN entries :
             /\ entries[e].base # b => entries'[e] = entries[e]
             /\ DOMAIN entries'[e] = EntryFields
             /\ SameOn({"price", "claimed"}, entries'[e], entries[e])
    BY <1>1 DEF DeleteTractor, PriceInv, StoredShaped, EntryFields, SameOn
  <2> QED
    BY ONLY PriceInv, <1>0, <2>1, <2>2, TouchedEdits
<1>2. ASSUME NEW l, DeleteLoadLevel(b, l) PROVE Edited(b)
  <2> DEFINE cat == [bases[b] EXCEPT !.loads = Drop(@, l), !.rigs = Nulled(@, "load", l)]
  <2>1. bases' = [bases EXCEPT ![b] = Touched(cat)] /\ DOMAIN cat = CatalogFields
    BY <1>0, <1>2 DEF DeleteLoadLevel
  <2>2. /\ DOMAIN entries' = DOMAIN entries
        /\ \A e \in DOMAIN entries :
             /\ entries[e].base # b => entries'[e] = entries[e]
             /\ DOMAIN entries'[e] = EntryFields
             /\ SameOn({"price", "claimed"}, entries'[e], entries[e])
    BY <1>2 DEF DeleteLoadLevel, PriceInv, StoredShaped, EntryFields, SameOn
  <2> QED
    BY ONLY PriceInv, <1>0, <2>1, <2>2, TouchedEdits
<1> QED
  BY <1>1, <1>2

LEMMA CatalogEdits ==
  ASSUME PriceInv, NEW b, CatalogStep(b)
  PROVE  Edited(b)
<1>0. b \in DOMAIN bases => DOMAIN bases[b] = CatalogFields
  BY DEF PriceInv, BaseStands
<1>1. ASSUME SetBaseLocked(b) PROVE Edited(b)
  <2> DEFINE cat == [bases[b] EXCEPT !.locked = ~@]
  <2>1. b \in DOMAIN bases /\ bases' = [bases EXCEPT ![b] = cat]
    BY <1>1 DEF SetBaseLocked
  <2>2. DOMAIN cat = CatalogFields /\ SameOn(KeptFields, cat, bases[b])
    BY <1>0, <2>1, BlankFields DEF SameOn, KeptFields, PricingFields
  <2> QED BY ONLY PriceInv, <1>1, <2>1, <2>2, AsideEdits DEF SetBaseLocked
<1>2. ASSUME NEW g, NEW sel, SaveGespann(b, g, sel) PROVE Edited(b)
  <2> DEFINE cat == [bases[b] EXCEPT !.rigs = Extend(@, g, sel)]
  <2>1. b \in DOMAIN bases /\ bases' = [bases EXCEPT ![b] = cat]
    BY <1>2 DEF SaveGespann
  <2>2. DOMAIN cat = CatalogFields /\ SameOn(KeptFields, cat, bases[b])
    BY <1>0, <2>1, BlankFields DEF SameOn, KeptFields, PricingFields
  <2> QED BY ONLY PriceInv, <1>2, <2>1, <2>2, AsideEdits DEF SaveGespann
<1>3. ASSUME NEW g, DeleteGespann(b, g) PROVE Edited(b)
  <2> DEFINE cat == [bases[b] EXCEPT !.rigs = Drop(@, g)]
  <2>1. b \in DOMAIN bases /\ bases' = [bases EXCEPT ![b] = cat]
    BY <1>3 DEF DeleteGespann
  <2>2. DOMAIN cat = CatalogFields /\ SameOn(KeptFields, cat, bases[b])
    BY <1>0, <2>1, BlankFields DEF SameOn, KeptFields, PricingFields
  <2> QED BY ONLY PriceInv, <1>3, <2>1, <2>2, AsideEdits DEF DeleteGespann
<1>4. ASSUME NEW rule, UpdateBaseBillingRule(b, rule) PROVE Edited(b)
  <2> DEFINE cat == [bases[b] EXCEPT !.increment = rule[1], !.minimum = rule[2]]
  <2>1. /\ b \in DOMAIN bases /\ clock' = clock + 1 /\ UNCHANGED <<terms, year, entries, requests>>
        /\ bases' = [bases EXCEPT ![b] = Touched(cat)] /\ DOMAIN cat = CatalogFields
    BY <1>0, <1>4 DEF UpdateBaseBillingRule, Tick
  <2>2. \A e \in DOMAIN entries :
             /\ entries[e].base # b => entries'[e] = entries[e]
             /\ DOMAIN entries'[e] = EntryFields
             /\ SameOn({"price", "claimed"}, entries'[e], entries[e])
    BY <2>1 DEF PriceInv, StoredShaped, SameOn
  <2> QED BY ONLY PriceInv, <2>1, <2>2, TouchedEdits
<1> QED
  BY <1>1, <1>2, <1>3, <1>4, ItemEdits, DeleteEdits DEF CatalogStep

\* An edit leaves the invariant, and is noticed where it could change a price.
LEMMA EditKeeps ==
  ASSUME PriceInv, NEW b, Edited(b), recalc' = recalc
  PROVE  PriceInv' /\ \A e \in DOMAIN entries : entries'[e].price = entries[e].price
<1>1. clock' \in Nat /\ clock' >= clock
  BY DEF PriceInv, Edited
<1>2. StoredShaped'
  BY <1>1 DEF PriceInv, StoredShaped, Edited, SameOn
<1>3. BaseStands'
  <2>1. ASSUME NEW x \in DOMAIN bases
        PROVE  DOMAIN bases'[x] = CatalogFields /\ bases'[x].rev \in 0..clock'
    <3>0. clock' = clock \/ clock' = clock + 1
      BY DEF Edited
    <3>1. clock \in Nat /\ bases[x].rev \in 0..clock /\ DOMAIN bases[x] = CatalogFields
      BY DEF PriceInv, BaseStands
    <3>2. bases'[x].rev = bases[x].rev \/ (bases'[x].rev = clock + 1 /\ clock' = clock + 1)
      BY DEF Edited, SameOn, KeptFields
    <3>3. DOMAIN bases'[x] = CatalogFields
      BY <3>1 DEF Edited
    <3> QED BY <3>0, <3>1, <3>2, <3>3
  <2>2. DOMAIN bases' = DOMAIN bases /\ year' = year
    BY DEF Edited
  <2> QED BY <2>1, <2>2 DEF PriceInv, BaseStands, CatalogFields, Blank
<1>4. RecalcShaped'
  BY <1>1 DEF PriceInv, RecalcShaped, Edited, Open
<1> QED
  BY <1>1, <1>2, <1>3, <1>4 DEF PriceInv, Edited, SameOn

LEMMA EditNoticed ==
  ASSUME PriceInv, NEW b, Edited(b)
  PROVE  Touches \/ Keeps
<1>1. year.base \in DOMAIN bases
  BY DEF PriceInv, BaseStands
<1>2. CASE b # year.base
  BY <1>1, <1>2 DEF Edited, Keeps, SameOn
<1>3. CASE b = year.base /\ clock' = clock + 1 /\ bases'[b].rev = clock + 1
  BY <1>3 DEF Edited, Touches, SameOn
<1>4. CASE b = year.base /\ UNCHANGED <<clock, entries>>
           /\ SameOn(KeptFields, bases'[b], bases[b])
  BY <1>4 DEF Edited, Keeps, SameOn
<1> QED
  BY <1>2, <1>3, <1>4 DEF Edited

-----------------------------------------------------------------------------
(* The other steps.                                                        *)

\* Steps on bases no year uses, and on what the operator has in the browser.
LEMMA OtherBases ==
  ASSUME PriceInv, UNCHANGED <<terms, year, entries, recalc>>,
         clock' \in Nat, clock' >= clock,
         year.base \in DOMAIN bases', bases'[year.base] = bases[year.base],
         \A b \in DOMAIN bases' : DOMAIN bases'[b] = CatalogFields /\ bases'[b].rev \in 0..clock'
  PROVE  PriceInv' /\ Keeps
<1>1. StoredShaped' /\ RecalcShaped'
  BY DEF PriceInv, StoredShaped, RecalcShaped, Open
<1>2. BaseStands'
  BY DEF PriceInv, BaseStands, CatalogFields, Blank
<1> QED
  BY <1>1, <1>2 DEF PriceInv, Keeps, SameOn

LEMMA BaseCreates ==
  ASSUME PriceInv, NEW b, NEW cat, DOMAIN cat = CatalogFields, Create(b, cat)
  PROVE  PriceInv' /\ Keeps /\ entries' = entries
<1> DEFINE made == Touched([cat EXCEPT !.locked = FALSE])
<1>1. DOMAIN made = CatalogFields /\ made.rev = clock + 1
  BY BlankFields DEF Touched
<1>2. /\ bases' = Extend(bases, b, made) /\ b \notin DOMAIN bases
      /\ UNCHANGED <<terms, year, entries, recalc>> /\ clock' = clock + 1
  BY DEF Create, Tick
<1> HIDE DEF made
<1>3. DOMAIN bases' = DOMAIN bases \cup {b}
      /\ \A x \in DOMAIN bases' : bases'[x] = IF x = b THEN made ELSE bases[x]
  BY <1>2 DEF Extend
<1>4. year.base \in DOMAIN bases' /\ bases'[year.base] = bases[year.base]
  BY <1>2, <1>3 DEF PriceInv, BaseStands
<1>5. \A x \in DOMAIN bases' : DOMAIN bases'[x] = CatalogFields /\ bases'[x].rev \in 0..clock'
  <2>1. clock \in Nat /\ \A x \in DOMAIN bases : bases[x].rev \in 0..clock
    BY DEF PriceInv, BaseStands
  <2> QED BY <1>1, <1>2, <1>3, <2>1 DEF PriceInv, BaseStands
<1>6. clock' \in Nat /\ clock' >= clock
  BY <1>2 DEF PriceInv
<1> QED
  BY <1>2, <1>4, <1>5, <1>6, OtherBases

LEMMA BaseSteps ==
  ASSUME PriceInv, NEW b, BaseStep(b)
  PROVE  PriceInv' /\ Keeps /\ entries' = entries
<1>1. CASE CreateEmptyBase(b)
  BY <1>1, BaseCreates DEF CreateEmptyBase, CatalogFields
<1>2. CASE DeleteBase(b)
  <2>1. DOMAIN bases' = DOMAIN bases \ {b} /\ \A x \in DOMAIN bases' : bases'[x] = bases[x]
    BY <1>2 DEF DeleteBase, Drop, Restrict
  <2> QED
    BY <1>2, <2>1, OtherBases DEF DeleteBase, PriceInv, BaseStands, requests
<1>3. CASE CreateBaseFromRateList(b)
  <2> DEFINE src == bases[list.source]
             made == [src EXCEPT !.loads = list.loads, !.tractors = list.tractors,
                        !.machines = [m \in DOMAIN list.machines |->
                          [list.machines[m] EXCEPT !.self = SelfCost(src, m)]],
                        !.fuel = Nothing, !.rigs = CopyMatchingGespanne(src)]
  <2>1. Create(b, made) /\ DOMAIN src = CatalogFields
    BY <1>3 DEF CreateBaseFromRateList, PriceInv, BaseStands
  <2>2. DOMAIN made = CatalogFields
    BY <2>1
  <2> QED
    BY ONLY PriceInv, <2>1, <2>2, BaseCreates
<1>4. ASSUME NEW src, NEW start, CloneBase(src, b, start)
      PROVE  PriceInv' /\ Keeps /\ entries' = entries
  BY <1>4, BaseCreates DEF CloneBase, PriceInv, BaseStands
<1>5. CASE (\E load, machine : BaseUpliftPreview(b, load, machine))
           \/ (\E dropped, blank : BaseImportPreview(b, dropped, blank)) \/ AdmitSwitch(b)
  <2>1. UNCHANGED <<bases, terms, year, entries, clock, recalc>>
    BY <1>5 DEF BaseUpliftPreview, BaseImportPreview, AdmitSwitch
  <2> QED
    BY <2>1, OtherBases DEF PriceInv, BaseStands
<1> QED
  BY <1>1, <1>2, <1>3, <1>4, <1>5 DEF BaseStep

LEMMA TermSteps ==
  ASSUME PriceInv, TermStep
  PROVE  PriceInv' /\ Touches /\ entries' = entries
<1>1. /\ clock' = clock + 1 /\ TouchNeighborBases /\ UNCHANGED <<year, entries, recalc>>
  BY DEF TermStep, CreatePriceTerm, DeletePriceTerm, Tick, requests
<1>2. /\ DOMAIN bases' = DOMAIN bases
      /\ \A b \in DOMAIN bases : b # year.base => bases'[b] = bases[b]
      /\ bases'[year.base] = Touched(bases[year.base])
  BY <1>1 DEF TouchNeighborBases, PriceInv, BaseStands
<1>3. DOMAIN bases'[year.base] = CatalogFields /\ bases'[year.base].rev = clock + 1
  BY <1>2, BlankFields DEF Touched, PriceInv, BaseStands
<1>4. BaseStands'
  <2>1. clock \in Nat /\ \A x \in DOMAIN bases : bases[x].rev \in 0..clock
    BY DEF PriceInv, BaseStands
  <2>2. \A x \in DOMAIN bases' :
          DOMAIN bases'[x] = CatalogFields /\ bases'[x].rev \in 0..clock'
    BY <1>1, <1>2, <1>3, <2>1 DEF PriceInv, BaseStands
  <2> QED BY <1>1, <1>2, <2>2 DEF PriceInv, BaseStands, CatalogFields, Blank
<1>5. StoredShaped' /\ RecalcShaped' /\ clock' \in Nat
  BY <1>1 DEF PriceInv, StoredShaped, RecalcShaped, Open
<1> QED
  BY <1>1, <1>3, <1>4, <1>5 DEF PriceInv, Touches

\* What a booking step may do to the stored bookings.
BooksOnly == UNCHANGED <<bases, terms, clock>> /\ StoredShaped'

LEMMA BooksOnlyKeeps ==
  ASSUME PriceInv, BooksOnly, year' = year, RecalcShaped'
  PROVE  PriceInv' /\ Keeps
BY DEF PriceInv, BooksOnly, Keeps, SameOn, BaseStands, CatalogFields, Blank

PriceStands ==
  \A e \in DOMAIN entries : entries[e].claimed \/ ~Open => entries'[e].price = entries[e].price

LEMMA StoredFields ==
  ASSUME NEW d, NEW c, NEW v
  PROVE  /\ DOMAIN Stored(d, c, v) = EntryFields
         /\ DOMAIN [Stored(d, c, v) EXCEPT !.unit = "ha"] = EntryFields
BY DEF Stored, EntryFields

\* A new booking joins the stored ones.
LEMMA JoinBooks ==
  ASSUME PriceInv, NEW e, e \notin DOMAIN entries, NEW row, DOMAIN row = EntryFields,
         entries' = Extend(entries, e, row), UNCHANGED <<bases, terms, clock>>
  PROVE  BooksOnly /\ PriceStands
<1>1. DOMAIN entries' = DOMAIN entries \cup {e}
      /\ \A x \in DOMAIN entries' : entries'[x] = IF x = e THEN row ELSE entries[x]
  BY DEF Extend
<1> QED
  BY <1>1 DEF BooksOnly, PriceStands, PriceInv, StoredShaped

LEMMA BookingWrites ==
  ASSUME PriceInv,
         \/ InsertEntry \/ UpdateEntry
         \/ \E e : (\E rate : BookQuantity(e, rate)) \/ SetEntryVoided(e) \/ ClaimEntry(e)
  PROVE  BooksOnly /\ PriceStands /\ UNCHANGED <<year, recalc>>
<1>1. CASE InsertEntry
  <2> DEFINE row == Stored(draft, FALSE, FALSE)
  <2>1. DOMAIN row = EntryFields
    BY DEF Stored, EntryFields
  <2> QED
    BY <1>1, <2>1, JoinBooks DEF InsertEntry, Booked
<1>2. CASE UpdateEntry
  <2> DEFINE e == draft.entry
             row == Stored(draft, entries[e].claimed, entries[e].voided)
  <2>1. /\ DOMAIN entries' = DOMAIN entries /\ UNCHANGED <<bases, terms, clock, year, recalc>>
        /\ \A x \in DOMAIN entries : entries'[x] = IF x = e THEN row ELSE entries[x]
        /\ Open /\ ~entries[e].claimed
    BY <1>2 DEF UpdateEntry, LockUninvoicedEntry
  <2>2. DOMAIN row = EntryFields
    BY StoredFields
  <2> QED
    BY <2>1, <2>2 DEF BooksOnly, PriceStands, PriceInv, StoredShaped
<1>3. ASSUME NEW e, NEW rate, BookQuantity(e, rate)
      PROVE  BooksOnly /\ PriceStands /\ UNCHANGED <<year, recalc>>
  <2> DEFINE d == [base |-> year.base, day |-> Min(Worked),
                sel |-> [tractor |-> Null, load |-> Null, machines |-> {}],
                price |-> [rate |-> rate, hours |-> 1, cost |-> rate, fuel |-> 0, pct |-> 0]]
             row == [Stored(d, FALSE, FALSE) EXCEPT !.unit = "ha"]
  <2>1. entries' = Extend(entries, e, row) /\ e \notin DOMAIN entries
        /\ UNCHANGED <<bases, terms, clock, year, recalc>>
    BY <1>3 DEF BookQuantity, Booked, requests
  <2>2. DOMAIN row = EntryFields
    BY ZenonT(50), StoredFields
  <2> QED
    BY ONLY PriceInv, <2>1, <2>2, JoinBooks
<1>4. ASSUME NEW e, SetEntryVoided(e) \/ ClaimEntry(e)
      PROVE  BooksOnly /\ PriceStands /\ UNCHANGED <<year, recalc>>
  BY <1>4 DEF SetEntryVoided, ClaimEntry, BooksOnly, PriceStands, PriceInv, StoredShaped,
              EntryFields, requests
<1> QED
  BY <1>1, <1>2, <1>3, <1>4

\* How a recalculation under way lives through a step.
Followed ==
  \/ recalc' = recalc /\ year'.base = year.base /\ (Touches \/ Keeps)
  \/ recalc' = Null
  \/ recalc # Null /\ recalc'.moved /\ recalc'.pc = recalc.pc
  \/ RecalcStep

LEMMA BookingSteps ==
  ASSUME PriceInv, BookingStep
  PROVE  PriceInv' /\ Followed /\ PriceStands
<1>1. CASE \/ InsertEntry \/ UpdateEntry
           \/ \E e : (\E rate : BookQuantity(e, rate)) \/ SetEntryVoided(e) \/ ClaimEntry(e)
  <2>1. BooksOnly /\ PriceStands /\ UNCHANGED <<year, recalc>>
    BY <1>1, BookingWrites
  <2>2. RecalcShaped'
    BY <2>1 DEF BooksOnly, PriceInv, RecalcShaped, Open
  <2> QED
    BY <2>1, <2>2, BooksOnlyKeeps DEF Followed
<1>2. CASE DropBooking \/ \E e, sel, on, hours : PriceBooking(e, sel, on, hours)
  <2>1. UNCHANGED <<bases, terms, year, entries, clock, recalc>>
    BY <1>2 DEF DropBooking, PriceBooking
  <2>2. BooksOnly /\ PriceStands /\ RecalcShaped'
    BY <2>1 DEF BooksOnly, PriceStands, PriceInv, StoredShaped, RecalcShaped, Open
  <2> QED
    BY <2>1, <2>2, BooksOnlyKeeps DEF Followed
<1>3. CASE \E status : SetYearStatus(status)
  <2>1. /\ UNCHANGED <<bases, terms, entries, clock, recalc>> /\ ~YearLocked
        /\ DOMAIN year' = {"base", "status"} /\ year'.base = year.base
    BY <1>3 DEF SetYearStatus, PriceInv, BaseStands, requests
  <2>2. PriceInv' /\ PriceStands
    BY <2>1 DEF PriceInv, StoredShaped, BaseStands, RecalcShaped, YearLocked, CatalogFields,
                Blank, PriceStands
  <2>3. Keeps
    BY <2>1 DEF Keeps, SameOn
  <2> QED
    BY <2>1, <2>2, <2>3 DEF Followed
<1>4. CASE UpdateBillingYear
  <2>1. /\ UNCHANGED <<bases, terms, entries, clock>> /\ ~YearLocked
        /\ DOMAIN year' = {"base", "status"} /\ year'.base \in DOMAIN bases
        /\ recalc' = IF recalc = Null THEN Null ELSE [recalc EXCEPT !.moved = TRUE]
    BY <1>4 DEF UpdateBillingYear, PriceInv, BaseStands
  <2>2. recalc # Null => /\ DOMAIN recalc' = RecalcFields /\ recalc'.rev = recalc.rev
                         /\ recalc'.pc = recalc.pc /\ recalc'.moved
    BY <2>1 DEF PriceInv, RecalcShaped, RecalcFields
  <2>3. RecalcShaped'
    BY <2>1, <2>2 DEF PriceInv, RecalcShaped, YearLocked
  <2>4. PriceInv' /\ PriceStands
    BY <2>1, <2>3 DEF PriceInv, StoredShaped, BaseStands, CatalogFields, Blank, PriceStands
  <2> QED
    BY <2>1, <2>2, <2>4 DEF Followed
<1> QED
  BY <1>1, <1>2, <1>3, <1>4 DEF BookingStep

LEMMA RecalcSteps ==
  ASSUME PriceInv, RecalcStep
  PROVE  PriceInv' /\ Keeps /\ PriceStands /\ year' = year
<1>1. CASE RecalcRefused \/ RecalcConflict \/ RecalcLock \/ RecalcBegin
           \/ \E scope : RecalcPreview(scope)
  <2>1. UNCHANGED <<bases, terms, year, entries, clock>>
    BY <1>1 DEF RecalcRefused, RecalcConflict, RecalcLock, RecalcBegin, RecalcPreview
  <2>2. RecalcShaped'
    <3>1. CASE RecalcRefused \/ RecalcConflict
      BY <3>1 DEF RecalcRefused, RecalcConflict, RecalcShaped
    <3>2. CASE RecalcLock
      <4>1. recalc' = [recalc EXCEPT !.pc = "locked"] /\ Open /\ recalc # Null
        BY <3>2 DEF RecalcLock
      <4>2. DOMAIN recalc' = RecalcFields /\ recalc'.rev = recalc.rev
        BY <4>1 DEF PriceInv, RecalcShaped, RecalcFields
      <4> QED
        BY <2>1, <4>1, <4>2 DEF RecalcShaped, PriceInv, Open
    <3>3. CASE RecalcBegin
      <4>1. DOMAIN recalc' = RecalcFields /\ recalc'.rev = Catalog.rev /\ recalc'.pc = "noted"
        BY <3>3 DEF RecalcBegin, RecalcFields
      <4>2. Catalog.rev \in 0..clock
        BY DEF Catalog, PriceInv, BaseStands
      <4> QED
        BY <2>1, <4>1, <4>2 DEF RecalcShaped
    <3>4. ASSUME NEW scope, RecalcPreview(scope) PROVE RecalcShaped'
      <4>1. recalc # Null /\ DOMAIN recalc' = RecalcFields /\ recalc'.rev = recalc.rev
            /\ recalc'.pc = "previewed"
        BY <3>4 DEF RecalcPreview, PriceInv, RecalcShaped, RecalcFields
      <4> QED
        BY <2>1, <4>1 DEF RecalcShaped, PriceInv
    <3> QED
      BY <1>1, <3>1, <3>2, <3>3, <3>4
  <2>3. BooksOnly /\ PriceStands
    BY <2>1 DEF BooksOnly, PriceStands, PriceInv, StoredShaped
  <2> QED
    BY <2>1, <2>2, <2>3, BooksOnlyKeeps
<1>2. CASE RecalcWrite
  <2>1. /\ UNCHANGED <<bases, terms, year, clock>> /\ recalc' = Null /\ Open /\ Applicable
    BY <1>2 DEF RecalcWrite, PriceInv, RecalcShaped
  <2>2. /\ DOMAIN entries' = DOMAIN entries
        /\ \A e \in DOMAIN entries :
             \/ entries'[e] = entries[e]
             \/ e \in Rows /\ entries'[e] = [entries[e] EXCEPT !.price = recalc.new[e],
                                                           !.labels = recalc.labels[e]]
    BY <1>2 DEF RecalcWrite
  <2>3. BooksOnly
    BY <2>1, <2>2 DEF BooksOnly, PriceInv, StoredShaped
  <2>4. PriceStands
    BY <2>1, <2>2 DEF PriceStands, Applicable, LockUninvoicedEntry
  <2>5. RecalcShaped'
    BY <2>1 DEF RecalcShaped
  <2> QED
    BY <2>1, <2>3, <2>4, <2>5, BooksOnlyKeeps
<1> QED
  BY <1>1, <1>2 DEF RecalcStep

-----------------------------------------------------------------------------
(* Theorems about prices.                                                  *)

LEMMA PricesStart ==
  ASSUME PricesInit
  PROVE  PriceInv
<1>1. DOMAIN year = {"base", "status"} /\ year.base \in DOMAIN bases
  BY DEF PricesInit
<1> QED
  BY <1>1, OpeningShaped DEF PricesInit, PriceInv, StoredShaped, BaseStands, RecalcShaped,
                             CatalogFields, Nothing

LEMMA PriceSteps ==
  ASSUME PriceInv, [PricesNext]_priceVars
  PROVE  PriceInv' /\ Followed /\ PriceStands
<1>1. ASSUME NEW b, CatalogStep(b) PROVE PriceInv' /\ Followed /\ PriceStands
  <2>1. Edited(b)
    BY <1>1, CatalogEdits
  <2>2. recalc' = recalc /\ year' = year
    BY <2>1 DEF Edited, requests
  <2> QED
    BY <2>1, <2>2, EditKeeps, EditNoticed DEF PriceStands, Followed
<1>2. ASSUME NEW b, BaseStep(b) PROVE PriceInv' /\ Followed /\ PriceStands
  <2>1. recalc' = recalc /\ year' = year
    BY <1>2 DEF BaseStep, CreateEmptyBase, DeleteBase, CreateBaseFromRateList, CloneBase, Create,
                BaseUpliftPreview, BaseImportPreview, AdmitSwitch, requests
  <2> QED
    BY <1>2, <2>1, BaseSteps DEF PriceStands, Followed
<1>3. CASE TermStep
  <2>1. recalc' = recalc /\ year' = year
    BY <1>3 DEF TermStep, CreatePriceTerm, DeletePriceTerm, requests
  <2> QED
    BY <1>3, <2>1, TermSteps DEF PriceStands, Followed
<1>4. CASE BookingStep
  BY <1>4, BookingSteps
<1>5. CASE RecalcStep
  BY <1>5, RecalcSteps DEF Followed
<1>6. CASE priceVars' = priceVars
  <2>1. BooksOnly /\ PriceStands /\ RecalcShaped' /\ year' = year /\ recalc' = recalc
    BY <1>6 DEF priceVars, BooksOnly, PriceStands, PriceInv, StoredShaped, RecalcShaped, Open
  <2> QED
    BY <2>1, BooksOnlyKeeps DEF Followed
<1> QED
  BY <1>1, <1>2, <1>3, <1>4, <1>5, <1>6 DEF PricesNext

\* Whatever is priced, edited or recalculated meanwhile, the price of a booking that an
\* invoice holds, or of a completed year, stands.
THEOREM InvoicedPricesStand == PricesSpec => FrozenPrices
<1>1. PricesInit => PriceInv
  BY PricesStart
<1>2. PriceInv /\ [PricesNext]_priceVars => PriceInv'
  BY PriceSteps
<1>3. PriceInv /\ [PricesNext]_priceVars
      => [\A e \in DOMAIN entries :
            entries[e].claimed \/ ~Open => entries'[e].price = entries[e].price]_priceVars
  BY PriceSteps DEF PriceStands
<1> QED
  BY <1>1, <1>2, <1>3, PTL DEF PricesSpec, FrozenPrices

\* What a price is made of.
LEMMA SamePrice ==
  ASSUME NEW cat, NEW later, SameOn(PricingFields, later, cat),
         NEW granted, NEW n, NEW sel, NEW on, NEW hours
  PROVE  Priced(later, granted, n, sel, on, hours) = Priced(cat, granted, n, sel, on, hours)
<1>1. /\ later.loads = cat.loads /\ later.tractors = cat.tractors /\ later.machines = cat.machines
      /\ later.fuel = cat.fuel /\ later.increment = cat.increment /\ later.minimum = cat.minimum
  BY DEF SameOn, PricingFields
<1>2. EffectiveFuelAdjustment(later, on) = EffectiveFuelAdjustment(cat, on)
  BY <1>1 DEF EffectiveFuelAdjustment
<1>3. ASSUME NEW fuel
      PROVE  NewAdjustedRateBreakdown(later, sel, fuel) = NewAdjustedRateBreakdown(cat, sel, fuel)
  BY <1>1 DEF NewAdjustedRateBreakdown
<1>4. BilledHours(later, hours) = BilledHours(cat, hours)
  BY <1>1 DEF BilledHours
<1> QED
  BY <1>2, <1>3, <1>4 DEF Priced

\* Where nothing a price is made of changes, a booking comes out as before.
LEMMA KeptPrice ==
  ASSUME Keeps, year'.base = year.base, NEW n, NEW e
  PROVE  Repriced(n, e)' = Repriced(n, e)
<1> DEFINE cat == bases[year.base]
           later == bases'[year.base]
<1>1. SameOn(PricingFields, later, cat) /\ terms' = terms
  BY DEF Keeps, SameOn, KeptFields
<1>2. later.tractors = cat.tractors /\ later.loads = cat.loads
  BY <1>1 DEF SameOn, PricingFields
<1>3. Priceable(e)' <=> Priceable(e)
  BY <1>2 DEF Priceable, Resolves, Catalog
<1>4. Resolved(e)' = Resolved(e)
  BY DEF Resolved
<1>5. ASSUME NEW sel
      PROVE  Priced(later, terms', n, sel, e.day, e.price.hours)
               = Priced(cat, terms, n, sel, e.day, e.price.hours)
  BY <1>1, SamePrice
<1>6. Repriced(n, e) = IF Priceable(e)
                       THEN Priced(cat, terms, n, Resolved(e), e.day, e.price.hours)
                       ELSE e.price
  BY DEF Repriced, Catalog
<1>7. Repriced(n, e)' = IF Priceable(e)'
                        THEN Priced(later, terms', n, Resolved(e)', e.day, e.price.hours)
                        ELSE e.price
  BY DEF Repriced, Catalog
<1> HIDE DEF cat, later
<1> QED
  BY <1>3, <1>4, <1>5, <1>6, <1>7

\* What the prices were found to be, while the revision they were noted under is that of
\* the year's basis.
PreviewInv ==
  recalc # Null /\ recalc.pc = "previewed" /\ ~recalc.moved /\ recalc.rev = Catalog.rev
    => \A e \in Rows : recalc.new[e] = Repriced(NeighborOf[e], recalc.old[e])

\* A preview that is left alone stays right: an edit is a new revision, and what is no
\* edit moves no price.
LEMMA PreviewLeft ==
  ASSUME PriceInv, PreviewInv, recalc' = recalc, year'.base = year.base, Touches \/ Keeps
  PROVE  PreviewInv'
<1>1. CASE Touches
  <2>1. recalc # Null => recalc.rev \in 0..clock /\ clock \in Nat
    BY DEF PriceInv, RecalcShaped
  <2>2. Catalog'.rev = clock + 1
    BY <1>1 DEF Touches, Catalog
  <2> QED
    BY <2>1, <2>2 DEF PreviewInv
<1>2. CASE Keeps
  <2>1. Catalog'.rev = Catalog.rev
    BY <1>2 DEF Keeps, SameOn, KeptFields, Catalog
  <2>2. SUFFICES ASSUME recalc # Null, recalc.pc = "previewed", ~recalc.moved,
                        recalc.rev = Catalog.rev, NEW e \in Rows
                 PROVE  recalc.new[e] = Repriced(NeighborOf[e], recalc.old[e])'
    BY <2>1 DEF PreviewInv, Rows
  <2>3. recalc.new[e] = Repriced(NeighborOf[e], recalc.old[e])
    BY <2>2 DEF PreviewInv
  <2>4. PICK n, o : n = NeighborOf[e] /\ o = recalc.old[e]
    OBVIOUS
  <2>5. Repriced(n, o)' = Repriced(n, o)
    BY <1>2, KeptPrice
  <2>6. Repriced(n, recalc.old[e])' = Repriced(n, o)'
    BY <2>4
  <2> QED
    BY <2>3, <2>4, <2>5, <2>6
<1> QED
  BY <1>1, <1>2

\* A preview shows what the catalog and the terms of its moment give.
LEMMA PreviewMade ==
  ASSUME PriceInv, RecalcStep
  PROVE  PreviewInv'
<1>1. CASE RecalcLock \/ RecalcBegin
  <2>1. recalc'.pc \in {"locked", "noted"}
    BY <1>1 DEF RecalcLock, RecalcBegin, PriceInv, RecalcShaped, RecalcFields
  <2> QED BY <2>1 DEF PreviewInv
<1>2. CASE RecalcRefused \/ RecalcWrite \/ RecalcConflict
  BY <1>2 DEF RecalcRefused, RecalcWrite, RecalcConflict, PreviewInv
<1>3. ASSUME NEW scope, RecalcPreview(scope) PROVE PreviewInv'
  <2>1. PICK open : open = InScope(scope)
    OBVIOUS
  <2>2. /\ recalc'.old = [e \in open |-> entries[e]]
        /\ recalc'.new = [e \in open |-> Repriced(NeighborOf[e], entries[e])]
        /\ UNCHANGED <<bases, terms, year>>
    BY <1>3, <2>1 DEF RecalcPreview, PriceInv, RecalcShaped, RecalcFields
  <2>3. ASSUME NEW e \in open
        PROVE  recalc'.new[e] = Repriced(NeighborOf[e], recalc.old[e])'
    <3>1. PICK n, o : n = NeighborOf[e] /\ o = entries[e]
      OBVIOUS
    <3>2. recalc'.old[e] = o /\ recalc'.new[e] = Repriced(n, o)
      BY <2>2, <3>1
    <3>3. Keeps
      BY <2>2 DEF Keeps, SameOn
    <3>4. Repriced(n, o)' = Repriced(n, o)
      BY <2>2, <3>3, KeptPrice
    <3> QED
      BY <3>1, <3>2, <3>4
  <2> QED
    BY <2>2, <2>3 DEF PreviewInv, Rows
<1> QED
  BY <1>1, <1>2, <1>3 DEF RecalcStep

\* A recalculation takes its locks with no preview that an edit has overtaken, whichever
\* table it was made in and whichever trigger had to tell of it.
THEOREM PreviewsHold == PricesSpec => PreviewHolds
<1>1. PricesInit => PriceInv /\ PreviewInv
  BY PricesStart DEF PricesInit, PreviewInv
<1>2. PriceInv /\ PreviewInv /\ [PricesNext]_priceVars => (PriceInv /\ PreviewInv)'
  <2> SUFFICES ASSUME PriceInv, PreviewInv, [PricesNext]_priceVars
               PROVE  PriceInv' /\ PreviewInv'
    OBVIOUS
  <2>1. PriceInv' /\ Followed
    BY PriceSteps
  <2>2. PreviewInv'
    <3>1. CASE recalc' = recalc /\ year'.base = year.base /\ (Touches \/ Keeps)
      BY <3>1, PreviewLeft
    <3>2. CASE recalc' = Null \/ (recalc # Null /\ recalc'.moved /\ recalc'.pc = recalc.pc)
      BY <3>2 DEF PreviewInv
    <3>3. CASE RecalcStep
      BY <3>3, PreviewMade
    <3> QED BY <2>1, <3>1, <3>2, <3>3 DEF Followed
  <2> QED BY <2>1, <2>2
<1>3. ASSUME PriceInv, PreviewInv, [PricesNext]_priceVars, recalc # Null,
             recalc.pc = "previewed", ~recalc.moved, recalc' # Null, recalc'.pc = "locked"
      PROVE  \A e \in Rows : recalc.new[e] = Repriced(NeighborOf[e], recalc.old[e])
  <2>1. Followed
    BY <1>3, PriceSteps
  <2>2. RecalcStep
    BY <1>3, <2>1 DEF Followed
  <2>3. RecalcLock
    <3>1. ~\E scope : RecalcPreview(scope)
      BY <1>3 DEF RecalcPreview
    <3> QED
      BY <1>3, <2>2, <3>1 DEF RecalcStep, RecalcBegin, RecalcRefused, RecalcWrite, RecalcConflict
  <2> QED
    BY <1>3, <2>3 DEF RecalcLock, PreviewInv
<1>4. PriceInv /\ PreviewInv /\ [PricesNext]_priceVars
      => [(/\ recalc # Null /\ recalc.pc = "previewed" /\ ~recalc.moved
           /\ recalc' # Null /\ recalc'.pc = "locked")
          => \A e \in Rows : recalc.new[e] = Repriced(NeighborOf[e], recalc.old[e])]_priceVars
  BY <1>3
<1> QED
  BY <1>1, <1>2, <1>4, PTL DEF PricesSpec, PreviewHolds

-----------------------------------------------------------------------------
(* The audit log: sequences of rows.                                       *)

\* s is what t begins with, n rows long.
Opens(s, t, n) == s \in Seq(Nat) /\ Len(s) = n /\ n <= Len(t) /\ \A i \in 1..n : s[i] = t[i]

LEMMA OpensOnce ==
  ASSUME NEW s, NEW u, NEW t, NEW n \in Nat, Opens(s, t, n), Opens(u, t, n)
  PROVE  s = u
<1>1. s \in Seq(Nat) /\ u \in Seq(Nat) /\ Len(s) = Len(u)
  BY DEF Opens
<1>2. \A i \in 1..Len(s) : s[i] = u[i]
  BY DEF Opens
<1> QED
  BY <1>1, <1>2, SeqEqual

LEMMA OpensItself ==
  ASSUME NEW s \in Seq(Nat)
  PROVE  Opens(s, s, Len(s))
<1>1. Len(s) \in Nat
  BY LenProperties
<1> QED
  BY <1>1 DEF Opens

\* A beginning is the beginning of every continuation.
LEMMA OpensLonger ==
  ASSUME NEW s, NEW n \in Nat, NEW t \in Seq(Nat), NEW u \in Seq(Nat), Opens(s, t, n)
  PROVE  Opens(s, t \o u, n)
<1>1. Len(t) \in Nat /\ Len(u) \in Nat
  BY LenProperties
<1>2. /\ Len(t \o u) = Len(t) + Len(u)
      /\ \A i \in 1..Len(t) + Len(u) : (t \o u)[i] = IF i <= Len(t) THEN t[i] ELSE u[i - Len(t)]
  BY ConcatProperties
<1>3. \A i \in 1..n : (t \o u)[i] = t[i]
  BY <1>1, <1>2 DEF Opens
<1> QED
  BY <1>1, <1>2, <1>3 DEF Opens

\* The beginnings of what continues a sequence.
LEMMA OpensAfter ==
  ASSUME NEW t \in Seq(Nat), NEW s, NEW u \in Seq(Nat), NEW n \in Nat, Opens(s, u, n)
  PROVE  Opens(t \o s, t \o u, Len(t) + n)
<1>1. Len(t) \in Nat /\ Len(u) \in Nat /\ s \in Seq(Nat) /\ Len(s) = n /\ n <= Len(u)
  BY LenProperties DEF Opens
<1>2. /\ t \o s \in Seq(Nat) /\ Len(t \o s) = Len(t) + Len(s)
      /\ \A i \in 1..Len(t) + Len(s) : (t \o s)[i] = IF i <= Len(t) THEN t[i] ELSE s[i - Len(t)]
  BY <1>1, ConcatProperties
<1>3. /\ Len(t \o u) = Len(t) + Len(u)
      /\ \A i \in 1..Len(t) + Len(u) : (t \o u)[i] = IF i <= Len(t) THEN t[i] ELSE u[i - Len(t)]
  BY <1>1, ConcatProperties
<1>4. ASSUME NEW i \in 1..Len(t) + n PROVE (t \o s)[i] = (t \o u)[i]
  <2>1. CASE i <= Len(t)
    BY <1>1, <1>2, <1>3, <2>1
  <2>2. CASE ~(i <= Len(t))
    <3>1. i - Len(t) \in 1..n
      BY <1>1, <2>2
    <3>2. s[i - Len(t)] = u[i - Len(t)]
      BY <3>1 DEF Opens
    <3>3. (t \o s)[i] = s[i - Len(t)]
      BY <1>1, <1>2, <2>2
    <3>4. (t \o u)[i] = u[i - Len(t)]
      BY <1>1, <1>3, <2>2
    <3> QED
      BY <3>2, <3>3, <3>4
  <2> QED
    BY <2>1, <2>2
<1> QED
  BY <1>1, <1>2, <1>3, <1>4 DEF Opens

LEMMA OpensByOne ==
  ASSUME NEW s, NEW t \in Seq(Nat), NEW n \in 1..Len(t), Opens(s, t, n - 1)
  PROVE  Opens(Append(s, t[n]), t, n)
<1>1. Len(t) \in Nat /\ s \in Seq(Nat) /\ Len(s) = n - 1 /\ t[n] \in Nat
  BY LenProperties, ElementOfSeq DEF Opens
<1>2. /\ Append(s, t[n]) \in Seq(Nat) /\ Len(Append(s, t[n])) = Len(s) + 1
      /\ \A i \in 1..Len(s) : Append(s, t[n])[i] = s[i]
      /\ Append(s, t[n])[Len(s) + 1] = t[n]
  BY <1>1, AppendProperties
<1>3. ASSUME NEW i \in 1..n PROVE Append(s, t[n])[i] = t[i]
  <2>1. CASE i = n
    BY <1>1, <1>2, <2>1
  <2>2. CASE i # n
    BY <1>1, <1>2, <2>2 DEF Opens
  <2> QED
    BY <2>1, <2>2
<1> QED
  BY <1>1, <1>2, <1>3 DEF Opens

-----------------------------------------------------------------------------
(* Rows in the order of their ids.                                         *)

\* A row's rank is the number of rows below it; no two rows share one, and
\* every rank is taken.
LEMMA RanksApart ==
  ASSUME NEW ids, IsFiniteSet(ids), ids \subseteq Nat, NEW r \in ids, NEW q \in ids, q < r
  PROVE  Below(q, Below(r, ids)) = Below(q, ids) /\ Rank(q, ids) < Rank(r, ids)
<1>0. q \in Nat /\ r \in Nat /\ \A x \in ids : x < q => x < r
  OBVIOUS
<1>1. Below(q, ids) \subseteq Below(r, ids)
  BY <1>0 DEF Below
<1>2. q \in Below(r, ids) /\ q \notin Below(q, ids) /\ Below(r, ids) \subseteq ids
  BY <1>0 DEF Below
<1>3. IsFiniteSet(Below(r, ids))
  BY <1>2, FS_Subset
<1>4. /\ IsFiniteSet(Below(q, ids)) /\ Cardinality(Below(q, ids)) <= Cardinality(Below(r, ids))
      /\ Cardinality(Below(r, ids)) = Cardinality(Below(q, ids)) => Below(r, ids) = Below(q, ids)
  BY <1>1, <1>3, FS_Subset
<1>5. Cardinality(Below(q, ids)) # Cardinality(Below(r, ids))
  BY <1>2, <1>4
<1>6. Cardinality(Below(q, ids)) \in Nat /\ Cardinality(Below(r, ids)) \in Nat
  BY <1>3, <1>4, FS_CardinalityType
<1>7. Below(q, Below(r, ids)) = Below(q, ids)
  BY <1>0 DEF Below
<1> QED
  BY <1>4, <1>5, <1>6, <1>7 DEF Rank

LEMMA RankInRange ==
  ASSUME NEW ids, IsFiniteSet(ids), ids \subseteq Nat, NEW r \in ids
  PROVE  Cardinality(ids) \in Nat /\ Rank(r, ids) \in Nat /\ Rank(r, ids) < Cardinality(ids)
<1>1. Below(r, ids) \subseteq ids /\ r \notin Below(r, ids)
  BY DEF Below
<1>2. /\ IsFiniteSet(Below(r, ids)) /\ Cardinality(Below(r, ids)) <= Cardinality(ids)
      /\ Cardinality(ids) = Cardinality(Below(r, ids)) => ids = Below(r, ids)
  BY <1>1, FS_Subset
<1>3. Cardinality(ids) \in Nat /\ Cardinality(Below(r, ids)) \in Nat
  BY <1>2, FS_CardinalityType
<1> QED
  BY <1>1, <1>2, <1>3 DEF Rank

LEMMA RanksDiffer ==
  ASSUME NEW ids, IsFiniteSet(ids), ids \subseteq Nat, NEW r \in ids, NEW q \in ids,
         Rank(r, ids) = Rank(q, ids)
  PROVE  r = q
<1>1. Rank(r, ids) \in Nat /\ r \in Nat /\ q \in Nat
  BY RankInRange
<1>2. ASSUME q < r PROVE FALSE
  <2>1. Rank(q, ids) < Rank(r, ids)
    BY <1>2, RanksApart
  <2> QED
    BY <1>1, <2>1
<1>3. ASSUME r < q PROVE FALSE
  <2>1. Rank(r, ids) < Rank(q, ids)
    BY <1>3, RanksApart
  <2> QED
    BY <1>1, <2>1
<1> QED
  BY <1>1, <1>2, <1>3

LEMMA RanksTaken ==
  ASSUME NEW ids, IsFiniteSet(ids), ids \subseteq Nat, NEW n \in 1..Cardinality(ids)
  PROVE  \E r \in ids : Rank(r, ids) = n - 1
<1> DEFINE place == [r \in ids |-> Rank(r, ids) + 1]
           Places == 1..Cardinality(ids)
<1>1. Cardinality(ids) \in Nat
  BY FS_CardinalityType
<1>2. IsFiniteSet(Places) /\ Cardinality(Places) = Cardinality(ids)
  <2>1. PICK size \in Nat : size = Cardinality(ids)
    BY <1>1
  <2>2. IsFiniteSet(1..size) /\ Cardinality(1..size) = IF 1 > size THEN 0 ELSE size - 1 + 1
    BY SMTT(30), <2>1, FS_Interval
  <2> QED
    BY <2>1, <2>2
<1>3. ASSUME NEW r \in ids
      PROVE  Rank(r, ids) \in Nat /\ Rank(r, ids) + 1 \in Places
  <2>1. Rank(r, ids) \in Nat /\ Rank(r, ids) < Cardinality(ids)
    BY RankInRange
  <2> QED
    BY <1>1, <2>1
<1>4. place \in [ids -> Places]
  BY <1>3
<1>5. ASSUME NEW r \in ids, NEW q \in ids, place[r] = place[q] PROVE r = q
  <2>1. Rank(r, ids) = Rank(q, ids)
    BY <1>3, <1>5
  <2> QED
    BY <2>1, RanksDiffer
<1>6. place \in Injection(ids, Places)
  BY <1>4, <1>5 DEF Injection, IsInjective
<1> HIDE DEF place
<1>7. place \in Surjection(ids, Places)
  BY <1>2, <1>6, FS_Injection
<1>8. PICK r \in ids : place[r] = n
  BY <1>7 DEF Surjection
<1>9. Rank(r, ids) \in Nat /\ Rank(r, ids) + 1 = n
  BY <1>3, <1>8 DEF place
<1> QED
  BY <1>9

LEMMA SortedRows ==
  ASSUME NEW ids, IsFiniteSet(ids), ids \subseteq Nat
  PROVE  /\ ById(ids) \in Seq(Nat) /\ Len(ById(ids)) = Cardinality(ids)
         /\ \A r \in ids : ById(ids)[Rank(r, ids) + 1] = r
         /\ \A n \in 1..Cardinality(ids) :
              ById(ids)[n] \in ids /\ Rank(ById(ids)[n], ids) = n - 1
<1>1. Cardinality(ids) \in Nat
  BY FS_CardinalityType
<1>2. \A n \in 1..Cardinality(ids) :
        ById(ids)[n] \in ids /\ Rank(ById(ids)[n], ids) = n - 1
  BY RanksTaken DEF ById
<1>3. DOMAIN ById(ids) = 1..Cardinality(ids) /\ ById(ids) = [n \in 1..Cardinality(ids) |-> ById(ids)[n]]
  BY DEF ById
<1>4. \A n \in 1..Cardinality(ids) : ById(ids)[n] \in Nat
  BY <1>2
<1>5. ById(ids) \in Seq(Nat) /\ Len(ById(ids)) = Cardinality(ids)
  BY <1>1, <1>3, <1>4
<1>6. ASSUME NEW r \in ids PROVE ById(ids)[Rank(r, ids) + 1] = r
  <2>1. PICK n : n = Rank(r, ids) + 1
    OBVIOUS
  <2>2. Rank(r, ids) \in Nat /\ Rank(r, ids) < Cardinality(ids)
    BY RankInRange
  <2>3. n \in 1..Cardinality(ids) /\ n - 1 = Rank(r, ids)
    BY <1>1, <2>1, <2>2
  <2>4. PICK q \in ids : q = ById(ids)[n]
    BY <1>2, <2>3
  <2>5. Rank(q, ids) = Rank(r, ids)
    BY <1>2, <2>3, <2>4
  <2>6. q = r
    BY <2>5, RanksDiffer
  <2> QED
    BY <2>1, <2>4, <2>6
<1> QED
  BY <1>2, <1>5, <1>6

\* The rows below one of them are what the sorted rows begin with.
LEMMA SortedBelow ==
  ASSUME NEW ids, IsFiniteSet(ids), ids \subseteq Nat, NEW r \in ids
  PROVE  Opens(ById(Below(r, ids)), ById(ids), Rank(r, ids))
<1>1. PICK low : low = Below(r, ids)
  OBVIOUS
<1>2. low \subseteq ids /\ IsFiniteSet(low) /\ low \subseteq Nat
  BY <1>1, FS_Subset DEF Below
<1>3. /\ Cardinality(ids) \in Nat /\ Cardinality(low) \in Nat /\ Cardinality(low) < Cardinality(ids)
      /\ Rank(r, ids) = Cardinality(low)
  BY <1>1, RankInRange DEF Rank
<1>4. /\ ById(low) \in Seq(Nat) /\ Len(ById(low)) = Cardinality(low)
      /\ \A n \in 1..Cardinality(low) : ById(low)[n] \in low /\ Rank(ById(low)[n], low) = n - 1
  BY <1>2, SortedRows
<1>5. /\ Len(ById(ids)) = Cardinality(ids)
      /\ \A q \in ids : ById(ids)[Rank(q, ids) + 1] = q
  BY SortedRows
<1>6. ASSUME NEW n \in 1..Cardinality(low) PROVE ById(low)[n] = ById(ids)[n]
  <2>1. PICK q \in low : q = ById(low)[n]
    BY <1>4
  <2>2. Rank(q, low) = n - 1
    BY <1>4, <2>1
  <2>3. q \in ids /\ q < r
    BY <1>1 DEF Below
  <2>4. Below(q, low) = Below(q, ids)
    BY <1>1, <2>3, RanksApart
  <2>5. Rank(q, ids) = n - 1
    BY <2>2, <2>4 DEF Rank
  <2>6. ById(ids)[(n - 1) + 1] = q
    BY <1>5, <2>3, <2>5
  <2>7. (n - 1) + 1 = n
    BY <1>3
  <2> QED
    BY <2>1, <2>6, <2>7
<1> QED
  BY <1>1, <1>3, <1>4, <1>5, <1>6 DEF Opens

-----------------------------------------------------------------------------
(* What the log, its heads and the heads recorded from backups agree on.   *)

\* A chain is its head's hash: behind the anchor every row of it is stored under its
\* number, and nothing else is sealed.
Chained(l, h, c) ==
  /\ h.anchor <= h.seq /\ Len(h.hash) = h.seq /\ Opens(h.anchorHash, h.hash, h.anchor)
  /\ \A n \in h.anchor + 1..h.seq :
       h.hash[n] \in DOMAIN l /\ l[h.hash[n]].chain = c /\ l[h.hash[n]].seq = n
  /\ \A r \in DOMAIN l : l[r].chain = c /\ l[r].seq > 0 =>
       /\ l[r].seq \in h.anchor + 1..h.seq /\ h.hash[l[r].seq] = r
       /\ Opens(l[r].prev, h.hash, l[r].seq - 1)
       /\ l[r].hash = Append(l[r].prev, r)

\* A recorded head is what its chain once ended on.
History(l, h, rec) ==
  /\ \A c \in Chain : Chained(l, h[c], c)
  /\ \A b \in rec : Opens(b.hash, h[b.chain].hash, b.seq)

AuditRow == [chain : Chain, at : Nat, seq : Nat, prev : Seq(Nat), hash : Seq(Nat)]
Logs == UNION {[D -> AuditRow] : D \in FiniteSubsetsOf(Nat)}
ChainHead == [seq : Nat, hash : Seq(Nat), anchor : Nat, anchorHash : Seq(Nat)]
Noted == [chain : Chain, seq : Nat, hash : Seq(Nat)]
Snapshot == [log : Logs, heads : [Chain -> ChainHead], recorded : SUBSET Noted, alarm : BOOLEAN]

LogTypeOK ==
  /\ day \in Nat /\ log \in Logs /\ pending \in Logs /\ heads \in [Chain -> ChainHead]
  /\ recorded \subseteq Noted /\ alarm \in BOOLEAN /\ verifier \in {NoHeads, heads}
  /\ dumps \in Seq(Snapshot)

PendingUnsealed == \A r \in DOMAIN pending : r \notin DOMAIN log /\ pending[r].seq = 0

DumpsSound ==
  \A i \in DOMAIN dumps :
    ~dumps[i].alarm /\ History(dumps[i].log, dumps[i].heads, dumps[i].recorded)

LogInv ==
  LogTypeOK /\ History(log, heads, recorded) /\ PendingUnsealed /\ DumpsSound /\ ~alarm

LEMMA LogsAre ==
  ASSUME NEW l
  PROVE  l \in Logs <=> /\ IsFiniteSet(DOMAIN l) /\ DOMAIN l \subseteq Nat
                        /\ l \in [DOMAIN l -> AuditRow]
BY DEF Logs, FiniteSubsetsOf

\* A chain depends on its sealed rows only.
LEMMA SameChain ==
  ASSUME NEW l, NEW k, NEW h \in ChainHead, NEW c, Chained(l, h, c),
         \A r \in DOMAIN l : l[r].chain = c /\ l[r].seq > 0 => r \in DOMAIN k /\ k[r] = l[r],
         \A r \in DOMAIN k : k[r].chain = c /\ k[r].seq > 0 => r \in DOMAIN l /\ k[r] = l[r]
  PROVE  Chained(k, h, c)
<1>1. h.anchor \in Nat /\ h.seq \in Nat
  BY DEF ChainHead
<1>2. ASSUME NEW n \in h.anchor + 1..h.seq
      PROVE  h.hash[n] \in DOMAIN k /\ k[h.hash[n]].chain = c /\ k[h.hash[n]].seq = n
  <2>1. PICK r : r = h.hash[n]
    OBVIOUS
  <2>2. r \in DOMAIN l /\ l[r].chain = c /\ l[r].seq = n
    BY <2>1 DEF Chained
  <2>3. r \in DOMAIN k /\ k[r] = l[r]
    BY <1>1, <2>2
  <2> QED
    BY <2>1, <2>2, <2>3
<1>3. ASSUME NEW r \in DOMAIN k, k[r].chain = c, k[r].seq > 0
      PROVE  /\ k[r].seq \in h.anchor + 1..h.seq /\ h.hash[k[r].seq] = r
             /\ Opens(k[r].prev, h.hash, k[r].seq - 1)
             /\ k[r].hash = Append(k[r].prev, r)
  <2>1. r \in DOMAIN l /\ k[r] = l[r]
    BY <1>3
  <2> QED
    BY <1>3, <2>1 DEF Chained
<1> QED
  BY <1>2, <1>3 DEF Chained

\* The row under a number carries the hash its chain had there.
LEMMA HashAt ==
  ASSUME NEW l \in Logs, NEW h \in ChainHead, NEW c, Chained(l, h, c),
         NEW n \in h.anchor + 1..h.seq, NEW s, Opens(s, h.hash, n)
  PROVE  l[h.hash[n]].hash = s
<1>1. h.anchor \in Nat /\ h.seq \in Nat /\ h.hash \in Seq(Nat) /\ Len(h.hash) = h.seq
  BY DEF ChainHead, Chained
<1>2. PICK r : r = h.hash[n]
  OBVIOUS
<1>3. r \in DOMAIN l /\ l[r].chain = c /\ l[r].seq = n
  BY <1>2 DEF Chained
<1>4. Opens(l[r].prev, h.hash, n - 1) /\ l[r].hash = Append(l[r].prev, r)
  BY <1>1, <1>3 DEF Chained
<1>5. n \in 1..Len(h.hash)
  BY <1>1
<1>6. Opens(Append(l[r].prev, h.hash[n]), h.hash, n)
  BY <1>1, <1>4, <1>5, OpensByOne
<1>7. Append(l[r].prev, h.hash[n]) = s
  <2>1. PICK u : u = Append(l[r].prev, h.hash[n])
    OBVIOUS
  <2>2. n \in Nat /\ Opens(u, h.hash, n)
    BY <1>1, <1>5, <1>6, <2>1
  <2>3. u = s
    BY <2>2, OpensOnce
  <2> QED
    BY <2>1, <2>3
<1> QED
  BY <1>2, <1>4, <1>7

LEMMA RowHash ==
  ASSUME NEW l \in Logs, NEW h \in ChainHead, NEW c, Chained(l, h, c),
         NEW r \in DOMAIN l, l[r].chain = c, l[r].seq > 0
  PROVE  /\ l[r].seq \in h.anchor + 1..h.seq /\ h.hash[l[r].seq] = r
         /\ Opens(l[r].hash, h.hash, l[r].seq)
<1>1. h.anchor \in Nat /\ h.seq \in Nat /\ h.hash \in Seq(Nat) /\ Len(h.hash) = h.seq
  BY DEF ChainHead, Chained
<1>2. PICK n : n = l[r].seq
  OBVIOUS
<1>3. /\ n \in h.anchor + 1..h.seq /\ h.hash[n] = r
      /\ Opens(l[r].prev, h.hash, n - 1) /\ l[r].hash = Append(l[r].prev, r)
  BY <1>2 DEF Chained
<1>4. n \in 1..Len(h.hash)
  BY <1>1, <1>3
<1>5. Opens(Append(l[r].prev, h.hash[n]), h.hash, n)
  BY <1>1, <1>3, <1>4, OpensByOne
<1> QED
  BY <1>2, <1>3, <1>5

-----------------------------------------------------------------------------
(* The steps: sealing.                                                     *)

LEMMA SealMakes ==
  ASSUME LogInv, SealAuditBatch, NEW c \in Chain
  PROVE  /\ Share(c) \subseteq DOMAIN log /\ Share(c) \subseteq NextBatch
         /\ Share(c) \subseteq Nat /\ IsFiniteSet(Share(c))
         /\ \A r \in Share(c) : log[r].chain = c /\ log[r].seq = 0
         /\ heads'[c].seq = heads[c].seq + Cardinality(Share(c))
         /\ heads'[c].hash = heads[c].hash \o ById(Share(c))
         /\ heads'[c].anchor = heads[c].anchor /\ heads'[c].anchorHash = heads[c].anchorHash
         /\ heads'[c] \in ChainHead
<1>1. Share(c) \subseteq NextBatch /\ NextBatch \subseteq Unsealed /\ Unsealed \subseteq DOMAIN log
  BY DEF Share, NextBatch, Unsealed
<1>2. \A r \in Share(c) : log[r].chain = c /\ log[r].seq = 0
  BY <1>1 DEF Share, Unsealed
<1>3. IsFiniteSet(DOMAIN log) /\ DOMAIN log \subseteq Nat
  BY LogsAre DEF LogInv, LogTypeOK
<1>4. Share(c) \subseteq DOMAIN log /\ Share(c) \subseteq Nat /\ IsFiniteSet(Share(c))
  BY <1>1, <1>3, FS_Subset
<1>5. PICK h : h = heads[c]
  OBVIOUS
<1>6. h \in ChainHead /\ h.seq \in Nat /\ h.hash \in Seq(Nat) /\ h.anchor \in Nat
      /\ h.anchorHash \in Seq(Nat)
  BY <1>5 DEF LogInv, LogTypeOK, ChainHead
<1>7. /\ ById(Share(c)) \in Seq(Nat) /\ Cardinality(Share(c)) \in Nat
      /\ h.hash \o ById(Share(c)) \in Seq(Nat)
  BY <1>4, <1>6, SortedRows, FS_CardinalityType, ConcatProperties
<1>8. heads'[c] = [h EXCEPT !.seq = h.seq + Cardinality(Share(c)),
                            !.hash = h.hash \o ById(Share(c))]
  BY <1>5 DEF SealAuditBatch
<1>9. /\ heads'[c].seq = h.seq + Cardinality(Share(c))
      /\ heads'[c].hash = h.hash \o ById(Share(c))
      /\ heads'[c].anchor = h.anchor /\ heads'[c].anchorHash = h.anchorHash
  BY <1>6, <1>8 DEF ChainHead
<1>10. heads'[c] \in ChainHead
  <2>1. PICK seq, hash : seq = h.seq + Cardinality(Share(c)) /\ hash = h.hash \o ById(Share(c))
    OBVIOUS
  <2>2. seq \in Nat
    BY <1>6, <1>7, <2>1
  <2>3. hash \in Seq(Nat)
    BY <1>7, <2>1
  <2>4. [h EXCEPT !.seq = seq, !.hash = hash] \in ChainHead
    BY <1>6, <2>2, <2>3 DEF ChainHead
  <2> QED
    BY <1>8, <2>1, <2>4
<1> QED
  BY <1>1, <1>2, <1>4, <1>5, <1>9, <1>10

LEMMA SealRow ==
  ASSUME LogInv, SealAuditBatch, NEW r \in NextBatch
  PROVE  /\ r \in Share(log[r].chain) /\ log[r].chain \in Chain
         /\ log'[r] \in AuditRow /\ log'[r].chain = log[r].chain
         /\ log'[r].seq = heads[log[r].chain].seq + Rank(r, Share(log[r].chain)) + 1
         /\ log'[r].prev = heads[log[r].chain].hash \o ById(Below(r, Share(log[r].chain)))
         /\ log'[r].hash = Append(log'[r].prev, r)
<1>1. r \in DOMAIN log
  BY DEF NextBatch, Unsealed
<1>2. log \in [DOMAIN log -> AuditRow] /\ DOMAIN log \subseteq Nat
  BY LogsAre DEF LogInv, LogTypeOK
<1>3. PICK row, c : row = log[r] /\ c = log[r].chain
  OBVIOUS
<1>4. row \in AuditRow /\ row.chain = c /\ c \in Chain /\ r \in Nat
  BY <1>1, <1>2, <1>3 DEF AuditRow
<1>5. r \in Share(c)
  BY <1>3 DEF Share
<1>6. PICK share, low, h, prev, seq :
        /\ share = Share(c) /\ low = Below(r, share) /\ h = heads[c]
        /\ prev = h.hash \o ById(low) /\ seq = h.seq + Rank(r, share) + 1
  OBVIOUS
<1>7. share \subseteq Nat /\ IsFiniteSet(share) /\ r \in share
  BY <1>4, <1>5, <1>6, SealMakes
<1>8. low \subseteq Nat /\ IsFiniteSet(low)
  <2>1. low \subseteq share
    BY <1>6 DEF Below
  <2> QED
    BY <1>7, <2>1, FS_Subset
<1>9. h.hash \in Seq(Nat) /\ h.seq \in Nat
  BY <1>4, <1>6 DEF LogInv, LogTypeOK, ChainHead
<1>10. prev \in Seq(Nat) /\ seq \in Nat
  <2>1. ById(low) \in Seq(Nat)
    BY <1>8, SortedRows
  <2>2. Rank(r, share) \in Nat
    BY <1>7, RankInRange
  <2> QED
    BY <1>6, <1>9, <2>1, <2>2, ConcatProperties
<1>11. Append(prev, r) \in Seq(Nat)
  BY <1>4, <1>10, AppendProperties
<1>12. log'[r] = Linked(r)
  BY <1>1 DEF SealAuditBatch
<1>13. Linked(r) = [row EXCEPT !.seq = seq, !.prev = prev, !.hash = Append(prev, r)]
  BY <1>3, <1>6 DEF Linked
<1>14. /\ log'[r].chain = c /\ log'[r].seq = seq /\ log'[r].prev = prev
       /\ log'[r].hash = Append(prev, r)
  BY <1>4, <1>12, <1>13 DEF AuditRow
<1>15. log'[r] \in AuditRow
  BY <1>4, <1>10, <1>11, <1>12, <1>13 DEF AuditRow
<1> QED
  BY <1>3, <1>4, <1>5, <1>6, <1>14, <1>15

LEMMA SealContinues ==
  ASSUME LogInv, SealAuditBatch, NEW c \in Chain
  PROVE  Chained(log', heads'[c], c)
<1>1. PICK share, h, g, k :
        share = Share(c) /\ h = heads[c] /\ g = heads'[c] /\ k = log'
  OBVIOUS
<1>2. /\ share \subseteq DOMAIN log /\ share \subseteq NextBatch
      /\ share \subseteq Nat /\ IsFiniteSet(share)
      /\ \A r \in share : log[r].chain = c /\ log[r].seq = 0
      /\ g.seq = h.seq + Cardinality(share) /\ g.hash = h.hash \o ById(share)
      /\ g.anchor = h.anchor /\ g.anchorHash = h.anchorHash
  BY <1>1, SealMakes
<1>3. h \in ChainHead /\ Chained(log, h, c) /\ log \in [DOMAIN log -> AuditRow]
  BY <1>1, LogsAre DEF LogInv, LogTypeOK, History
<1>4. h.seq \in Nat /\ h.anchor \in Nat /\ h.hash \in Seq(Nat) /\ Len(h.hash) = h.seq /\ h.anchor <= h.seq
  BY <1>3 DEF ChainHead, Chained
<1>5. /\ ById(share) \in Seq(Nat) /\ Len(ById(share)) = Cardinality(share) /\ Cardinality(share) \in Nat
      /\ \A r \in share : ById(share)[Rank(r, share) + 1] = r
      /\ \A n \in 1..Cardinality(share) : ById(share)[n] \in share /\ Rank(ById(share)[n], share) = n - 1
  BY <1>2, SortedRows, FS_CardinalityType
<1>6. PICK top \in Nat, size \in Nat, base \in Nat :
         /\ top = h.seq /\ size = Cardinality(share) /\ base = h.anchor /\ base <= top
         /\ g.seq = top + size /\ g.anchor = base /\ Len(h.hash) = top /\ Len(ById(share)) = size
  BY <1>2, <1>4, <1>5
<1>7. /\ Len(g.hash) = top + size
      /\ \A i \in 1..top + size :
           g.hash[i] = IF i <= top THEN h.hash[i] ELSE ById(share)[i - top]
  <2>1. PICK old, new : old = h.hash /\ new = ById(share)
    OBVIOUS
  <2>2. /\ Len(old \o new) = Len(old) + Len(new)
        /\ \A i \in 1..Len(old) + Len(new) :
             (old \o new)[i] = IF i <= Len(old) THEN old[i] ELSE new[i - Len(old)]
    BY <1>4, <1>5, <2>1, ConcatProperties
  <2> QED
    BY <1>2, <1>6, <2>1, <2>2
<1>8. DOMAIN k = DOMAIN log /\ \A r \in DOMAIN log : r \notin NextBatch => k[r] = log[r]
  BY <1>1 DEF SealAuditBatch
<1>9. ASSUME NEW r \in share
      PROVE  /\ k[r].chain = c /\ k[r].seq = top + Rank(r, share) + 1
             /\ k[r].prev = h.hash \o ById(Below(r, share)) /\ k[r].hash = Append(k[r].prev, r)
  <2>1. log[r].chain = c /\ r \in NextBatch /\ top = h.seq
    BY <1>2, <1>6
  <2>2. /\ log'[r].chain = c /\ log'[r].seq = heads[c].seq + Rank(r, Share(c)) + 1
        /\ log'[r].prev = heads[c].hash \o ById(Below(r, Share(c)))
        /\ log'[r].hash = Append(log'[r].prev, r)
    BY <2>1, SealRow
  <2> QED
    BY ONLY <1>1, <2>1, <2>2
<1>10. Opens(g.anchorHash, g.hash, g.anchor)
  <2>1. Opens(h.anchorHash, h.hash, h.anchor)
    BY <1>3 DEF Chained
  <2> QED
    BY <1>2, <1>4, <1>5, <2>1, OpensLonger
<1>11. ASSUME NEW n \in g.anchor + 1..g.seq
       PROVE  g.hash[n] \in DOMAIN k /\ k[g.hash[n]].chain = c /\ k[g.hash[n]].seq = n
  <2>0. n \in base + 1..top + size
    BY <1>6, <1>11
  <2>1. CASE n <= top
    <3>1. PICK r : r = h.hash[n]
      OBVIOUS
    <3>2. n \in base + 1..top /\ g.hash[n] = r /\ n > 0
      BY <1>7, <2>0, <2>1, <3>1
    <3>3. r \in DOMAIN log /\ log[r].chain = c /\ log[r].seq = n
      BY <1>3, <1>6, <3>1, <3>2 DEF Chained
    <3>4. r \notin NextBatch
      BY <3>2, <3>3 DEF NextBatch, Unsealed
    <3> QED
      BY <1>8, <3>2, <3>3, <3>4
  <2>2. CASE ~(n <= top)
    <3>1. PICK i : i = n - top
      OBVIOUS
    <3>2. i \in 1..size /\ n \in 1..top + size /\ n = top + i
      BY <2>0, <2>2, <3>1
    <3>3. PICK r \in share : r = ById(share)[i] /\ Rank(r, share) = i - 1
      BY <1>5, <1>6, <3>2
    <3>4. g.hash[n] = r
      BY <1>7, <2>2, <3>1, <3>2, <3>3
    <3>5. k[r].chain = c /\ k[r].seq = top + (i - 1) + 1
      BY <1>9, <3>3
    <3>6. k[r].seq = n
      BY <3>2, <3>5
    <3> QED
      BY <1>2, <1>8, <3>3, <3>4, <3>5, <3>6
  <2> QED
    BY <2>1, <2>2
<1>12. ASSUME NEW r \in DOMAIN k, k[r].chain = c, k[r].seq > 0
       PROVE  /\ k[r].seq \in g.anchor + 1..g.seq /\ g.hash[k[r].seq] = r
              /\ Opens(k[r].prev, g.hash, k[r].seq - 1)
              /\ k[r].hash = Append(k[r].prev, r)
  <2>1. CASE r \in NextBatch
    <3>1. r \in share
      BY <1>1, <1>12, <2>1, SealRow
    <3>2. PICK rank : rank = Rank(r, share)
      OBVIOUS
    <3>3. rank \in Nat /\ rank < size
      BY <1>2, <1>6, <3>1, <3>2, RankInRange
    <3>4. PICK n : n = k[r].seq /\ n = top + rank + 1
      BY <1>9, <3>1, <3>2
    <3>5. n \in base + 1..top + size /\ n \in 1..top + size
          /\ ~(n <= top) /\ n - top = rank + 1 /\ n - 1 = top + rank
      <4>1. base \in Nat /\ top \in Nat /\ size \in Nat /\ base <= top
        BY <1>6
      <4> QED
        BY ONLY <3>3, <3>4, <4>1
    <3>6. g.hash[n] = r
      BY <1>5, <1>7, <3>1, <3>2, <3>5
    <3>7. Opens(ById(Below(r, share)), ById(share), rank)
      BY <1>2, <3>1, <3>2, SortedBelow
    <3>8. Opens(h.hash \o ById(Below(r, share)), h.hash \o ById(share), Len(h.hash) + rank)
      BY <1>4, <1>5, <3>3, <3>7, OpensAfter
    <3>9. Opens(k[r].prev, g.hash, n - 1)
      BY <1>2, <1>9, <1>6, <3>1, <3>5, <3>8
    <3> QED
      BY <1>9, <1>6, <3>1, <3>4, <3>5, <3>6, <3>9
  <2>2. CASE r \notin NextBatch
    <3>1. r \in DOMAIN log /\ k[r] = log[r]
      BY <1>8, <1>12, <2>2
    <3>2. PICK n : n = k[r].seq
      OBVIOUS
    <3>3. /\ n \in h.anchor + 1..h.seq /\ h.hash[n] = r
          /\ Opens(k[r].prev, h.hash, n - 1) /\ k[r].hash = Append(k[r].prev, r)
      BY <1>3, <1>12, <3>1, <3>2 DEF Chained
    <3>4. n \in base + 1..top + size /\ n \in 1..top + size /\ n <= top /\ n - 1 \in Nat
      BY <1>6, <3>3
    <3>5. g.hash[n] = r
      BY <1>7, <3>3, <3>4
    <3>6. Opens(k[r].prev, g.hash, n - 1)
      BY <1>2, <1>4, <1>5, <3>3, <3>4, OpensLonger
    <3> QED
      BY <1>6, <3>2, <3>3, <3>4, <3>5, <3>6
  <2> QED
    BY <2>1, <2>2
<1>13. g.anchor <= g.seq /\ Len(g.hash) = g.seq
  BY <1>7, <1>6
<1>14. Chained(k, g, c)
  BY <1>10, <1>11, <1>12, <1>13 DEF Chained
<1> QED
  BY <1>1, <1>14

-----------------------------------------------------------------------------
(* The steps: purging.                                                     *)

\* What is past its retention is a prefix of what is stored.
LEMMA PrefixDown ==
  ASSUME LogInv, NEW c \in Chain, NEW r \in ExpiredPrefix(c), NEW x \in Sealed(c),
         log[x].seq <= log[r].seq
  PROVE  x \in ExpiredPrefix(c)
<1> DEFINE kept == {log[q].seq : q \in {y \in Sealed(c) : ~Expired(y)}}
<1>1. \A q \in Sealed(c) : log[q].seq \in Nat
  BY LogsAre DEF LogInv, LogTypeOK, Sealed, AuditRow
<1>2. kept \subseteq Nat
  BY <1>1
<1>3. r \in Sealed(c) /\ (kept # {} => log[r].seq < Min(kept))
  BY DEF ExpiredPrefix
<1> HIDE DEF kept
<1>4. ASSUME kept # {} PROVE log[x].seq < Min(kept)
  <2>1. \E m \in kept : \A y \in kept : m <= y
    BY <1>2, <1>4, LeastOf
  <2>2. Min(kept) \in Nat
    BY <1>2, <2>1 DEF Min
  <2>3. PICK a, b, m : a = log[x].seq /\ b = log[r].seq /\ m = Min(kept)
    OBVIOUS
  <2>4. a \in Nat /\ b \in Nat /\ m \in Nat /\ a <= b /\ b < m
    BY <1>1, <1>3, <1>4, <2>2, <2>3
  <2>5. a < m
    BY ONLY <2>4
  <2> QED
    BY <2>3, <2>5
<1> USE DEF kept
<1> QED
  BY <1>4 DEF ExpiredPrefix

LEMMA PurgeCuts ==
  ASSUME LogInv, PurgeAuditLog, NEW c \in Chain
  PROVE  heads'[c] \in ChainHead /\ heads'[c].hash = heads[c].hash /\ Chained(log', heads'[c], c)
<1>1. PICK prefix, h, g, k :
        prefix = ExpiredPrefix(c) /\ h = heads[c] /\ g = heads'[c] /\ k = log'
  OBVIOUS
<1>2. h \in ChainHead /\ Chained(log, h, c) /\ log \in Logs /\ log \in [DOMAIN log -> AuditRow]
  BY <1>1, LogsAre DEF LogInv, LogTypeOK, History
<1>3. h.seq \in Nat /\ h.anchor \in Nat /\ h.hash \in Seq(Nat) /\ Len(h.hash) = h.seq /\ h.anchor <= h.seq
  BY <1>2 DEF ChainHead, Chained
<1>4. prefix \subseteq Sealed(c) /\ Sealed(c) = {r \in DOMAIN log : log[r].chain = c /\ log[r].seq > 0}
  BY <1>1 DEF ExpiredPrefix, Sealed
<1>5. ASSUME NEW r \in Sealed(c)
      PROVE  /\ log[r].seq \in h.anchor + 1..h.seq /\ h.hash[log[r].seq] = r
             /\ Opens(log[r].hash, h.hash, log[r].seq)
             /\ log[r].hash \in Seq(Nat)
  <2>1. r \in DOMAIN log /\ log[r].chain = c /\ log[r].seq > 0
    BY <1>4
  <2>2. log[r].hash \in Seq(Nat)
    BY <1>2, <2>1 DEF AuditRow
  <2> QED
    BY <1>2, <2>1, <2>2, RowHash
\* Of this chain exactly the prefix goes.
<1>6. ASSUME NEW r \in DOMAIN log, log[r].chain = c, log[r].seq > 0
      PROVE  r \in DOMAIN k <=> r \notin prefix
  <2>1. r \notin Unsealed
    BY <1>6 DEF Unsealed
  <2>2. \A d \in Chain : r \in ExpiredPrefix(d) => d = c
    BY <1>6 DEF ExpiredPrefix, Sealed
  <2> QED
    BY <1>1, <1>6, <2>1, <2>2 DEF PurgeAuditLog, Without
<1>7. DOMAIN k \subseteq DOMAIN log /\ \A r \in DOMAIN k : k[r] = log[r]
  BY <1>1 DEF PurgeAuditLog, Without
<1>8. g = Anchored(c)
  BY <1>1 DEF PurgeAuditLog
<1>9. CASE prefix = {}
  <2>1. g = h
    BY <1>1, <1>8, <1>9 DEF Anchored
  <2>2. Chained(k, h, c)
    <3>1. \A r \in DOMAIN log : log[r].chain = c /\ log[r].seq > 0 => r \in DOMAIN k /\ k[r] = log[r]
      BY <1>6, <1>7, <1>9
    <3>2. \A r \in DOMAIN k : k[r].chain = c /\ k[r].seq > 0 => r \in DOMAIN log /\ k[r] = log[r]
      BY <1>7
    <3> QED
      BY <1>2, <3>1, <3>2, SameChain
  <2> QED
    BY <1>1, <1>2, <2>1, <2>2
<1>10. CASE prefix # {}
  <2> DEFINE last == {r \in prefix : \A x \in prefix : log[x].seq <= log[r].seq}
  <2>1. last # {}
    <3> DEFINE seqs == {log[r].seq : r \in prefix}
    <3>1. seqs \in SUBSET Nat /\ seqs # {} /\ \A n \in seqs : n <= h.seq
      BY <1>3, <1>4, <1>5, <1>10
    <3> HIDE DEF seqs
    <3>2. PICK m \in seqs : \A n \in seqs : n <= m
      BY <1>3, <3>1, GreatestOf
    <3> USE DEF seqs
    <3>3. PICK r \in prefix : log[r].seq = m
      BY <3>2
    <3> QED
      BY <3>2, <3>3
  <2>2. PICK r : r = CHOOSE x \in last : TRUE
    OBVIOUS
  <2>3. r \in prefix /\ \A x \in prefix : log[x].seq <= log[r].seq
    BY <2>1, <2>2
  <2>4. g = [h EXCEPT !.anchor = log[r].seq, !.anchorHash = log[r].hash]
    BY <1>1, <1>8, <2>1, <2>2 DEF Anchored
  <2>5. PICK a, s : a = log[r].seq /\ s = log[r].hash
    OBVIOUS
  <2>6. a \in Nat /\ a \in h.anchor + 1..h.seq /\ h.hash[a] = r /\ Opens(s, h.hash, a) /\ s \in Seq(Nat)
    BY <1>3, <1>4, <1>5, <2>3, <2>5
  <2>7. /\ g.anchor = a /\ g.anchorHash = s /\ g.seq = h.seq /\ g.hash = h.hash
        /\ g \in ChainHead
    BY <1>2, <2>4, <2>5, <2>6 DEF ChainHead
  <2>8. ASSUME NEW x \in Sealed(c) PROVE x \in prefix <=> log[x].seq <= a
    BY <1>1, <2>3, <2>5, <2>8, PrefixDown
  <2>9. ASSUME NEW n \in g.anchor + 1..g.seq
        PROVE  g.hash[n] \in DOMAIN k /\ k[g.hash[n]].chain = c /\ k[g.hash[n]].seq = n
    <3>1. PICK x : x = h.hash[n]
      OBVIOUS
    <3>2. n \in h.anchor + 1..h.seq /\ ~(n <= a) /\ n > 0
      BY <1>3, <2>6, <2>7, <2>9
    <3>3. x \in DOMAIN log /\ log[x].chain = c /\ log[x].seq = n
      BY <1>2, <3>1, <3>2 DEF Chained
    <3>4. x \in Sealed(c)
      BY <1>4, <3>2, <3>3
    <3>5. x \in DOMAIN k
      BY <1>6, <2>8, <3>2, <3>3, <3>4
    <3> QED
      BY <1>7, <2>7, <3>1, <3>3, <3>5
  <2>10. ASSUME NEW x \in DOMAIN k, k[x].chain = c, k[x].seq > 0
         PROVE  /\ k[x].seq \in g.anchor + 1..g.seq /\ g.hash[k[x].seq] = x
                /\ Opens(k[x].prev, g.hash, k[x].seq - 1)
                /\ k[x].hash = Append(k[x].prev, x)
    <3>1. x \in DOMAIN log /\ k[x] = log[x] /\ x \in Sealed(c)
      BY <1>4, <1>7, <2>10
    <3>2. x \notin prefix
      BY <1>6, <2>10, <3>1
    <3>3. PICK n : n = k[x].seq
      OBVIOUS
    <3>4. n \in h.anchor + 1..h.seq /\ ~(n <= a)
      BY <1>5, <2>8, <3>1, <3>2, <3>3
    <3>5. n \in a + 1..h.seq
      BY <1>3, <2>6, <3>4
    <3> QED
      BY <1>2, <2>7, <2>10, <3>1, <3>3, <3>5 DEF Chained
  <2>11. g.anchor <= g.seq /\ Len(g.hash) = g.seq /\ Opens(g.anchorHash, g.hash, g.anchor)
    BY <1>3, <2>6, <2>7
  <2>12. Chained(k, g, c)
    BY <2>9, <2>10, <2>11 DEF Chained
  <2> QED
    BY <1>1, <2>7, <2>12
<1> QED
  BY <1>9, <1>10

-----------------------------------------------------------------------------
(* The verification and the rehearsal.                                     *)

\* A chain that is one passes.
LEMMA ChainedIsIntact ==
  ASSUME LogInv, NEW c \in Chain
  PROVE  Intact(c, heads[c])
<1>1. PICK h : h = heads[c]
  OBVIOUS
<1>2. h \in ChainHead /\ Chained(log, h, c) /\ log \in Logs /\ log \in [DOMAIN log -> AuditRow]
  BY <1>1, LogsAre DEF LogInv, LogTypeOK, History
<1>3. h.seq \in Nat /\ h.anchor \in Nat /\ h.hash \in Seq(Nat) /\ Len(h.hash) = h.seq /\ h.anchor <= h.seq
      /\ Opens(h.anchorHash, h.hash, h.anchor)
  BY <1>2 DEF ChainHead, Chained
<1>4. Sealed(c) = {r \in DOMAIN log : log[r].chain = c /\ log[r].seq > 0}
  BY DEF Sealed
<1> DEFINE before(n) == IF n = h.anchor + 1 THEN {h.anchorHash}
                        ELSE {log[r].hash : r \in At(c, n - 1)}
\* What a hash of n rows has to be found in.
<1>5. ASSUME NEW n \in Nat, h.anchor <= n, n <= h.seq, NEW s, Opens(s, h.hash, n)
      PROVE  s \in before(n + 1)
  <2>1. CASE n = h.anchor
    <3>1. s = h.anchorHash
      BY <1>3, <1>5, <2>1, OpensOnce
    <3> QED
      BY <2>1, <3>1
  <2>2. CASE n # h.anchor
    <3>1. n \in h.anchor + 1..h.seq /\ n > 0 /\ (n + 1) - 1 = n /\ n + 1 # h.anchor + 1
      BY <1>3, <1>5, <2>2
    <3>2. PICK q : q = h.hash[n]
      OBVIOUS
    <3>3. q \in DOMAIN log /\ log[q].chain = c /\ log[q].seq = n
      BY <1>2, <3>1, <3>2 DEF Chained
    <3>4. q \in At(c, n)
      BY <1>4, <3>1, <3>3 DEF At
    <3>5. log[q].hash = s
      BY <1>2, <1>5, <3>1, <3>2, HashAt
    <3> QED
      BY <3>1, <3>4, <3>5
  <2> QED
    BY <2>1, <2>2
<1>6. ASSUME NEW r \in Sealed(c)
      PROVE  /\ log[r].seq \in h.anchor + 1..h.seq
             /\ log[r].prev \in before(log[r].seq) /\ log[r].hash = Append(log[r].prev, r)
  <2>1. PICK n : n = log[r].seq
    OBVIOUS
  <2>2. /\ n \in h.anchor + 1..h.seq /\ Opens(log[r].prev, h.hash, n - 1)
        /\ log[r].hash = Append(log[r].prev, r)
    BY <1>2, <1>4, <2>1 DEF Chained
  <2>3. n - 1 \in Nat /\ h.anchor <= n - 1 /\ n - 1 <= h.seq /\ (n - 1) + 1 = n
    BY <1>3, <2>2
  <2>4. log[r].prev \in before((n - 1) + 1)
    BY <1>5, <2>2, <2>3
  <2> QED
    BY <2>1, <2>2, <2>3, <2>4
<1>7. h.hash \in before(h.seq + 1)
  <2>1. Opens(h.hash, h.hash, h.seq)
    BY <1>3, OpensItself
  <2> QED
    BY <1>3, <1>5, <2>1
<1>8. {log[r].seq : r \in Sealed(c)} = h.anchor + 1..h.seq
  <2>1. ASSUME NEW n \in h.anchor + 1..h.seq PROVE \E r \in Sealed(c) : log[r].seq = n
    <3>1. PICK q : q = h.hash[n]
      OBVIOUS
    <3>2. q \in DOMAIN log /\ log[q].chain = c /\ log[q].seq = n /\ n > 0
      BY <1>2, <1>3, <2>1, <3>1 DEF Chained
    <3> QED
      BY <1>4, <3>2
  <2>2. \A r \in Sealed(c) : log[r].seq \in h.anchor + 1..h.seq
    BY <1>6
  <2> QED
    BY <2>1, <2>2
<1> HIDE DEF before
<1>9. \A r \in Sealed(c) : log[r].prev \in before(log[r].seq) /\ log[r].hash = Append(log[r].prev, r)
  BY <1>6
<1> USE DEF before
<1> QED
  BY <1>1, <1>7, <1>8, <1>9 DEF Intact

LEMMA RecordedPresent ==
  ASSUME LogInv
  PROVE  BackupHeadsPresent
<1>1. SUFFICES ASSUME NEW b \in recorded, b.seq > heads[b.chain].anchor
               PROVE  \E r \in At(b.chain, b.seq) : log[r].hash = b.hash
  BY DEF BackupHeadsPresent
<1>2. PICK c, h, n : c = b.chain /\ h = heads[c] /\ n = b.seq
  OBVIOUS
<1>3. c \in Chain /\ n \in Nat /\ Opens(b.hash, h.hash, n)
  BY <1>2 DEF LogInv, LogTypeOK, Noted, History
<1>4. h \in ChainHead /\ Chained(log, h, c) /\ log \in Logs
  BY <1>2, <1>3 DEF LogInv, LogTypeOK, History
<1>5. h.seq \in Nat /\ h.anchor \in Nat /\ Len(h.hash) = h.seq
  BY <1>4 DEF ChainHead, Chained
<1>6. n \in h.anchor + 1..h.seq /\ n > 0
  BY <1>1, <1>2, <1>3, <1>5 DEF Opens
<1>7. PICK q : q = h.hash[n]
  OBVIOUS
<1>8. q \in DOMAIN log /\ log[q].chain = c /\ log[q].seq = n
  BY <1>4, <1>6, <1>7 DEF Chained
<1>9. log[q].hash = b.hash
  BY <1>3, <1>4, <1>6, <1>7, HashAt
<1> QED
  BY <1>2, <1>6, <1>8, <1>9 DEF At, Sealed

\* Two accounts of one history: where a backup's head is found, it is a beginning of
\* the live chain, and where it is one it is found.
LEMMA SameLineOpens ==
  ASSUME LogInv, NEW i \in DOMAIN dumps, NEW c \in Comparable(dumps[i]), SameLine(dumps[i], c)
  PROVE  Opens(dumps[i].heads[c].hash, heads[c].hash, dumps[i].heads[c].seq)
<1>1. PICK h, head : h = heads[c] /\ head = dumps[i].heads[c]
  OBVIOUS
<1>2. c \in Chain
  BY DEF Comparable
<1>3. h \in ChainHead /\ Chained(log, h, c) /\ log \in Logs
  BY <1>1, <1>2 DEF LogInv, LogTypeOK, History
<1>4. \/ head.seq = h.anchor /\ head.hash = h.anchorHash
      \/ \E r \in At(c, head.seq) : log[r].hash = head.hash
  BY <1>1 DEF SameLine
<1>5. CASE head.seq = h.anchor /\ head.hash = h.anchorHash
  BY <1>1, <1>3, <1>5 DEF Chained
<1>6. CASE \E r \in At(c, head.seq) : log[r].hash = head.hash
  <2>1. PICK r \in At(c, head.seq) : log[r].hash = head.hash
    BY <1>6
  <2>2. r \in DOMAIN log /\ log[r].chain = c /\ log[r].seq > 0 /\ log[r].seq = head.seq
    BY <2>1 DEF At, Sealed
  <2>3. Opens(log[r].hash, h.hash, log[r].seq)
    BY <1>3, <2>2, RowHash
  <2> QED
    BY <1>1, <2>1, <2>2, <2>3
<1> QED
  BY <1>4, <1>5, <1>6

LEMMA OpensSameLine ==
  ASSUME LogInv, NEW i \in DOMAIN dumps, NEW c \in Comparable(dumps[i]),
         Opens(dumps[i].heads[c].hash, heads[c].hash, dumps[i].heads[c].seq)
  PROVE  SameLine(dumps[i], c)
<1>1. PICK h, head, n : h = heads[c] /\ head = dumps[i].heads[c] /\ n = head.seq
  OBVIOUS
<1>2. c \in Chain /\ n >= h.anchor
  BY <1>1 DEF Comparable
<1>3. h \in ChainHead /\ Chained(log, h, c) /\ log \in Logs
  BY <1>1, <1>2 DEF LogInv, LogTypeOK, History
<1>4. h.seq \in Nat /\ h.anchor \in Nat /\ Len(h.hash) = h.seq /\ Opens(h.anchorHash, h.hash, h.anchor)
  BY <1>3 DEF ChainHead, Chained
<1>5. n \in Nat
  <2>1. dumps[i] \in Snapshot
    BY DEF LogInv, LogTypeOK
  <2> QED
    BY <1>1, <1>2, <2>1 DEF Snapshot, ChainHead
<1>6. CASE n = h.anchor
  <2>1. head.hash = h.anchorHash
    BY <1>1, <1>4, <1>6, OpensOnce
  <2> QED
    BY <1>1, <1>6, <2>1 DEF SameLine
<1>7. CASE n # h.anchor
  <2>1. n \in h.anchor + 1..h.seq /\ n > h.anchor /\ n > 0
    BY <1>1, <1>2, <1>4, <1>5, <1>7 DEF Opens
  <2>2. PICK q : q = h.hash[n]
    OBVIOUS
  <2>3. q \in DOMAIN log /\ log[q].chain = c /\ log[q].seq = n
    BY <1>3, <2>1, <2>2 DEF Chained
  <2>4. log[q].hash = head.hash
    BY <1>1, <1>3, <2>1, <2>2, HashAt
  <2>5. q \in At(c, n)
    BY <2>1, <2>3 DEF At, Sealed
  <2> QED
    BY <1>1, <2>1, <2>4, <2>5 DEF SameLine
<1> QED
  BY <1>6, <1>7

-----------------------------------------------------------------------------
(* What each step leaves of LogInv.                                        *)

LEMMA EmptyLog == DOMAIN <<>> = {} /\ <<>> \in Logs
<1>1. <<>> \in Seq(AuditRow) /\ Len(<<>>) = 0
  BY EmptySeq
<1>2. PICK e : e = <<>>
  OBVIOUS
<1>3. e \in [1..0 -> AuditRow] /\ DOMAIN e = 1..0
  BY <1>1, <1>2, LenProperties
<1>4. 1..0 = {}
  OBVIOUS
<1>5. IsFiniteSet(DOMAIN e) /\ DOMAIN e \subseteq Nat /\ e \in [DOMAIN e -> AuditRow]
  BY <1>3, <1>4, FS_EmptySet
<1> QED
  BY <1>2, <1>3, <1>4, <1>5, LogsAre

LEMMA LogStart == LogInit => LogInv
<1> SUFFICES ASSUME LogInit PROVE LogInv
  OBVIOUS
<1>1. <<>> \in Seq(Nat) /\ Len(<<>>) = 0 /\ <<>> \in Seq(Snapshot) /\ DOMAIN <<>> = {}
  BY EmptySeq
<1>2. log \in Logs /\ pending \in Logs
  BY EmptyLog DEF LogInit
<1>3. heads \in [Chain -> ChainHead]
  BY <1>1 DEF LogInit, ChainHead
<1>4. LogTypeOK
  BY <1>1, <1>2, <1>3 DEF LogInit, LogTypeOK
<1>5. ASSUME NEW c \in Chain PROVE Chained(log, heads[c], c)
  <2>1. PICK h : h = heads[c]
    OBVIOUS
  <2>2. h.seq = 0 /\ h.anchor = 0 /\ h.hash = <<>> /\ h.anchorHash = <<>>
    BY <2>1 DEF LogInit
  <2>3. Opens(<<>>, <<>>, 0)
    BY <1>1 DEF Opens
  <2>4. h.anchor + 1..h.seq = {} /\ DOMAIN log = {}
    BY <1>1, <2>2 DEF LogInit
  <2> QED
    BY <1>1, <2>1, <2>2, <2>3, <2>4 DEF Chained
<1> QED
  BY <1>1, <1>4, <1>5 DEF LogInit, LogInv, History, PendingUnsealed, DumpsSound

\* A step that leaves the sealed rows, the heads and the backups alone.
LEMMA QuietLog ==
  ASSUME LogInv, UNCHANGED <<heads, recorded, dumps>>, ~alarm', alarm' \in BOOLEAN, day' \in Nat,
         verifier' \in {NoHeads, heads'}, log' \in Logs, pending' \in Logs, PendingUnsealed',
         \A r \in DOMAIN log : r \in DOMAIN log' /\ log'[r] = log[r],
         \A r \in DOMAIN log' : log'[r].seq > 0 => r \in DOMAIN log
  PROVE  LogInv'
<1>1. ASSUME NEW c \in Chain PROVE Chained(log', heads'[c], c)
  <2>1. PICK h, k : h = heads[c] /\ k = log'
    OBVIOUS
  <2>2. h \in ChainHead /\ Chained(log, h, c)
    BY <2>1 DEF LogInv, LogTypeOK, History
  <2>3. \A r \in DOMAIN log : log[r].chain = c /\ log[r].seq > 0 => r \in DOMAIN k /\ k[r] = log[r]
    BY <2>1
  <2>4. \A r \in DOMAIN k : k[r].chain = c /\ k[r].seq > 0 => r \in DOMAIN log /\ k[r] = log[r]
    BY <2>1
  <2>5. Chained(k, h, c)
    BY <2>2, <2>3, <2>4, SameChain
  <2> QED
    BY <2>1, <2>5
<1>2. History(log, heads, recorded)'
  BY <1>1 DEF LogInv, History
<1>3. DumpsSound'
  BY DEF LogInv, DumpsSound
<1>4. LogTypeOK'
  BY DEF LogInv, LogTypeOK
<1> QED
  BY <1>2, <1>3, <1>4 DEF LogInv

\* A new row's number is above all there are.
LEMMA FreshRow ==
  ASSUME LogInv, NEW r, r = Max(Used \cup {0}) + 1
  PROVE  r \in Nat /\ r \notin DOMAIN log /\ r \notin DOMAIN pending
<1>1. /\ IsFiniteSet(DOMAIN log) /\ DOMAIN log \subseteq Nat
      /\ IsFiniteSet(DOMAIN pending) /\ DOMAIN pending \subseteq Nat
  BY LogsAre DEF LogInv, LogTypeOK
<1>2. PICK books : books = {DOMAIN d.log : d \in Range(dumps)}
  OBVIOUS
<1>3. /\ IsFiniteSet(books)
      /\ \A D \in books : IsFiniteSet(D) /\ D \subseteq Nat
  <2> DEFINE domains == [i \in DOMAIN dumps |-> DOMAIN dumps[i].log]
  <2>1. Len(dumps) \in Nat /\ DOMAIN dumps = 1..Len(dumps) /\ \A i \in DOMAIN dumps : dumps[i] \in Snapshot
    BY DEF LogInv, LogTypeOK
  <2>2. books = {domains[i] : i \in DOMAIN dumps}
    BY <1>2 DEF Range
  <2>3. IsFiniteSet(DOMAIN dumps)
    BY <2>1, FS_Interval
  <2>4. \A i \in DOMAIN dumps : IsFiniteSet(domains[i]) /\ domains[i] \subseteq Nat
    BY <2>1, LogsAre DEF Snapshot
  <2> HIDE DEF domains
  <2>5. IsFiniteSet({domains[i] : i \in DOMAIN dumps})
    BY <2>3, ImageIsFinite
  <2> QED
    BY <2>2, <2>4, <2>5
<1>4. PICK live : live = {DOMAIN log, DOMAIN pending}
  OBVIOUS
<1>5. IsFiniteSet(live) /\ \A D \in live : IsFiniteSet(D) /\ D \subseteq Nat
  <2>1. IsFiniteSet({DOMAIN log})
    BY FS_Singleton
  <2>2. IsFiniteSet({DOMAIN log} \cup {DOMAIN pending})
    BY <2>1, FS_AddElement
  <2>3. live = {DOMAIN log} \cup {DOMAIN pending}
    BY <1>4
  <2> QED
    BY <1>1, <1>4, <2>2, <2>3
<1>6. IsFiniteSet(live \cup books) /\ \A D \in live \cup books : IsFiniteSet(D) /\ D \subseteq Nat
  BY <1>3, <1>5, FS_Union
<1>7. Used = UNION (live \cup books)
  BY <1>2, <1>4 DEF Used
<1>8. IsFiniteSet(Used) /\ Used \subseteq Nat
  BY <1>6, <1>7, FS_UNION
<1>9. PICK S : S = Used \cup {0}
  OBVIOUS
<1>10. IsFiniteSet(S) /\ S \in SUBSET Nat /\ S # {}
  BY <1>8, <1>9, FS_AddElement
<1>11. \E m \in S : \A x \in S : x <= m
  BY <1>10, FiniteGreatest
<1>12. Max(S) \in S /\ \A x \in S : Max(S) >= x
  <2>1. \E m \in S : \A x \in S : m >= x
    BY <1>10, <1>11
  <2> QED
    BY <2>1 DEF Max
<1>13. r \in Nat /\ \A x \in Used : x # r
  <2>1. PICK m : m = Max(S)
    OBVIOUS
  <2>2. m \in Nat /\ r = m + 1
    BY <1>9, <1>10, <1>12, <2>1
  <2>3. ASSUME NEW x \in Used PROVE x # r
    <3>1. x \in Nat /\ x <= m
      BY <1>8, <1>9, <1>12, <2>1, <2>2
    <3> QED
      BY <2>2, <3>1
  <2> QED
    BY <2>2, <2>3
<1>14. DOMAIN log \subseteq Used /\ DOMAIN pending \subseteq Used
  BY <1>4, <1>7
<1> QED
  BY <1>13, <1>14

LEMMA AddKeeps ==
  ASSUME LogInv, NEW c \in Chain, AddAudit(c)
  PROVE  LogInv'
<1>1. PICK r : r = Max(Used \cup {0}) + 1
  OBVIOUS
<1>2. r \in Nat /\ r \notin DOMAIN log /\ r \notin DOMAIN pending
  BY <1>1, FreshRow
<1>3. PICK row : row = [chain |-> c, at |-> day, seq |-> 0, prev |-> <<>>, hash |-> <<>>]
  OBVIOUS
<1>4. row \in AuditRow /\ row.seq = 0
  BY <1>3, EmptySeq DEF LogInv, LogTypeOK, AuditRow
<1>5. /\ pending' = [x \in DOMAIN pending \cup {r} |-> IF x = r THEN row ELSE pending[x]]
      /\ UNCHANGED <<day, log, heads, recorded, verifier, alarm, dumps, restores>>
  BY <1>1, <1>3 DEF AddAudit
<1>6. pending' \in Logs
  <2>1. /\ IsFiniteSet(DOMAIN pending) /\ DOMAIN pending \subseteq Nat
        /\ pending \in [DOMAIN pending -> AuditRow]
    BY LogsAre DEF LogInv, LogTypeOK
  <2>2. DOMAIN pending' = DOMAIN pending \cup {r} /\ pending' \in [DOMAIN pending' -> AuditRow]
    BY <1>4, <1>5, <2>1
  <2>3. IsFiniteSet(DOMAIN pending') /\ DOMAIN pending' \subseteq Nat
    BY <1>2, <2>1, <2>2, FS_AddElement
  <2>4. PICK p : p = pending'
    OBVIOUS
  <2> QED
    BY <2>2, <2>3, <2>4, LogsAre
<1>7. PendingUnsealed'
  BY <1>2, <1>4, <1>5 DEF LogInv, PendingUnsealed
<1> QED
  BY <1>5, <1>6, <1>7, QuietLog DEF LogInv, LogTypeOK

LEMMA CommitKeeps ==
  ASSUME LogInv, NEW r, Commit(r)
  PROVE  LogInv'
<1>1. /\ r \in DOMAIN pending /\ r \notin DOMAIN log /\ pending[r].seq = 0
      /\ log' = [x \in DOMAIN log \cup {r} |-> IF x = r THEN pending[r] ELSE log[x]]
      /\ pending' = [x \in DOMAIN pending \ {r} |-> pending[x]]
      /\ UNCHANGED <<day, heads, recorded, verifier, alarm, dumps, restores>>
  BY DEF LogInv, PendingUnsealed, Commit, Without
<1>2. /\ IsFiniteSet(DOMAIN pending) /\ DOMAIN pending \subseteq Nat
      /\ pending \in [DOMAIN pending -> AuditRow]
      /\ IsFiniteSet(DOMAIN log) /\ DOMAIN log \subseteq Nat /\ log \in [DOMAIN log -> AuditRow]
  BY LogsAre DEF LogInv, LogTypeOK
<1>3. PICK l, p : l = log' /\ p = pending'
  OBVIOUS
<1>4. l \in Logs
  <2>1. DOMAIN l = DOMAIN log \cup {r} /\ l \in [DOMAIN l -> AuditRow]
    BY <1>1, <1>2, <1>3
  <2>2. IsFiniteSet(DOMAIN l) /\ DOMAIN l \subseteq Nat
    BY <1>1, <1>2, <2>1, FS_AddElement
  <2> QED
    BY <2>1, <2>2, LogsAre
<1>5. p \in Logs
  <2>1. DOMAIN p = DOMAIN pending \ {r} /\ p \in [DOMAIN p -> AuditRow]
    BY <1>1, <1>2, <1>3
  <2>2. IsFiniteSet(DOMAIN p) /\ DOMAIN p \subseteq Nat
    BY <1>2, <2>1, FS_Subset
  <2> QED
    BY <2>1, <2>2, LogsAre
<1>6. PendingUnsealed'
  BY <1>1 DEF LogInv, PendingUnsealed
<1>7. /\ \A x \in DOMAIN log : x \in DOMAIN log' /\ log'[x] = log[x]
      /\ \A x \in DOMAIN log' : log'[x].seq > 0 => x \in DOMAIN log
  BY <1>1
<1> QED
  BY <1>1, <1>3, <1>4, <1>5, <1>6, <1>7, QuietLog DEF LogInv, LogTypeOK

\* Sealing and purging: the chains are shown to be whole again, what is recorded stays a
\* beginning of them.
LEMMA ChainsMove ==
  ASSUME LogInv, HeadsFree, UNCHANGED <<day, pending, recorded, verifier, alarm, dumps>>,
         log' \in Logs, DOMAIN log' \subseteq DOMAIN log, heads' \in [Chain -> ChainHead],
         \A c \in Chain : Chained(log', heads'[c], c),
         \A c \in Chain, n \in Nat : \A s :
           Opens(s, heads[c].hash, n) => Opens(s, heads'[c].hash, n)
  PROVE  LogInv'
<1>1. ASSUME NEW b \in recorded PROVE Opens(b.hash, heads'[b.chain].hash, b.seq)
  <2>1. b.chain \in Chain /\ b.seq \in Nat /\ Opens(b.hash, heads[b.chain].hash, b.seq)
    BY DEF LogInv, LogTypeOK, Noted, History
  <2> QED
    BY <2>1
<1>2. History(log, heads, recorded)'
  BY <1>1 DEF History
<1>3. PendingUnsealed' /\ DumpsSound'
  BY DEF LogInv, PendingUnsealed, DumpsSound
<1>4. LogTypeOK'
  BY DEF LogInv, LogTypeOK, HeadsFree
<1> QED
  BY <1>2, <1>3, <1>4 DEF LogInv

LEMMA SealKeeps ==
  ASSUME LogInv, SealAuditBatch
  PROVE  LogInv'
<1>1. /\ HeadsFree /\ UNCHANGED <<day, pending, recorded, verifier, alarm, dumps>>
      /\ log' = [r \in DOMAIN log |-> IF r \in NextBatch THEN Linked(r) ELSE log[r]]
  BY DEF SealAuditBatch
<1>2. /\ IsFiniteSet(DOMAIN log) /\ DOMAIN log \subseteq Nat /\ log \in [DOMAIN log -> AuditRow]
  BY LogsAre DEF LogInv, LogTypeOK
<1>3. DOMAIN log' = DOMAIN log
  BY <1>1
<1>4. ASSUME NEW r \in DOMAIN log PROVE log'[r] \in AuditRow
  <2>1. CASE r \in NextBatch
    BY <2>1, SealRow
  <2>2. CASE r \notin NextBatch
    BY <1>1, <1>2, <2>2
  <2> QED
    BY <2>1, <2>2
<1>5. log' \in [DOMAIN log -> AuditRow]
  BY <1>1, <1>4
<1>6. PICK l : l = log'
  OBVIOUS
<1>7. l \in Logs
  BY <1>2, <1>3, <1>5, <1>6, LogsAre
<1>8. heads' \in [Chain -> ChainHead]
  <2>1. \A c \in Chain : heads'[c] \in ChainHead
    BY SealMakes
  <2>2. DOMAIN heads' = Chain /\ heads' = [c \in Chain |-> heads'[c]]
    BY DEF SealAuditBatch
  <2> QED
    BY <2>1, <2>2
<1>9. \A c \in Chain : Chained(log', heads'[c], c)
  BY SealContinues
<1>10. ASSUME NEW c \in Chain, NEW n \in Nat, NEW s, Opens(s, heads[c].hash, n)
       PROVE  Opens(s, heads'[c].hash, n)
  <2>1. /\ heads'[c].hash = heads[c].hash \o ById(Share(c))
        /\ Share(c) \subseteq Nat /\ IsFiniteSet(Share(c))
    BY SealMakes
  <2>2. PICK t, u : t = heads[c].hash /\ u = ById(Share(c))
    OBVIOUS
  <2>3. t \in Seq(Nat) /\ u \in Seq(Nat)
    BY <2>1, <2>2, SortedRows DEF LogInv, LogTypeOK, ChainHead
  <2>4. Opens(s, t \o u, n)
    BY <1>10, <2>2, <2>3, OpensLonger
  <2> QED
    BY <2>1, <2>2, <2>4
<1> QED
  BY <1>1, <1>3, <1>6, <1>7, <1>8, <1>9, <1>10, ChainsMove

LEMMA PurgeKeeps ==
  ASSUME LogInv, PurgeAuditLog
  PROVE  LogInv'
<1>1. PICK gone : /\ HeadsFree /\ UNCHANGED <<day, pending, recorded, verifier, alarm, dumps>>
                  /\ log' = [r \in DOMAIN log \ gone |-> log[r]]
  BY DEF PurgeAuditLog, Without
<1>2. /\ IsFiniteSet(DOMAIN log) /\ DOMAIN log \subseteq Nat /\ log \in [DOMAIN log -> AuditRow]
  BY LogsAre DEF LogInv, LogTypeOK
<1>3. PICK l : l = log'
  OBVIOUS
<1>4. DOMAIN l = DOMAIN log \ gone /\ l \in [DOMAIN l -> AuditRow]
  BY <1>1, <1>2, <1>3
<1>5. IsFiniteSet(DOMAIN l) /\ DOMAIN l \subseteq Nat
  BY <1>2, <1>4, FS_Subset
<1>6. l \in Logs
  BY <1>4, <1>5, LogsAre
<1>7. heads' \in [Chain -> ChainHead]
  <2>1. \A c \in Chain : heads'[c] \in ChainHead
    BY PurgeCuts
  <2>2. DOMAIN heads' = Chain /\ heads' = [c \in Chain |-> heads'[c]]
    BY DEF PurgeAuditLog
  <2> QED
    BY <2>1, <2>2
<1>8. \A c \in Chain : Chained(log', heads'[c], c) /\ heads'[c].hash = heads[c].hash
  BY PurgeCuts
<1> QED
  BY <1>1, <1>3, <1>4, <1>6, <1>7, <1>8, ChainsMove

LEMMA VerifyKeeps ==
  ASSUME LogInv, VerifyAuditChain
  PROVE  LogInv'
<1>1. verifier = heads
  BY DEF VerifyAuditChain, LogInv, LogTypeOK
<1>2. \A c \in Chain : Intact(c, verifier[c])
  BY <1>1, ChainedIsIntact
<1>3. ~alarm' /\ alarm' \in BOOLEAN
  BY <1>2, RecordedPresent DEF VerifyAuditChain
<1>4. PendingUnsealed'
  BY DEF VerifyAuditChain, LogInv, PendingUnsealed
<1> QED
  BY <1>3, <1>4, QuietLog DEF VerifyAuditChain, LogInv, LogTypeOK

LEMMA BackupKeeps ==
  ASSUME LogInv, Backup
  PROVE  LogInv'
<1>1. PICK d : d = [log |-> log, heads |-> heads, recorded |-> recorded, alarm |-> alarm]
  OBVIOUS
<1>2. d \in Snapshot
  BY <1>1 DEF LogInv, LogTypeOK, Snapshot
<1>3. /\ dumps' = Append(dumps, d)
      /\ UNCHANGED <<day, pending, log, heads, recorded, verifier, alarm, restores>>
  BY <1>1 DEF Backup
<1>4. dumps \in Seq(Snapshot) /\ Len(dumps) \in Nat
  BY DEF LogInv, LogTypeOK
<1>5. /\ dumps' \in Seq(Snapshot) /\ Len(dumps') = Len(dumps) + 1
      /\ DOMAIN dumps' = 1..Len(dumps) + 1
      /\ \A i \in 1..Len(dumps) : dumps'[i] = dumps[i]
      /\ dumps'[Len(dumps) + 1] = d
  BY <1>2, <1>3, <1>4, AppendProperties
<1>6. ASSUME NEW i \in DOMAIN dumps'
      PROVE  ~dumps'[i].alarm /\ History(dumps'[i].log, dumps'[i].heads, dumps'[i].recorded)
  <2>1. CASE i = Len(dumps) + 1
    <3>1. dumps'[i] = d /\ d.log = log /\ d.heads = heads /\ d.recorded = recorded /\ d.alarm = alarm
      BY <1>1, <1>5, <2>1
    <3> QED
      BY <3>1 DEF LogInv
  <2>2. CASE i # Len(dumps) + 1
    <3>1. i \in DOMAIN dumps /\ dumps'[i] = dumps[i]
      BY <1>4, <1>5, <1>6, <2>2
    <3> QED
      BY <3>1 DEF LogInv, DumpsSound
  <2> QED
    BY <2>1, <2>2
<1>7. DumpsSound'
  BY <1>6 DEF DumpsSound
<1>8. LogTypeOK' /\ PendingUnsealed' /\ History(log, heads, recorded)' /\ ~alarm'
  BY <1>3, <1>5 DEF LogInv, LogTypeOK, PendingUnsealed, History
<1> QED
  BY <1>7, <1>8 DEF LogInv

LEMMA RecordKeeps ==
  ASSUME LogInv, NEW i, RecordAuditHeads(i)
  PROVE  LogInv'
<1>1. PICK d : d = dumps[i]
  OBVIOUS
<1>2. /\ i \in DOMAIN dumps /\ Rehearsable(d)
      /\ recorded' = recorded \cup {[chain |-> c, seq |-> d.heads[c].seq, hash |-> d.heads[c].hash] :
                                      c \in Comparable(d)}
      /\ UNCHANGED <<day, pending, log, heads, verifier, alarm, dumps, restores>>
  BY <1>1 DEF RecordAuditHeads
<1>3. d \in Snapshot
  BY <1>1, <1>2 DEF LogInv, LogTypeOK
<1>4. ASSUME NEW c \in Comparable(d)
      PROVE  /\ c \in Chain /\ d.heads[c].seq \in Nat /\ d.heads[c].hash \in Seq(Nat)
             /\ Opens(d.heads[c].hash, heads[c].hash, d.heads[c].seq)
  <2>1. c \in Chain
    BY DEF Comparable
  <2>2. d.heads[c] \in ChainHead
    BY <1>3, <2>1 DEF Snapshot
  <2>3. SameLine(d, c)
    BY <1>2 DEF Rehearsable
  <2> QED
    BY <1>1, <1>2, <2>1, <2>2, <2>3, SameLineOpens DEF ChainHead
<1>5. ASSUME NEW b \in recorded'
      PROVE  b \in Noted /\ Opens(b.hash, heads[b.chain].hash, b.seq)
  <2>1. CASE b \in recorded
    BY <2>1 DEF LogInv, LogTypeOK, History
  <2>2. CASE b \notin recorded
    <3>1. PICK c \in Comparable(d) :
            b = [chain |-> c, seq |-> d.heads[c].seq, hash |-> d.heads[c].hash]
      BY <1>2, <1>5, <2>2
    <3>2. b.chain = c /\ b.seq = d.heads[c].seq /\ b.hash = d.heads[c].hash
      BY <3>1
    <3>3. b \in Noted
      BY <1>4, <3>1 DEF Noted
    <3> QED
      BY <1>4, <3>2, <3>3
  <2> QED
    BY <2>1, <2>2
<1>6. History(log, heads, recorded)'
  BY <1>2, <1>5 DEF LogInv, History
<1>7. LogTypeOK'
  BY <1>2, <1>5 DEF LogInv, LogTypeOK
<1>8. PendingUnsealed' /\ DumpsSound' /\ ~alarm'
  BY <1>2 DEF LogInv, PendingUnsealed, DumpsSound
<1> QED
  BY <1>6, <1>7, <1>8 DEF LogInv

LEMMA RestoreKeeps ==
  ASSUME LogInv, NEW i, Restore(i)
  PROVE  LogInv'
<1>1. PICK d : d = dumps[i]
  OBVIOUS
<1>2. /\ i \in DOMAIN dumps /\ pending' = <<>> /\ verifier' = NoHeads
      /\ log' = d.log /\ heads' = d.heads /\ recorded' = d.recorded /\ alarm' = d.alarm
      /\ UNCHANGED <<day, dumps>>
  BY <1>1 DEF Restore
<1>3. d \in Snapshot /\ ~d.alarm /\ History(d.log, d.heads, d.recorded)
  BY <1>1, <1>2 DEF LogInv, LogTypeOK, DumpsSound
<1>4. /\ d.log \in Logs /\ d.heads \in [Chain -> ChainHead]
      /\ d.recorded \subseteq Noted /\ d.alarm \in BOOLEAN
  BY <1>3 DEF Snapshot
<1>5. DOMAIN <<>> = {} /\ <<>> \in Logs
  BY EmptyLog
<1>6. LogTypeOK'
  BY <1>2, <1>4, <1>5 DEF LogInv, LogTypeOK
<1>7. PendingUnsealed' /\ DumpsSound'
  BY <1>2, <1>5 DEF LogInv, PendingUnsealed, DumpsSound
<1>8. History(log, heads, recorded)' /\ ~alarm'
  BY <1>2, <1>3
<1> QED
  BY <1>6, <1>7, <1>8 DEF LogInv

LEMMA LogSteps == LogInv /\ [LogNext]_logVars => LogInv'
<1> SUFFICES ASSUME LogInv, [LogNext]_logVars PROVE LogInv'
  OBVIOUS
<1>1. ASSUME Tomorrow \/ StartVerify \/ AbandonVerify \/ UNCHANGED logVars PROVE LogInv'
  <2>1. /\ UNCHANGED <<log, pending, heads, recorded, dumps, alarm>>
        /\ day' \in Nat /\ verifier' \in {NoHeads, heads'}
    BY <1>1 DEF Tomorrow, StartVerify, AbandonVerify, logVars, LogInv, LogTypeOK
  <2>2. PendingUnsealed'
    BY <2>1 DEF LogInv, PendingUnsealed
  <2> QED
    BY <2>1, <2>2, QuietLog DEF LogInv, LogTypeOK
<1>2. ASSUME NEW c \in Chain, AddAudit(c) PROVE LogInv'
  BY <1>2, AddKeeps
<1>3. ASSUME NEW r \in RowId, Commit(r) PROVE LogInv'
  BY <1>3, CommitKeeps
<1>4. ASSUME SealAuditBatch PROVE LogInv'
  BY <1>4, SealKeeps
<1>5. ASSUME PurgeAuditLog PROVE LogInv'
  BY <1>5, PurgeKeeps
<1>6. ASSUME VerifyAuditChain PROVE LogInv'
  BY <1>6, VerifyKeeps
<1>7. ASSUME Backup PROVE LogInv'
  BY <1>7, BackupKeeps
<1>8. ASSUME NEW i \in 1..MaxDumps, RecordAuditHeads(i) PROVE LogInv'
  BY <1>8, RecordKeeps
<1>9. ASSUME NEW i \in 1..MaxDumps, Restore(i) PROVE LogInv'
  BY <1>9, RestoreKeeps
<1> QED
  BY <1>1, <1>2, <1>3, <1>4, <1>5, <1>6, <1>7, <1>8, <1>9 DEF LogNext

\* Rows that commit out of order, batches, purges, backups of any age and restores: a log
\* nobody tampered with is never reported as broken (VerifyAuditChain).
THEOREM NeverAFalseAlarm == LogSpec => []NoFalseAlarm
<1>1. LogSpec => []LogInv
  BY LogStart, LogSteps, PTL DEF LogSpec
<1>2. LogInv => NoFalseAlarm
  BY DEF LogInv, NoFalseAlarm
<1> QED
  BY <1>1, <1>2, PTL

\* A rehearsal refuses only a backup of another line: whatever the live chains continue
\* passes, no matter what was purged since (recordAuditHeads).
THEOREM BackupsOfThisLinePass == LogSpec => []OwnBackupsPass
<1>1. LogSpec => []LogInv
  BY LogStart, LogSteps, PTL DEF LogSpec
<1>2. ASSUME LogInv PROVE OwnBackupsPass
  <2>1. SUFFICES ASSUME NEW i \in DOMAIN dumps, NEW c \in Comparable(dumps[i]),
                        IsPrefix(dumps[i].heads[c].hash, heads[c].hash)
                 PROVE  SameLine(dumps[i], c)
    BY DEF OwnBackupsPass, Rehearsable, Comparable
  <2>2. PICK d, s, t : d = dumps[i] /\ s = d.heads[c].hash /\ t = heads[c].hash
    OBVIOUS
  <2>3. c \in Chain
    BY DEF Comparable
  <2>4. d \in Snapshot /\ History(d.log, d.heads, d.recorded)
    BY <1>2, <2>2 DEF LogInv, LogTypeOK, DumpsSound
  <2>5. d.heads[c] \in ChainHead /\ Len(s) = d.heads[c].seq
    BY <2>2, <2>3, <2>4 DEF Snapshot, History, Chained
  <2>6. s \in Seq(Nat) /\ t \in Seq(Nat)
    BY <1>2, <2>2, <2>3, <2>5 DEF ChainHead, LogInv, LogTypeOK
  <2>7. PICK n : n = Len(s)
    OBVIOUS
  <2>8. n \in Nat /\ n <= Len(t) /\ SubSeq(s, 1, n) = SubSeq(t, 1, n)
    BY <2>1, <2>2, <2>6, <2>7, LenProperties DEF IsPrefix
  <2>9. ASSUME NEW k \in 1..n PROVE s[k] = t[k]
    <3>1. SubSeq(s, 1, n)[k] = s[k] /\ SubSeq(t, 1, n)[k] = t[k]
      BY <2>6, <2>7, <2>8
    <3> QED
      BY <2>8, <3>1
  <2>10. Opens(s, t, n)
    BY <2>6, <2>7, <2>8, <2>9 DEF Opens
  <2> QED
    BY <1>2, <2>1, <2>2, <2>5, <2>7, <2>10, OpensSameLine
<1> QED
  BY <1>1, <1>2, PTL
=============================================================================
