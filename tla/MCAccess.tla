------------------------------ MODULE MCAccess ------------------------------
(***************************************************************************)
(* What administrators watch over, side by side for TLC: the accounts and  *)
(* their factors, the audit log with its chains, and the price bases with  *)
(* the recalculation.  They share no state; a behaviour asks about one and *)
(* leaves the others alone.                                                *)
(***************************************************************************)
EXTENDS SignIn, AuditChain, MCPriceBase

VARIABLE question

\* Two rows of one chain and one of the other; the day they are written, and one more.
MCRow == 1..3
MCWindow == [short |-> 0, long |-> 1]

\* Accounts are interchangeable, and so are requests; only safety uses it.
Symmetry == Permutations(Accounts) \cup Permutations(Workers)

\* Who begins with a passkey is an administrator who must have a second factor.
MCInit ==
  /\ question \in {"accounts", "audit", "prices"}
  /\ Init /\ LogInit /\ PricesInit
  /\ question # "accounts" => policy = {} /\ \A u \in Accounts : acct[u] = Born("admin")
  /\ question = "accounts" => policy # {} \/ \A u \in Accounts : acct[u].keys = {}

AccountsNext == question = "accounts" /\ Next /\ UNCHANGED <<logVars, priceVars>>
AuditNext == question = "audit" /\ LogNext /\ UNCHANGED <<vars, priceVars>>
PricesAction == question = "prices" /\ PricesNext /\ UNCHANGED <<vars, logVars>>

MCSpec ==
  MCInit /\ [][(AccountsNext \/ AuditNext \/ PricesAction) /\ UNCHANGED question]_<<
    question, vars, logVars, priceVars>>

\* The bounds of MCPriceBase; both backups are of the first day; and once there is a
\* backup one row in flight at a time, none between a second backup and the restore.
CalmAll ==
  /\ question = "prices" => Calm
  /\ (question = "audit" => day = 1 \/ Len(dumps) < 2)
  /\ question = "audit" /\ dumps # <<>> =>
       Cardinality(DOMAIN pending) <= IF Len(dumps) = MaxDumps /\ restores = 0 THEN 0 ELSE 1
=============================================================================
