----------------------------- MODULE WalletLedger -----------------------------
(***************************************************************************)
(* What wager processing promises to providers and players, without        *)
(* transactions, locks, retries or queues: an operation is accepted once,  *)
(* in one step that judges it against the account and the operations of    *)
(* that instant and settles it, or lets it wait for its reference; a       *)
(* waiting operation is settled later by one such step.                    *)
(*                                                                         *)
(* The one freedom a step has is about a reference that names an operation *)
(* of another wallet.  It can never be accepted, but whether it counts as  *)
(* missing or as wrong depends on when it was looked up, for the lock on   *)
(* the own wallet does not hold other wallets still.                       *)
(***************************************************************************)
EXTENDS WagerDomain

CONSTANTS Ids, Requests, Openings

VARIABLES
    accounts,     \* the balance of every wallet that exists
    operations    \* the operations accepted so far

vars == <<accounts, operations>>

With(f, x, v) == [y \in DOMAIN f \cup {x} |-> IF y = x THEN v ELSE f[y]]

-----------------------------------------------------------------------------
Named(r) == {t \in DOMAIN operations : /\ operations[t].req.provider = r.provider
                                       /\ operations[t].req.ext = r.ref}

Reversed(t) ==
    \E u \in DOMAIN operations : /\ operations[u].status = "PROCESSED"
                                 /\ operations[u].req.kind \in ReversalKinds
                                 /\ operations[u].refTx = t

\* Nothing that is settled in its own wallet answers to the reference.
MayWait(r) ==
    /\ r.ref # None
    /\ \A t \in Named(r) : \/ operations[t].status = "PENDING_REFERENCE"
                           \/ operations[t].req.wallet # r.wallet

\* The verdict on a settled operation t as the reference of r.
Verdict(r, t) ==
    LET judged == ReferenceFailure(r, operations[t].req)
    IN  CASE operations[t].status = "REJECTED"         -> "REFERENCE_NOT_PROCESSED"
          [] operations[t].status # "REJECTED" /\ judged # None -> judged
          [] /\ operations[t].status # "REJECTED" /\ judged = None
             /\ r.kind \in ReversalKinds /\ Reversed(t) -> "ALREADY_REVERSED"
          [] OTHER                                     -> None

\* r settled with a verdict: rejected, or applied to the account if that can
\* bear it.  A LOSS moves nothing.
Settled(r, t, verdict) ==
    LET balance == accounts[r.wallet]
        direction == Direction(r.kind, IF t = None THEN None ELSE operations[t].req.kind)
        failure == IF verdict # None \/ r.kind = "LOSS" THEN verdict
                   ELSE MovementFailure(r.kind, direction, balance, r.amount)
    IN  [req     |-> r,
         status  |-> IF failure = None THEN "PROCESSED" ELSE "REJECTED",
         failure |-> failure,
         refTx   |-> IF failure = None THEN t ELSE None,
         balance |-> IF failure = None /\ r.kind # "LOSS"
                     THEN Moved(direction, balance, r.amount) ELSE balance]

Settlements(r) ==
    IF r.ref = None THEN {Settled(r, None, None)}
    ELSE {Settled(r, t, Verdict(r, t)) :
             t \in {u \in Named(r) : operations[u].status \in Terminal}}

Waiting(r) == [req |-> r, status |-> "PENDING_REFERENCE", failure |-> None,
               refTx |-> None, balance |-> 0]

-----------------------------------------------------------------------------
Init == /\ accounts = [w \in {} |-> 0]
        /\ operations = [t \in {} |-> None]

\* The credit a wallet starts with.
Credit(o) ==
    [req     |-> [provider |-> None, key |-> None, ext |-> None,
                  wallet |-> o.wallet, player |-> o.player, round |-> None,
                  currency |-> o.currency, kind |-> "OPENING",
                  amount |-> o.balance, ref |-> None],
     status  |-> "PROCESSED", failure |-> None, refTx |-> None,
     balance |-> o.balance]

Open(o) ==
    /\ o.wallet \notin DOMAIN accounts
    /\ accounts' = With(accounts, o.wallet, o.balance)
    /\ \/ /\ o.balance = 0
          /\ UNCHANGED operations
       \/ /\ o.balance > 0
          /\ \E t \in Ids \ DOMAIN operations :
                operations' = With(operations, t, Credit(o))

\* Operation t takes a new state; the account of its wallet follows a movement.
Record(t, state) ==
    /\ operations' = With(operations, t, state)
    /\ accounts' = IF state.status = "PROCESSED" /\ state.req.kind # "LOSS"
                   THEN [accounts EXCEPT ![state.req.wallet] = state.balance]
                   ELSE accounts

\* An operation nobody has submitted before, for a wallet that exists.
Acceptable(r) ==
    /\ ValidRequest(r)
    /\ r.wallet \in DOMAIN accounts
    /\ \A u \in DOMAIN operations :
          operations[u].req.provider = r.provider =>
              operations[u].req.key # r.key /\ operations[u].req.ext # r.ext

Accept(r) ==
    /\ Acceptable(r)
    /\ \E t \in Ids \ DOMAIN operations :
          \/ \E s \in Settlements(r) : Record(t, s)
          \/ MayWait(r) /\ Record(t, Waiting(r))

\* A waiting operation is settled, or refused because its reference never came.
Resume(t) ==
    /\ t \in DOMAIN operations
    /\ operations[t].status = "PENDING_REFERENCE"
    /\ LET r == operations[t].req
       IN  \/ \E s \in Settlements(r) : Record(t, s)
           \/ MayWait(r) /\ Record(t, Settled(r, None, "REFERENCE_NOT_FOUND"))

\* Each of these changes an account or an operation; saying so first lets TLC
\* pass over the many steps of the implementation that change neither.
Next ==
    /\ vars' # vars
    /\ \/ \E o \in Openings : Open(o)
       \/ \E r \in Requests : Accept(r)
       \/ \E t \in Ids : Resume(t)

Spec == Init /\ [][Next]_vars
=============================================================================
