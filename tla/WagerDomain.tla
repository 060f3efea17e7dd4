----------------------------- MODULE WagerDomain -----------------------------
(***************************************************************************)
(* The pure part of the wager service: what a request is, which requests   *)
(* are valid, how a reference is judged, in which direction a wager moves  *)
(* money and with which result.  Everything here is translated from        *)
(* internal/domain and from the decision code of                           *)
(* internal/application/wagering; it has no state.                         *)
(*                                                                         *)
(* Identifiers are opaque values.  Money is a number of minor units; the   *)
(* code keeps it in an int64, MaxMoney stands for math.MaxInt64.  The      *)
(* game id, timestamps and correlation ids take part in no decision and    *)
(* are left out.                                                           *)
(***************************************************************************)
EXTENDS Integers, Sequences

CONSTANTS
    Providers, Keys, Externals, Players, Rounds, Currencies,
    Wallets,     \* the ids wallets are created with
    MaxMoney,    \* the largest amount of money representable
    None         \* the null value: SQL NULL, a nil pointer, an empty string

ASSUME MaxMoneyAssumption == MaxMoney \in Nat

Money == 0 .. MaxMoney

ExternalKinds == {"BET", "WIN", "LOSS", "REFUND", "ROLLBACK"}
Kinds == ExternalKinds \cup {"OPENING"}
ReversalKinds == {"REFUND", "ROLLBACK"}

Terminal == {"PROCESSED", "REJECTED"}
Statuses == {"PENDING_REFERENCE"} \cup Terminal

FailureCodes ==
    {"BET_INSUFFICIENT_FUNDS", "REVERSAL_INSUFFICIENT_FUNDS",
     "REFERENCE_NOT_FOUND", "REFERENCE_NOT_PROCESSED", "REFERENCE_MISMATCH",
     "REFERENCE_TYPE_NOT_ALLOWED", "ALREADY_REVERSED",
     "INVALID_OPERATION_AMOUNT", "MONEY_OVERFLOW"}

ASSUME NoneAssumption ==
    None \notin Providers \cup Keys \cup Externals \cup Players \cup Rounds
                \cup Wallets \cup Statuses \cup FailureCodes \cup {"DEBIT", "CREDIT"}

\* A submitted operation; an opening has no provider, key, external id or round.
Request ==
    [provider : Providers \cup {None}, key : Keys \cup {None},
     ext : Externals \cup {None}, wallet : Wallets, player : Players,
     round : Rounds \cup {None}, currency : Currencies,
     kind : Kinds, amount : Money, ref : Externals \cup {None}]

-----------------------------------------------------------------------------
\* validateInput, validateOrigin and validateKindAndReference of a new external
\* transaction.
ValidRequest(r) ==
    /\ r.kind \in ExternalKinds
    /\ None \notin {r.provider, r.key, r.ext, r.round}
    /\ IF r.kind = "LOSS" THEN r.amount = 0 ELSE r.amount > 0
    /\ r.kind \in ReversalKinds => r.ref # None
    /\ r.kind \in {"BET", "LOSS"} => r.ref = None
    /\ r.ref # r.ext

\* SHA-256 of the canonical business payload: every field except the
\* idempotency key, which is a transport header.
PayloadHash(r) == [r EXCEPT !.key = None]

\* The kinds an operation may refer to.
AllowedReferenceKinds(kind) ==
    CASE kind = "REFUND"   -> {"BET"}
      [] kind = "ROLLBACK" -> {"BET", "WIN", "REFUND"}
      [] kind = "WIN"      -> {"BET"}
      [] OTHER             -> Kinds

\* resolveReference once the referenced row is found and PROCESSED: the
\* failure code it leads to, None when the reference is accepted.
ReferenceFailure(r, ref) ==
    CASE \/ ref.provider # r.provider
         \/ ref.player # r.player
         \/ ref.wallet # r.wallet
         \/ ref.round # r.round
         \/ ref.currency # r.currency                  -> "REFERENCE_MISMATCH"
      [] ref.kind \notin AllowedReferenceKinds(r.kind) -> "REFERENCE_TYPE_NOT_ALLOWED"
      [] /\ r.kind \in ReversalKinds
         /\ ref.amount # r.amount                      -> "INVALID_OPERATION_AMOUNT"
      [] OTHER                                         -> None

\* Mutant: every rollback gives money back.
DirectionCreditRollback(kind, refKind) == IF kind = "BET" THEN "DEBIT" ELSE "CREDIT"

\* The direction in which a wager moves money; refKind is the kind of its
\* resolved reference, None when it has none.
Direction(kind, refKind) ==
    IF kind = "BET" \/ (kind = "ROLLBACK" /\ refKind # "BET")
    THEN "DEBIT" ELSE "CREDIT"

\* Mutant: Money.Add without its overflow test.
MovementFailureNoOverflow(kind, direction, balance, amount) ==
    CASE direction = "DEBIT" /\ balance < amount ->
            IF kind = "ROLLBACK" THEN "REVERSAL_INSUFFICIENT_FUNDS"
                                 ELSE "BET_INSUFFICIENT_FUNDS"
      [] OTHER -> None

\* Wallet.Debit and Wallet.Credit: the reason the movement is refused.
MovementFailure(kind, direction, balance, amount) ==
    CASE direction = "DEBIT" /\ balance < amount ->
            IF kind = "ROLLBACK" THEN "REVERSAL_INSUFFICIENT_FUNDS"
                                 ELSE "BET_INSUFFICIENT_FUNDS"
      [] direction = "CREDIT" /\ balance > MaxMoney - amount -> "MONEY_OVERFLOW"
      [] OTHER -> None

\* The balance a movement leaves behind.
Moved(direction, balance, amount) ==
    IF direction = "DEBIT" THEN balance - amount ELSE balance + amount
=============================================================================
