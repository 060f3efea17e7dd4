------------------------------ MODULE MCValues ------------------------------
(***************************************************************************)
(* The values that the services compute, checked over all those within the *)
(* bounds: the instants they write, the amounts they convert, the delays   *)
(* of their retries.  They have nothing to do with each other: a behaviour *)
(* is about one of them.  The instants are those of a bet, a loss, and a   *)
(* refund of the bet that comes through the queue and may arrive before it.*)
(***************************************************************************)
EXTENDS WagerClocks, Amounts, Backoffs

CONSTANTS bet, loss, refund

RefundOfBet == [s \in Submissions |-> IF s = refund THEN bet ELSE None]

VARIABLE subject   \* "instant", "amount" or "retry"

\* What a behaviour is not about rests at one of its initial states.
ValuesInit ==
    /\ Init
    /\ AmountInit
    /\ RetryInit
    /\ subject \in {"instant", "amount", "retry"}
    /\ subject # "amount" => stage = "stored" /\ minor = 0

ValuesNext ==
    /\ UNCHANGED subject
    /\ \/ subject = "instant" /\ Next /\ UNCHANGED <<amountVars, retryVars>>
       \/ subject = "amount" /\ AmountNext /\ UNCHANGED <<vars, retryVars>>
       \/ subject = "retry" /\ RetryNext /\ UNCHANGED <<vars, amountVars>>

ValuesSpec == ValuesInit /\ [][ValuesNext]_<<subject, vars, amountVars, retryVars>>
=============================================================================
