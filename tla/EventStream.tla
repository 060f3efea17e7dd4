----------------------------- MODULE EventStream -----------------------------
(***************************************************************************)
(* The balance events of one wallet on their way to a consumer: the        *)
(* movements record them, in the order of the wallet's versions, and the   *)
(* publishers of OutboxPublisher send them, in any order and more than     *)
(* once.  The consumer is external; it does what the README asks of it,    *)
(* namely to drop copies by event id and to look for gaps in the versions. *)
(***************************************************************************)
EXTENDS OutboxPublisher, FiniteSetsExt, Sequences

CONSTANTS
    Amounts,     \* what an opening or a movement may be of
    MaxMoney     \* bound: the balance

ASSUME StreamAssumption == Amounts \subseteq Nat \ {0} /\ MaxMoney \in Nat

VARIABLES
    balances,   \* the wallet's balance at each version; <<>> before the opening
    data        \* what each recorded event says

streamVars == <<balances, data>>

StreamInit ==
    /\ Init
    /\ balances = <<>>
    /\ data = [e \in {} |-> None]

-----------------------------------------------------------------------------
\* NewWalletBalanceChanged: the wallet's version after the movement, and the
\* balance on both sides of it.
BalanceChanged(version, before, after) ==
    [version |-> version, before |-> before, after |-> after]

Says(e, event) == data' = [x \in DOMAIN data \cup {e} |-> IF x = e THEN event ELSE data[x]]

\* Service.Open with nothing: the first version has no entry and no event.
OpenEmpty ==
    /\ balances = <<>>
    /\ balances' = <<0>>
    /\ UNCHANGED <<data, vars>>

\* Service.Open with an initial balance.
OpenFunded(e, amount) ==
    /\ balances = <<>>
    /\ amount <= MaxMoney
    /\ balances' = <<amount>>
    /\ Record(e)
    /\ Says(e, BalanceChanged(1, 0, amount))

\* A wager that moves money: the wallet, its version and the event are of one
\* commit.
Move(e, after) ==
    LET version == Len(balances)
    IN  /\ version > 0
        /\ after \in 0 .. MaxMoney
        /\ balances' = Append(balances, after)
        /\ Record(e)
        /\ Says(e, BalanceChanged(version + 1, balances[version], after))

StreamNext ==
    \/ OpenEmpty
    \/ \E e \in Events, amount \in Amounts :
          \/ OpenFunded(e, amount)
          \/ balances # <<>> /\ Move(e, balances[Len(balances)] + amount)
          \/ balances # <<>> /\ Move(e, balances[Len(balances)] - amount)
    \/ Publish /\ UNCHANGED streamVars
    \/ Idle /\ UNCHANGED streamVars

StreamSpec == StreamInit /\ [][StreamNext]_<<vars, streamVars>>

\* The publishers are as fair as in OutboxPublisher; wallets need not move.
StreamFairSpec == StreamSpec /\ Fairness

-----------------------------------------------------------------------------
\* What the consumer has: the events that arrived, each once.
Received == {e \in Events : copies[e] > 0}
Versions == {data[e].version : e \in Received}

\* The versions a consumer misses below the last one it has.  A wallet that was
\* opened empty has no event of version 1; the event of version 2 tells it.
Missing ==
    {v \in 2 .. Max(Versions) : v \notin Versions}
        \cup {v \in {1} \ Versions :
                 \E e \in Received : data[e].version = 2 /\ data[e].before > 0}

\* The outbox still owes an event of this version.
Owed(v) == \E e \in DOMAIN rows : data[e].version = v /\ ~rows[e].published

\* "walletVersion permite identificar lacunas" (README): a gap is an event that the
\* outbox still owes, recorded and not taken for published.  So the consumer may
\* wait for it; it is never a gap for good.
GapsAreOwed ==
    Received # {} =>
        \A v \in Missing : Owed(v)
=============================================================================
