----------------------------- MODULE MCWagering -----------------------------
(***************************************************************************)
(* The instances of Wagering that TLC checks.  Each scenario names the     *)
(* requests its sessions may carry and the wallets that may be opened;     *)
(* the configurations pick a scenario.  Ann owns w1, Bob owns w2.          *)
(***************************************************************************)
EXTENDS WageringInvariant, LedgerRefinement, DomainContracts

Op(kind, key, ext, w, amount, reference) ==
    [provider |-> "acme", key |-> key, ext |-> ext, wallet |-> w,
     player |-> IF w = "w2" THEN "bob" ELSE "ann", round |-> "r1",
     currency |-> "BRL", kind |-> kind, amount |-> amount, ref |-> reference]

Opening(w, amount) ==
    [wallet |-> w, player |-> IF w = "w2" THEN "bob" ELSE "ann",
     currency |-> "BRL", balance |-> amount]

AllHTTP == [s \in Sessions |-> None]

-----------------------------------------------------------------------------
\* Two deliveries of one message, the second with the same or another content,
\* and two HTTP calls that share an idempotency key, an external id, both or
\* neither with it and with each other, in one wallet and in two.  One of them
\* may be invalid or of a player who does not own the wallet, the other may
\* refer to a bet of another wallet.
IdentityOffers ==
    LET bet == Op("BET", "k1", "e1", "w1", 1, None)
    IN  [s \in Sessions |->
            CASE s = "s1" -> {bet}
              [] s = "s2" -> {bet, Op("BET", "k2", "e2", "w1", 1, None)}
              [] s = "s3" -> {bet, Op("BET", "k1", "e1", "w2", 1, None),
                              Op("BET", "k1", "e2", "w1", 2, None),
                              [bet EXCEPT !.amount = 0], [bet EXCEPT !.player = "bob"]}
              [] OTHER    -> {Op("BET", "k2", "e1", "w2", 1, None),
                              Op("REFUND", "k2", "e2", "w2", 1, "e1")}]
IdentityMessage ==
    [s \in Sessions |-> IF s \in {"s1", "s2"} THEN "m1" ELSE None]
IdentityOpenings == {Opening("w1", 3), Opening("w2", 3)}

-----------------------------------------------------------------------------
\* A bet, a refund of it, and a rival that rolls back either of them, in any
\* order of arrival, so that each may have to wait.
SettlingOffers ==
    [s \in Sessions |->
        CASE s = "s1" -> {Op("BET", "k1", "e1", "w1", 1, None)}
          [] s = "s2" -> {Op("REFUND", "k2", "e2", "w1", 1, "e1")}
          [] OTHER    -> {Op("ROLLBACK", "k3", "e3", "w1", 1, "e1"),
                          Op("ROLLBACK", "k3", "e3", "w1", 1, "e2")}]
SettlingOpenings == {Opening("w1", 1)}

-----------------------------------------------------------------------------
\* Every kind and every amount at the edges of the balance, every way a
\* request or its reference can be wrong.
EdgeOffers ==
    [s \in Sessions |->
        CASE s = "s1" -> {Op(kind, "k1", "e1", "w1", amount, None) :
                             kind \in {"BET", "WIN", "LOSS"}, amount \in 0 .. MaxMoney}
          [] OTHER    -> {Op(kind, "k2", "e2", "w1", amount, "e1") :
                             kind \in {"WIN", "REFUND", "ROLLBACK"}, amount \in 1 .. MaxMoney}
                         \cup {[Op("REFUND", "k2", "e2", "w1", 1, "e1") EXCEPT !.round = "r2"],
                               [Op("BET", "k2", "e2", "w1", 1, None) EXCEPT !.player = "bob"]}]
EdgeOpenings == {Opening("w1", 0), Opening("w1", 1)}
=============================================================================
