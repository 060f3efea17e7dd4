------------------------------ MODULE MCHttpApi ------------------------------
(***************************************************************************)
(* Two providers that use the same keys and external ids, one of them with *)
(* an operation that waits for its reference, and callers that are refused *)
(* at the door.                                                            *)
(***************************************************************************)
EXTENDS MCWagering, HttpApi

\* A session may carry what the client wants whose call it is.
ClientOffers ==
    [s \in Sessions |->
        UNION {{x.body : x \in {y \in Wants[c] : y.body # None}} :
                  c \in {d \in Clients : \E i \in DOMAIN Attempts[d] : Attempts[d][i] = s}}]

Acme(r) == [id |-> [roles |-> {"provider"}, provider |-> "acme"], body |-> r]
Zeta(r) == [id |-> [roles |-> {"provider"}, provider |-> "zeta"],
            body |-> [r EXCEPT !.provider = "zeta"]]

\* A call that is refused at the door.
Refused ==
    LET bet == Op("BET", "k2", "e2", "w1", 1, None)
    IN  {[Zeta(bet) EXCEPT !.body = bet],
         [Acme(bet) EXCEPT !.body = None],
         [Acme(bet) EXCEPT !.body.key = None],
         [id |-> [roles |-> {"internal"}, provider |-> None], body |-> bet],
         [id |-> None, body |-> bet]}

ClientWants ==
    [c \in Clients |->
        CASE c = "c1" -> {Acme(Op("BET", "k1", "e1", "w1", 1, None)),
                          Acme(Op("WIN", "k1", "e1", "w1", 0, None))} \cup Refused
          [] OTHER    -> {Acme(Op("BET", "k1", "e2", "w1", 1, None)),
                          Zeta(Op("BET", "k1", "e1", "w1", 1, None)),
                          Zeta(Op("REFUND", "k1", "e2", "w1", 1, "e1")),
                          Zeta([Op("BET", "k1", "e1", "w1", 1, None) EXCEPT
                                   !.player = "bob"])}]
\* One client: its operation is settled at once, waits for a reference that
\* never comes, or is invalid.
AnswerWants ==
    [c \in Clients |-> {Acme(Op("BET", "k1", "e1", "w1", 1, None)),
                        Acme(Op("REFUND", "k1", "e1", "w1", 1, "e2")),
                        Acme(Op("WIN", "k1", "e1", "w1", 0, None))}]

ClientAttempts ==
    [c \in Clients |-> IF c = "c1" THEN <<"s1", "s2">> ELSE <<"s3", "s4">>]
ClientOpenings == {Opening("w1", 1)}
=============================================================================
