--------------------------- MODULE LedgerRefinement ---------------------------
(***************************************************************************)
(* Wager processing over PostgreSQL implements WalletLedger: every commit  *)
(* is one atomic step of it, and every other statement changes nothing a   *)
(* provider or a player can see.                                           *)
(***************************************************************************)
EXTENDS Wagering

Promise == INSTANCE WalletLedger WITH
    Ids <- TxIds,
    Requests <- UNION {Offers[s] : s \in Sessions},
    accounts <- [w \in DOMAIN wallets |-> wallets[w].balance],
    operations <- [t \in DOMAIN wagers |->
                      [req |-> wagers[t].req, status |-> wagers[t].status,
                       failure |-> wagers[t].failure,
                       refTx |-> IF wagers[t].status = "PROCESSED"
                                 THEN wagers[t].refTx ELSE None,
                       balance |-> wagers[t].balance]]

\* Submissions and reference workers, interleaved statement by statement under
\* READ COMMITTED and failing anywhere, look like operations that are judged and
\* applied one at a time, each once: SubmitInSession and ResumePendingInSession
\* read tables that others change, and still settle as if alone.
ImplementsWalletLedger == Promise!Spec
=============================================================================
