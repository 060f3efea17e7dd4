--------------------------- MODULE DomainContracts ---------------------------
(***************************************************************************)
(* What the constructors and the transitions of internal/domain accept.    *)
(* They judge again what the services decided, inside the transaction and  *)
(* each time a row is read back: were one of them stricter than the        *)
(* decisions, a wager could never be settled, or could be stored and never *)
(* be read again.  Ids and times are left out; money has a currency and a  *)
(* sign here.                                                              *)
(***************************************************************************)
EXTENDS Wagering

\* validateOrigin.
OriginAccepted(r, status) ==
    IF r.kind = "OPENING"
    THEN /\ status = "PROCESSED" /\ r.amount > 0
         /\ {r.provider, r.key, r.ext, r.round, r.ref} = {None}
    ELSE None \notin {r.provider, r.key, r.ext, r.round}

\* validateKindAndReference.
KindAccepted(r, status, refTx) ==
    /\ IF r.kind = "LOSS" THEN r.amount = 0 ELSE r.amount > 0
    /\ r.kind \in ReversalKinds => r.ref # None
    /\ r.kind \in {"BET", "LOSS", "OPENING"} => r.ref = None
    /\ r.ref # None => r.ref # r.ext
    /\ refTx # NoTx \/ status = "PENDING_REFERENCE" => r.ref # None

\* validateResult; a row that waits has no result balance, and its 0 is not read.
ResultAccepted(r, status, refTx, failure, balance) ==
    /\ status = "REJECTED" <=> failure \in FailureCodes
    /\ status \in Terminal => balance >= 0
    /\ r.kind = "OPENING" => balance = r.amount
    /\ status = "PROCESSED" /\ r.ref # None => refTx # NoTx

\* build, as Rehydrate in scanWager calls it on a stored row.
Rehydrates(row) ==
    /\ OriginAccepted(row.req, row.status)
    /\ KindAccepted(row.req, row.status, row.refTx)
    /\ ResultAccepted(row.req, row.status, row.refTx, row.failure, row.balance)

\* ledger.New and ledger.Rehydrate.
EntryAccepted(e) ==
    /\ e.direction \in {"DEBIT", "CREDIT"}
    /\ e.amount > 0
    /\ e.before >= 0 /\ e.after >= 0
    /\ e.version >= 1
    /\ Moved(e.direction, e.before, e.amount) <= MaxMoney
    /\ e.after = Moved(e.direction, e.before, e.amount)

\* The status of the transaction an actor is about to settle.
StatusBefore(a) == IF a \in Sessions THEN "PENDING" ELSE wagers[claim[a]].status

\* MarkPendingReference, ResolveReference, MarkProcessed and Reject.
TransitionAccepted(a) ==
    LET p == plan[a]
        r == req[a]
    IN  /\ StatusBefore(a) \notin Terminal
        /\ p.answer.status = "PENDING_REFERENCE" =>
              StatusBefore(a) = "PENDING" /\ r.ref # None
        /\ p.refTx # NoTx =>
              /\ r.ref # None
              /\ a \in Workers => wagers[claim[a]].refTx \in {NoTx, p.refTx}
        /\ p.answer.status = "PROCESSED" /\ r.ref # None => p.refTx # NoTx
        /\ p.answer.status = "REJECTED" => p.answer.failure \in FailureCodes
        /\ p.answer.status \in Terminal =>
              /\ p.answer.balance >= 0
              /\ wallets[r.wallet].currency = r.currency

\* validateTransactionEvent.
TransactionEventAccepted(r, balance) ==
    /\ IF r.kind = "OPENING" THEN r.provider = None ELSE r.provider # None
    /\ balance >= 0
    /\ IF r.kind = "LOSS" THEN r.amount = 0 ELSE r.amount > 0

\* NewWagerTransactionProcessed, NewWagerTransactionRejected,
\* NewWagerTransactionPendingReference and NewWalletBalanceChanged.
EventsAccepted(a) ==
    LET p == plan[a]
        r == req[a]
    IN  /\ p.answer.status = "PROCESSED" =>
              TransactionEventAccepted(r, p.answer.balance)
        /\ p.answer.status = "REJECTED" =>
              /\ r.kind # "OPENING" /\ p.answer.failure \in FailureCodes
              /\ TransactionEventAccepted(r, p.answer.balance)
        /\ p.answer.status = "PENDING_REFERENCE" =>
              /\ r.kind \in {"WIN", "REFUND", "ROLLBACK"}
              /\ None \notin {r.provider, r.ref}
        /\ Moves(p) => EntryAccepted(WrittenEntry(a))

-----------------------------------------------------------------------------
\* No decision of SubmitInSession or ResumePendingInSession is refused by the
\* domain on its way to the tables: such an error would be the same at every
\* retry, and the wager, the message or the pending reference would never end.
ConstructorsAccept ==
    \A a \in Actors :
        /\ pc[a] = "commit"
        /\ Writes(plan[a])
        => TransitionAccepted(a) /\ EventsAccepted(a)

\* Whatever is stored can be read back: scanWager and the ledger pages rebuild
\* every row through the constructors, and a row they refuse would turn each
\* replay, reference and page that meets it into an error.
RecordsRehydrate ==
    /\ \A t \in DOMAIN wagers : Rehydrates(wagers[t])
    /\ \A w \in Wallets : \A i \in DOMAIN ledger[w] : EntryAccepted(ledger[w][i])

\* The domain never refuses what the services have decided or stored.
DomainAccepts == ConstructorsAccept /\ RecordsRehydrate
=============================================================================
