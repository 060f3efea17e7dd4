------------------------------- MODULE Wagering -------------------------------
(***************************************************************************)
(* Wager processing over PostgreSQL: submissions by HTTP, deliveries of    *)
(* SQS messages and the workers that resume pending references, all        *)
(* running concurrently against one database under READ COMMITTED.         *)
(*                                                                         *)
(* An actor is a submission (a session) or a reference worker.  It runs a  *)
(* database transaction statement by statement: every SELECT is a step     *)
(* that sees what is committed at that moment; what the transaction        *)
(* itself writes is kept in plan and becomes visible, all of it, at        *)
(* Commit.  Row locks and waits for uncommitted unique keys are guards.    *)
(*                                                                         *)
(* Triggers, CHECK constraints, the version test of the wallet update and  *)
(* the partial unique index on reversals are the database's backstops:     *)
(* DatabaseAccepts states that no commit ever meets one.                   *)
(***************************************************************************)
EXTENDS WagerDomain, FiniteSets

CONSTANTS
    Sessions,     \* one element per call of Submit or Consume
    Workers,      \* reference workers
    Messages,     \* ids of SQS messages
    Message,      \* the message a session delivers, None for HTTP
    Offers,       \* the requests a session may carry
    Openings,     \* the wallets that may be created
    MaxTries,     \* attempts of ReadCommittedWithRetry
    MaxFaults     \* bound: failures injected in one behaviour

ASSUME ActorsAssumption ==
    /\ Sessions \cap Workers = {}
    /\ Sessions \cap Wallets = {}
    /\ None \notin Sessions \cup Workers \cup Messages
ASSUME InputsAssumption ==
    /\ Message \in [Sessions -> Messages \cup {None}]
    /\ Offers \in [Sessions -> SUBSET Request]
    /\ Openings \subseteq [wallet : Wallets, player : Players,
                           currency : Currencies, balance : Money]
ASSUME BoundsAssumption == MaxTries \in Nat \ {0} /\ MaxFaults \in Nat

Actors == Sessions \cup Workers
TxIds == Sessions \cup Wallets   \* an opening takes the id of its wallet

VARIABLES
    wallets,     \* table wallets: a function on the wallets that exist
    wagers,      \* table wager_transactions: a function on the ids that exist
    ledger,      \* table wallet_ledger_entries, per wallet in insertion order
    outbox,      \* table outbox_events, per transaction in insertion order
    inbox,       \* table consumer_inbox: completed messages
    walletLock,  \* the transaction that holds the row lock of a wallet
    pc,          \* the next statement of an actor
    req,         \* the request an actor works on
    seen,        \* the row found by idempotency key
    acct,        \* the wallet as read when it was locked
    ref,         \* the resolved reference
    plan,        \* what the transaction will have written
    claim,       \* the pending wager a worker has claimed
    late,        \* whether that wager's TTL was over when it was locked
    tries,       \* the attempt of ReadCommittedWithRetry
    raced,       \* whether a session already retried an identity race
    result,      \* what a session returned
    faults       \* failures injected so far

tables == <<wallets, wagers, ledger, outbox, inbox>>
locals == <<seen, acct, ref, plan, late>>
vars == <<tables, walletLock, pc, req, locals, claim, tries, raced, result, faults>>

-----------------------------------------------------------------------------
NoTx == None
NoAnswer == [tx |-> NoTx, status |-> None, failure |-> None, balance |-> 0]
NoPlan == [op |-> "none", answer |-> NoAnswer, refTx |-> NoTx, direction |-> None]
NoAccount == [balance |-> 0, version |-> 0]
NoResult == [code |-> None, answer |-> NoAnswer]

\* A row of wager_transactions.  The reference schedule keeps its order of
\* events instead of timestamps: due says that next_attempt_at has passed,
\* lease how far the lease named by token is, expired that expires_at passed.
Row == [req : Request, status : Statuses, refTx : TxIds \cup {NoTx},
        failure : FailureCodes \cup {None}, balance : Money,
        token : Workers \cup {None}, lease : {"free", "live", "over"},
        due : BOOLEAN, expired : BOOLEAN]

Wallet == [player : Players, currency : Currencies,
           balance : Money, version : Nat \ {0}]

Entry == [tx : TxIds, direction : {"DEBIT", "CREDIT"}, amount : Money,
          before : Money, after : Money, version : Nat \ {0}]

\* What a submission answers with: a transaction and its state when read.
Answer == [tx : TxIds \cup {NoTx}, status : Statuses \cup {None},
           failure : FailureCodes \cup {None}, balance : Money]

AnswerOf(t) == [tx |-> t, status |-> wagers[t].status,
                failure |-> wagers[t].failure, balance |-> wagers[t].balance]

TxOf(a) == IF a \in Sessions THEN a ELSE claim[a]

Extend(f, x, v) == [y \in DOMAIN f \cup {x} |-> IF y = x THEN v ELSE f[y]]

-----------------------------------------------------------------------------
\* The lookups of WagerRepository; the unique indexes make each a singleton.
ByKey(r) == {t \in DOMAIN wagers : /\ wagers[t].req.provider = r.provider
                                   /\ wagers[t].req.key = r.key}
ByExternal(provider, ext) ==
    {t \in DOMAIN wagers : /\ wagers[t].req.provider = provider
                           /\ wagers[t].req.ext = ext}

HasProcessedReversal(t) ==
    \E u \in DOMAIN wagers : /\ wagers[u].refTx = t
                             /\ wagers[u].status = "PROCESSED"
                             /\ wagers[u].req.kind \in ReversalKinds

\* The unique keys (provider, key) and (provider, external id).
SameIdentity(r, q) == /\ r.provider = q.provider
                      /\ r.key = q.key \/ r.ext = q.ext

-----------------------------------------------------------------------------
Init ==
    /\ wallets = [w \in {} |-> NoAccount]
    /\ wagers = [t \in {} |-> NoAnswer]
    /\ ledger = [w \in Wallets |-> <<>>]
    /\ outbox = [t \in TxIds |-> <<>>]
    /\ inbox = [m \in {} |-> NoTx]
    /\ walletLock = [w \in Wallets |-> None]
    /\ pc = [a \in Actors |-> IF a \in Sessions THEN "new" ELSE "poll"]
    /\ req = [a \in Actors |-> None]
    /\ seen = [a \in Actors |-> NoAnswer]
    /\ acct = [a \in Actors |-> NoAccount]
    /\ ref = [a \in Actors |-> NoTx]
    /\ plan = [a \in Actors |-> NoPlan]
    /\ claim = [a \in Workers |-> NoTx]
    /\ late = [a \in Workers |-> FALSE]
    /\ tries = [a \in Actors |-> 1]
    /\ raced = [s \in Sessions |-> FALSE]
    /\ result = [s \in Sessions |-> NoResult]
    /\ faults = 0

-----------------------------------------------------------------------------
(* Events of the outbox: the type, the balance reported, and for a balance  *)
(* change the wallet version.                                               *)
Event(type, balance, version) ==
    [type |-> type, balance |-> balance, version |-> version]

ProcessedEvents(balance, moved, version) ==
    <<Event("Processed", balance, 0)>>
        \o (IF moved THEN <<Event("BalanceChanged", balance, version)>> ELSE <<>>)

-----------------------------------------------------------------------------
(* Service.Open and WalletStore.Create: one transaction that nothing else   *)
(* can wait for, since the wallet's ids are new.  A second wallet of the    *)
(* same player and currency is refused with ErrWalletAlreadyExists.         *)
OpeningRow(o) ==
    [req |-> [provider |-> None, key |-> None, ext |-> None, wallet |-> o.wallet,
              player |-> o.player, round |-> None, currency |-> o.currency,
              kind |-> "OPENING", amount |-> o.balance, ref |-> None],
     status |-> "PROCESSED", refTx |-> NoTx, failure |-> None,
     balance |-> o.balance, token |-> None, lease |-> "free",
     due |-> FALSE, expired |-> FALSE]

OpenWallet(o) ==
    /\ o.wallet \notin DOMAIN wallets
    /\ \A w \in DOMAIN wallets :
          <<wallets[w].player, wallets[w].currency>> # <<o.player, o.currency>>
    /\ wallets' = Extend(wallets, o.wallet,
                         [player |-> o.player, currency |-> o.currency,
                          balance |-> o.balance, version |-> 1])
    /\ IF o.balance > 0
       THEN /\ wagers' = Extend(wagers, o.wallet, OpeningRow(o))
            /\ ledger' = [ledger EXCEPT ![o.wallet] = Append(@,
                  [tx |-> o.wallet, direction |-> "CREDIT", amount |-> o.balance,
                   before |-> 0, after |-> o.balance, version |-> 1])]
            /\ outbox' = [outbox EXCEPT ![o.wallet] =
                             @ \o ProcessedEvents(o.balance, TRUE, 1)]
       ELSE UNCHANGED <<wagers, ledger, outbox>>
    /\ UNCHANGED <<inbox, walletLock, pc, req, locals, claim, tries, raced,
                   result, faults>>

-----------------------------------------------------------------------------
(* The end of a database transaction: its locks are released and what the   *)
(* attempt computed is forgotten.                                           *)
\* Mutant: a rollback or commit that leaves its wallet locked.
ReleaseLocksLeak(a) == UNCHANGED walletLock

ReleaseLocks(a) ==
    walletLock' = [w \in Wallets |-> IF walletLock[w] = a THEN None ELSE walletLock[w]]

ForgetAttempt(a) ==
    /\ seen' = [seen EXCEPT ![a] = NoAnswer]
    /\ acct' = [acct EXCEPT ![a] = NoAccount]
    /\ ref' = [ref EXCEPT ![a] = NoTx]
    /\ plan' = [plan EXCEPT ![a] = NoPlan]
    /\ late' = [r \in Workers |-> late[r] /\ r # a]

\* The first statement of an attempt.
FirstStatement(a) ==
    IF a \in Workers THEN "lock"
    ELSE IF Message[a] # None THEN "claim" ELSE "key1"

\* The actor is done: a session has its result, a worker polls again.
Conclude(a, code, answer) ==
    /\ pc' = [pc EXCEPT ![a] = IF a \in Sessions THEN "done" ELSE "poll"]
    /\ result' = IF a \in Sessions
                 THEN [result EXCEPT ![a] = [code |-> code, answer |-> answer]]
                 ELSE result
    /\ claim' = [r \in Workers |-> IF r = a THEN NoTx ELSE claim[r]]
    /\ tries' = [tries EXCEPT ![a] = 1]
    /\ ReleaseLocks(a)
    /\ ForgetAttempt(a)

\* An error return: the deferred Rollback of within undoes every statement.
Fail(a, code) ==
    /\ Conclude(a, code, NoAnswer)
    /\ UNCHANGED <<tables, req, raced, faults>>

\* Mutant: the transaction is run again without having been rolled back.
RestartKeepingLocks(a) ==
    /\ pc' = [pc EXCEPT ![a] = FirstStatement(a)]
    /\ UNCHANGED walletLock
    /\ ForgetAttempt(a)

\* The transaction is rolled back and run again from its first statement.
Restart(a) ==
    /\ pc' = [pc EXCEPT ![a] = FirstStatement(a)]
    /\ ReleaseLocks(a)
    /\ ForgetAttempt(a)

\* A statement that reads: the actor moves on, nothing else changes.
Goto(a, label) ==
    /\ pc' = [pc EXCEPT ![a] = label]
    /\ UNCHANGED <<tables, req, claim, tries, raced, result, faults>>

-----------------------------------------------------------------------------
(* SUBMISSIONS                                                              *)

Receive(s, r) ==
    /\ pc[s] = "new"
    /\ req' = [req EXCEPT ![s] = r]
    /\ pc' = [pc EXCEPT ![s] = FirstStatement(s)]
    /\ UNCHANGED <<tables, walletLock, locals, claim, tries, raced, result, faults>>

\* Another delivery of the same message is inside its transaction: it holds
\* the inbox row, inserted or locked FOR UPDATE.
MessageHeld(s) ==
    \E u \in Sessions \ {s} : /\ Message[u] = Message[s]
                              /\ pc[u] \notin {"new", "claim", "done"}

\* InboxRepository.Claim found a row: a different content is a conflict, the
\* same content is a duplicate, answered from the stored transaction.
ClaimMessage(s) ==
    /\ pc[s] = "claim"
    /\ ~MessageHeld(s)
    /\ \/ /\ Message[s] \notin DOMAIN inbox
          /\ Goto(s, "key1")
          /\ UNCHANGED <<walletLock, locals>>
       \/ /\ Message[s] \in DOMAIN inbox
          /\ inbox[Message[s]].content # req[s]
          /\ Fail(s, "MESSAGE_CONFLICT")
       \/ /\ Message[s] \in DOMAIN inbox
          /\ inbox[Message[s]].content = req[s]
          /\ plan' = [plan EXCEPT ![s] =
                [NoPlan EXCEPT !.op = "duplicate",
                               !.answer = AnswerOf(inbox[Message[s]].tx)]]
          /\ Goto(s, "commit")
          /\ UNCHANGED <<walletLock, seen, acct, ref, late>>

RejectInput(s) ==
    /\ pc[s] = "key1"
    /\ ~ValidRequest(req[s])
    /\ Fail(s, "INVALID_INPUT")

\* FindByIdempotencyKey, before the wallet lock (key1) and under it (key2).
LookupKey(s) ==
    /\ \/ pc[s] = "key1" /\ ValidRequest(req[s]) /\ Goto(s, "ext1")
       \/ pc[s] = "key2" /\ Goto(s, "ext2")
    /\ seen' = [seen EXCEPT ![s] = IF ByKey(req[s]) = {} THEN NoAnswer
                                   ELSE AnswerOf(CHOOSE t \in ByKey(req[s]) : TRUE)]
    /\ UNCHANGED <<walletLock, acct, ref, plan, late>>

\* Mutants: the two lookups are taken for one snapshot; only the key counts.
EvaluateIdentitiesOneSnapshot(r, byKey, byExternal) ==
    LET verdict(code, answer) == [code |-> code, answer |-> answer]
    IN  CASE byKey = NoAnswer /\ byExternal = NoAnswer -> verdict("NEW", NoAnswer)
          [] /\ byKey # NoAnswer
             /\ PayloadHash(wagers[byKey.tx].req) # PayloadHash(r) ->
                   verdict("IDEMPOTENCY_CONFLICT", NoAnswer)
          [] byKey.tx # byExternal.tx -> verdict("EXTERNAL_ID_CONFLICT", NoAnswer)
          [] OTHER -> verdict("REPLAY", byKey)
EvaluateIdentitiesKeyOnly(r, byKey, byExternal) ==
    LET verdict(code, answer) == [code |-> code, answer |-> answer]
    IN  CASE byKey # NoAnswer -> verdict("REPLAY", byKey)
          [] byKey = NoAnswer /\ byExternal # NoAnswer ->
                verdict("EXTERNAL_ID_CONFLICT", NoAnswer)
          [] OTHER -> verdict("NEW", NoAnswer)

\* evaluateIdentities, given the row found by key (NoAnswer: none) and the one
\* found by external id (NoAnswer: none): a conflict, the row to replay, or
\* neither.  The two were read by two statements with a snapshot each.
EvaluateIdentities(r, byKey, byExternal) ==
    LET hash(answer) == PayloadHash(wagers[answer.tx].req)
        verdict(code, answer) == [code |-> code, answer |-> answer]
    IN  IF byKey # NoAnswer
        THEN CASE hash(byKey) # PayloadHash(r) -> verdict("IDEMPOTENCY_CONFLICT", NoAnswer)
               [] /\ hash(byKey) = PayloadHash(r)
                  /\ byExternal.tx # byKey.tx  -> verdict("EXTERNAL_ID_CONFLICT", NoAnswer)
               [] OTHER                        -> verdict("REPLAY", byKey)
        ELSE CASE byExternal = NoAnswer        -> verdict("NEW", NoAnswer)
               [] /\ byExternal # NoAnswer
                  /\ wagers[byExternal.tx].req.key # r.key ->
                        verdict("EXTERNAL_ID_CONFLICT", NoAnswer)
               [] /\ byExternal # NoAnswer
                  /\ wagers[byExternal.tx].req.key = r.key
                  /\ hash(byExternal) # PayloadHash(r) ->
                        verdict("IDEMPOTENCY_CONFLICT", NoAnswer)
               [] OTHER                        -> verdict("REPLAY", byExternal)

\* FindByExternalID and the evaluation that follows it.
LookupExternal(s) ==
    LET found == ByExternal(req[s].provider, req[s].ext)
        byExternal == IF found = {} THEN NoAnswer ELSE AnswerOf(CHOOSE t \in found : TRUE)
        verdict == EvaluateIdentities(req[s], seen[s], byExternal)
    IN  /\ pc[s] \in {"ext1", "ext2"}
        /\ \/ /\ verdict.code \in {"IDEMPOTENCY_CONFLICT", "EXTERNAL_ID_CONFLICT"}
              /\ Fail(s, verdict.code)
           \/ /\ verdict.code = "REPLAY"
              /\ plan' = [plan EXCEPT ![s] = [NoPlan EXCEPT !.op = "replay",
                                                            !.answer = verdict.answer]]
              /\ Goto(s, "commit")
              /\ UNCHANGED <<walletLock, seen, acct, ref, late>>
           \/ /\ verdict.code = "NEW"
              /\ Goto(s, IF pc[s] = "ext1" THEN "lock" ELSE "resolve")
              /\ UNCHANGED <<walletLock, locals>>

\* LockWallet: SELECT ... FOR NO KEY UPDATE waits for the holder and then reads
\* the row as committed; the player and currency are checked under the lock.
WalletNotFound(s) ==
    /\ pc[s] = "lock"
    /\ req[s].wallet \notin DOMAIN wallets
    /\ Fail(s, "WALLET_NOT_FOUND")

Owned(r) == /\ wallets[r.wallet].player = r.player
            /\ wallets[r.wallet].currency = r.currency

WalletMismatch(s) ==
    /\ pc[s] = "lock"
    /\ req[s].wallet \in DOMAIN wallets
    /\ walletLock[req[s].wallet] = None
    /\ ~Owned(req[s])
    /\ Fail(s, "WALLET_MISMATCH")

\* Mutant: the wallet is read without FOR NO KEY UPDATE.
LockWalletPlainSelect(a) ==
    LET w == req[a].wallet
    IN  /\ pc[a] = "lock"
        /\ w \in DOMAIN wallets
        /\ a \in Sessions => Owned(req[a])
        /\ acct' = [acct EXCEPT ![a] = [balance |-> wallets[w].balance,
                                        version |-> wallets[w].version]]
        /\ Goto(a, IF a \in Sessions THEN "key2" ELSE "pending")
        /\ UNCHANGED <<walletLock, seen, ref, plan, late>>

LockWallet(a) ==
    LET w == req[a].wallet
    IN  /\ pc[a] = "lock"
        /\ w \in DOMAIN wallets
        /\ walletLock[w] = None
        /\ a \in Sessions => Owned(req[a])
        /\ walletLock' = [walletLock EXCEPT ![w] = a]
        /\ acct' = [acct EXCEPT ![a] = [balance |-> wallets[w].balance,
                                        version |-> wallets[w].version]]
        /\ Goto(a, IF a \in Sessions THEN "key2" ELSE "pending")
        /\ UNCHANGED <<seen, ref, plan, late>>

-----------------------------------------------------------------------------
(* PROCESSING, shared by submissions and workers, under the wallet lock     *)

\* The referenced row is missing or itself waits for its reference.
ReferencePending(r) ==
    /\ r.ref # None
    /\ \A t \in ByExternal(r.provider, r.ref) : wagers[t].status = "PENDING_REFERENCE"

Reference(r) == IF r.ref = None THEN NoTx
                ELSE CHOOSE t \in ByExternal(r.provider, r.ref) : TRUE

\* resolveReference when the reference is not pending.
ResolvedFailure(r) ==
    CASE r.ref = None                                 -> None
      [] /\ r.ref # None
         /\ wagers[Reference(r)].status # "PROCESSED" -> "REFERENCE_NOT_PROCESSED"
      [] OTHER -> ReferenceFailure(r, wagers[Reference(r)].req)

\* persistPending and the rescheduling of a wager that keeps waiting.
PendingPlan(a) ==
    [NoPlan EXCEPT !.op = "insert",
                   !.answer = [NoAnswer EXCEPT !.tx = TxOf(a),
                                               !.status = "PENDING_REFERENCE"]]
ReschedulePlan(a) ==
    [NoPlan EXCEPT !.op = "reschedule",
                   !.answer = [NoAnswer EXCEPT !.tx = TxOf(a),
                                               !.status = "PENDING_REFERENCE"]]

\* finish: reject with the failure found so far, or move the money, which may
\* fail in turn; a LOSS is processed without a movement.
FinishPlan(a, refTx, failure, balance) ==
    LET r == req[a]
        direction == Direction(r.kind, IF refTx = NoTx THEN None
                                       ELSE wagers[refTx].req.kind)
        code == IF failure # None \/ r.kind = "LOSS" THEN failure
                ELSE MovementFailure(r.kind, direction, balance, r.amount)
        moved == code = None /\ r.kind # "LOSS"
    IN  [op        |-> IF a \in Sessions THEN "insert" ELSE "complete",
         answer    |-> [tx      |-> TxOf(a),
                        status  |-> IF code = None THEN "PROCESSED" ELSE "REJECTED",
                        failure |-> code,
                        balance |-> IF moved THEN Moved(direction, balance, r.amount)
                                             ELSE balance],
         refTx     |-> refTx,
         direction |-> IF moved THEN direction ELSE None]

\* A session inserts its row; a worker updates the row it has locked.
Decide(a, p) ==
    /\ plan' = [plan EXCEPT ![a] = p]
    /\ Goto(a, IF a \in Sessions THEN "write" ELSE "commit")

ResolveReference(a) ==
    LET r == req[a]
        accepted == ~ReferencePending(r) /\ ResolvedFailure(r) = None
    IN  /\ pc[a] = "resolve"
        /\ \/ /\ ReferencePending(r)
              /\ a \in Sessions
              /\ Decide(a, PendingPlan(a))
              /\ UNCHANGED ref
           \/ /\ ReferencePending(r)
              /\ a \in Workers /\ ~late[a]
              /\ Decide(a, ReschedulePlan(a))
              /\ UNCHANGED ref
           \/ /\ ReferencePending(r)
              /\ a \in Workers /\ late[a]
              /\ Decide(a, FinishPlan(a, NoTx, "REFERENCE_NOT_FOUND", acct[a].balance))
              /\ UNCHANGED ref
           \/ /\ ~ReferencePending(r)
              /\ ResolvedFailure(r) # None
              /\ Decide(a, FinishPlan(a, NoTx, ResolvedFailure(r), acct[a].balance))
              /\ UNCHANGED ref
           \/ /\ accepted
              /\ r.kind \in ReversalKinds
              /\ ref' = [ref EXCEPT ![a] = Reference(r)]
              /\ Goto(a, "reversal")
              /\ UNCHANGED plan
           \/ /\ accepted
              /\ r.kind \notin ReversalKinds
              /\ Decide(a, FinishPlan(a, Reference(r), None, acct[a].balance))
              /\ UNCHANGED ref
        /\ UNCHANGED <<walletLock, seen, acct, late>>

\* Mutant: a refund does not ask whether the bet was already reversed.
CheckReversalRollbackOnly(a) ==
    /\ pc[a] = "reversal"
    /\ Decide(a, FinishPlan(a, ref[a],
                            IF req[a].kind = "ROLLBACK" /\ HasProcessedReversal(ref[a])
                            THEN "ALREADY_REVERSED" ELSE None,
                            acct[a].balance))
    /\ UNCHANGED <<walletLock, seen, acct, ref, late>>

\* The SELECT EXISTS of HasProcessedReversal and the decision it leads to.
CheckReversal(a) ==
    /\ pc[a] = "reversal"
    /\ Decide(a, FinishPlan(a, ref[a],
                            IF HasProcessedReversal(ref[a]) THEN "ALREADY_REVERSED"
                                                            ELSE None,
                            acct[a].balance))
    /\ UNCHANGED <<walletLock, seen, acct, ref, late>>

-----------------------------------------------------------------------------
(* The INSERT of a session's row.  It waits while another open transaction  *)
(* has inserted one of its unique keys; a committed one is a violation,     *)
(* which WithinTransaction turns into ErrIdentityRace: Submit and Consume   *)
(* run the transaction once more, and only once.                            *)
Inserted(s) == pc[s] = "commit" /\ plan[s].op = "insert"

\* Mutant: the unique indexes on the identities are missing.
InsertTransactionNoIndex(s) ==
    /\ pc[s] = "write"
    /\ Goto(s, "commit")
    /\ UNCHANGED <<walletLock, locals>>

InsertTransaction(s) ==
    /\ pc[s] = "write"
    /\ \A u \in Sessions \ {s} : Inserted(u) => ~SameIdentity(req[u], req[s])
    /\ \A t \in DOMAIN wagers : ~SameIdentity(wagers[t].req, req[s])
    /\ Goto(s, "commit")
    /\ UNCHANGED <<walletLock, locals>>

IdentityRace(s) ==
    /\ pc[s] = "write"
    /\ \E t \in DOMAIN wagers : SameIdentity(wagers[t].req, req[s])
    /\ IF raced[s]
       THEN Conclude(s, "IDENTITY_RACE", NoAnswer) /\ UNCHANGED raced
       ELSE /\ Restart(s)
            /\ raced' = [raced EXCEPT ![s] = TRUE]
            /\ tries' = [tries EXCEPT ![s] = 1]
            /\ UNCHANGED <<claim, result>>
    /\ UNCHANGED <<tables, req, faults>>

-----------------------------------------------------------------------------
(* COMMIT: everything the transaction wrote becomes visible at once.        *)

Writes(p) == p.op \in {"insert", "complete"}
\* Mutant: a resumed wager is marked processed without its movement.
MovesInsertOnly(p) == p.op = "insert" /\ p.direction # None
Moves(p) == Writes(p) /\ p.direction # None

InsertedRow(a) ==
    [req |-> req[a], status |-> plan[a].answer.status, refTx |-> plan[a].refTx,
     failure |-> plan[a].answer.failure, balance |-> plan[a].answer.balance,
     token |-> None, lease |-> "free", due |-> FALSE, expired |-> FALSE]

\* Mutant: the update leaves out reference_transaction_id.
CompletedRowUnresolved(a) ==
    [wagers[claim[a]] EXCEPT
        !.status = plan[a].answer.status,
        !.failure = plan[a].answer.failure, !.balance = plan[a].answer.balance,
        !.token = None, !.lease = "free", !.due = FALSE]

\* WagerRepository.CompletePending and referenceSession.Reschedule.
CompletedRow(a) ==
    [wagers[claim[a]] EXCEPT
        !.status = plan[a].answer.status, !.refTx = plan[a].refTx,
        !.failure = plan[a].answer.failure, !.balance = plan[a].answer.balance,
        !.token = None, !.lease = "free", !.due = FALSE]
\* The next attempt is set to min(now + backoff, expires_at): at once due again
\* when the TTL is already over.
RescheduledRow(a) ==
    [wagers[claim[a]] EXCEPT !.token = None, !.lease = "free",
                             !.due = wagers[claim[a]].expired]

WrittenWagers(a) ==
    CASE plan[a].op = "insert"     -> Extend(wagers, a, InsertedRow(a))
      [] plan[a].op = "complete"   -> [wagers EXCEPT ![claim[a]] = CompletedRow(a)]
      [] plan[a].op = "reschedule" -> [wagers EXCEPT ![claim[a]] = RescheduledRow(a)]
      [] OTHER                     -> wagers

WrittenEntry(a) ==
    [tx |-> TxOf(a), direction |-> plan[a].direction, amount |-> req[a].amount,
     before |-> acct[a].balance, after |-> plan[a].answer.balance,
     version |-> acct[a].version + 1]

\* Mutant: the balance event of a resumed wager carries the version read before.
WrittenEventsOldVersion(a) ==
    LET p == plan[a]
    IN  CASE ~Writes(p) -> <<>>
          [] Writes(p) /\ p.answer.status = "PROCESSED" ->
                ProcessedEvents(p.answer.balance, Moves(p), acct[a].version)
          [] Writes(p) /\ p.answer.status = "REJECTED" ->
                <<Event("Rejected", p.answer.balance, 0)>>
          [] OTHER -> <<Event("PendingReference", 0, 0)>>

WrittenEvents(a) ==
    LET p == plan[a]
    IN  CASE ~Writes(p) -> <<>>
          [] Writes(p) /\ p.answer.status = "PROCESSED" ->
                ProcessedEvents(p.answer.balance, Moves(p), acct[a].version + 1)
          [] Writes(p) /\ p.answer.status = "REJECTED" ->
                <<Event("Rejected", p.answer.balance, 0)>>
          [] OTHER -> <<Event("PendingReference", 0, 0)>>

\* Mutant: a replayed message is completed with the id made for this attempt.
WrittenInboxOwnId(a) ==
    IF /\ a \in Sessions
       /\ Message[a] # None
       /\ plan[a].op \in {"insert", "replay"}
    THEN Extend(inbox, Message[a], [content |-> req[a], tx |-> a])
    ELSE inbox

\* CompleteMessage: the message is stored with the transaction it led to.
WrittenInbox(a) ==
    IF /\ a \in Sessions
       /\ Message[a] # None
       /\ plan[a].op \in {"insert", "replay"}
    THEN Extend(inbox, Message[a], [content |-> req[a], tx |-> plan[a].answer.tx])
    ELSE inbox

ApplyWrites(a) ==
    LET w == req[a].wallet
    IN  /\ wagers' = WrittenWagers(a)
        /\ inbox' = WrittenInbox(a)
        /\ IF Moves(plan[a])
           THEN /\ wallets' = [wallets EXCEPT
                                  ![w].balance = plan[a].answer.balance,
                                  ![w].version = acct[a].version + 1]
                /\ ledger' = [ledger EXCEPT ![w] = Append(@, WrittenEntry(a))]
           ELSE UNCHANGED <<wallets, ledger>>
        /\ outbox' = IF Writes(plan[a])
                     THEN [outbox EXCEPT ![TxOf(a)] = @ \o WrittenEvents(a)]
                     ELSE outbox

Commit(a) ==
    /\ pc[a] = "commit"
    /\ ApplyWrites(a)
    /\ Conclude(a, "OK", plan[a].answer)
    /\ UNCHANGED <<req, raced, faults>>

-----------------------------------------------------------------------------
(* FAILURES                                                                 *)

InTransaction(a) == pc[a] \notin {"new", "done", "poll"}

\* The connection is lost, the context is cancelled or the process dies: the
\* transaction is rolled back.  A worker's claim was committed before and
\* stays in the row until its lease is over.
Abort(a) ==
    /\ InTransaction(a)
    /\ faults < MaxFaults
    /\ faults' = faults + 1
    /\ Conclude(a, "ERROR", NoAnswer)
    /\ UNCHANGED <<tables, req, raced>>

\* PostgreSQL aborts the transaction for a deadlock or a serialization failure:
\* ReadCommittedWithRetry runs it again.
RetryAbort(a) ==
    /\ InTransaction(a)
    /\ faults < MaxFaults
    /\ tries[a] < MaxTries
    /\ faults' = faults + 1
    /\ tries' = [tries EXCEPT ![a] = @ + 1]
    /\ Restart(a)
    /\ UNCHANGED <<tables, req, claim, raced, result>>

\* The commit takes effect but its acknowledgement is lost: the caller gets an
\* error and cannot tell it from an abort.
CommitReplyLost(a) ==
    /\ pc[a] = "commit"
    /\ faults < MaxFaults
    /\ faults' = faults + 1
    /\ ApplyWrites(a)
    /\ Conclude(a, "ERROR", NoAnswer)
    /\ UNCHANGED <<req, raced>>

-----------------------------------------------------------------------------
(* REFERENCE WORKERS                                                        *)

\* The row lock taken by LockPending; Claim skips locked rows.
RowLocked(t) == \E r \in Workers : /\ claim[r] = t
                                   /\ pc[r] \in {"resolve", "reversal", "commit"}

\* Mutant: a lease that is over is not given to another worker.
ClaimFreeOnly(r, t) ==
    /\ pc[r] = "poll"
    /\ t \in DOMAIN wagers
    /\ wagers[t].status = "PENDING_REFERENCE"
    /\ wagers[t].due
    /\ wagers[t].lease = "free"
    /\ ~RowLocked(t)
    /\ wagers' = [wagers EXCEPT ![t] = [@ EXCEPT !.token = r, !.lease = "live",
                                                 !.due = wagers[t].expired]]
    /\ claim' = [claim EXCEPT ![r] = t]
    /\ req' = [req EXCEPT ![r] = wagers[t].req]
    /\ pc' = [pc EXCEPT ![r] = "lock"]
    /\ UNCHANGED <<wallets, ledger, outbox, inbox, walletLock, locals, tries,
                   raced, result, faults>>

\* ReferenceStore.Claim, a transaction of its own: a due row whose lease is
\* free or over gets this worker's token.  The token is a fresh UUID; the name
\* of the worker is one as well, for a worker has at most one claim and drops
\* it before the next.
Claim(r, t) ==
    /\ pc[r] = "poll"
    /\ t \in DOMAIN wagers
    /\ wagers[t].status = "PENDING_REFERENCE"
    /\ wagers[t].due
    /\ wagers[t].lease # "live"
    /\ ~RowLocked(t)
    /\ wagers' = [wagers EXCEPT ![t] = [@ EXCEPT !.token = r, !.lease = "live",
                                                 !.due = wagers[t].expired]]
    /\ claim' = [claim EXCEPT ![r] = t]
    /\ req' = [req EXCEPT ![r] = wagers[t].req]
    /\ pc' = [pc EXCEPT ![r] = "lock"]
    /\ UNCHANGED <<wallets, ledger, outbox, inbox, walletLock, locals, tries,
                   raced, result, faults>>

\* Mutants: the row is locked by its id alone; by its status, whoever holds it.
ClaimHoldsById(r) == claim[r] \in DOMAIN wagers
ClaimHoldsAnyToken(r) == wagers[claim[r]].status = "PENDING_REFERENCE"

\* The WHERE clause of LockPending.
ClaimHolds(r) == LET row == wagers[claim[r]]
                 IN  /\ row.status = "PENDING_REFERENCE"
                     /\ row.token = r
                     /\ row.lease = "live"

\* The wager is locked after its wallet; a claim lost meanwhile is stale and
\* the worker leaves without writing.
LockPending(r) ==
    /\ pc[r] = "pending"
    /\ \/ /\ ClaimHolds(r)
          /\ late' = [late EXCEPT ![r] = wagers[claim[r]].expired]
          /\ Goto(r, "resolve")
          /\ UNCHANGED <<walletLock, seen, acct, ref, plan>>
       \/ /\ ~ClaimHolds(r)
          /\ Fail(r, "STALE")

-----------------------------------------------------------------------------
(* TIME: the three instants of a pending wager's schedule pass.             *)

Scheduled(t) ==
    /\ t \in DOMAIN wagers
    /\ wagers[t].status = "PENDING_REFERENCE"
    /\ UNCHANGED <<wallets, ledger, outbox, inbox, walletLock, pc, req, locals,
                   claim, tries, raced, result, faults>>

\* next_attempt_at passes.
BecomeDue(t) ==
    /\ Scheduled(t)
    /\ wagers[t].lease = "free" /\ ~wagers[t].due
    /\ wagers' = [wagers EXCEPT ![t].due = TRUE]

\* locked_until passes; Claim set next_attempt_at no later than it.
LeaseExpires(t) ==
    /\ Scheduled(t)
    /\ wagers[t].lease = "live"
    /\ wagers' = [wagers EXCEPT ![t].lease = "over", ![t].due = TRUE]

\* expires_at passes; next_attempt_at is never later than it.
TTLPasses(t) ==
    /\ Scheduled(t)
    /\ ~wagers[t].expired
    /\ wagers' = [wagers EXCEPT ![t].expired = TRUE, ![t].due = TRUE]

TimePasses(t) == BecomeDue(t) \/ LeaseExpires(t) \/ TTLPasses(t)

-----------------------------------------------------------------------------
\* The statements of a submission that never wait for ever on a lock.
SessionStatement(s) ==
    \/ ClaimMessage(s)
    \/ RejectInput(s)
    \/ LookupKey(s)
    \/ LookupExternal(s)
    \/ WalletNotFound(s)
    \/ InsertTransaction(s)
    \/ IdentityRace(s)

\* The statements sessions and workers share, after the wallet lock.
LockedStatement(a) == ResolveReference(a) \/ CheckReversal(a) \/ Commit(a)

Failure(a) == Abort(a) \/ RetryAbort(a) \/ CommitReplyLost(a)

\* Nothing is in flight: the service may stay as it is for ever.
Quiescent == (\A a \in Actors : ~InTransaction(a)) /\ UNCHANGED vars

Next ==
    \/ \E o \in Openings : OpenWallet(o)
    \/ \E s \in Sessions : \E r \in Offers[s] : Receive(s, r)
    \/ \E s \in Sessions : SessionStatement(s) \/ WalletMismatch(s)
    \/ \E r \in Workers, t \in TxIds : Claim(r, t)
    \/ \E r \in Workers : LockPending(r)
    \/ \E a \in Actors : LockWallet(a) \/ LockedStatement(a)
    \/ \E a \in Actors : Failure(a)
    \/ \E t \in TxIds : TimePasses(t)
    \/ Quiescent

Spec == Init /\ [][Next]_vars

\* A process keeps executing the transaction it is in; PostgreSQL grants a row
\* lock in the order of the requests, and Claim takes the oldest due row first,
\* so neither passes over a waiter for ever; time passes.  A worker whose claim
\* still holds is not overtaken by its lease every single time: config.validate
\* makes the lease longer than the timeout of an attempt.  Nothing forces a
\* submission to arrive, a wallet to be opened or a failure to happen.
Fairness ==
    /\ \A s \in Sessions : /\ WF_vars(SessionStatement(s))
                           /\ SF_vars(WalletMismatch(s))
    /\ \A r \in Workers : /\ WF_vars(LockPending(r))
                          /\ SF_vars(LockWallet(r) /\ ClaimHolds(r))
                          /\ SF_vars(LockPending(r) /\ ClaimHolds(r))
    /\ \A a \in Actors : WF_vars(LockedStatement(a)) /\ SF_vars(LockWallet(a))
    /\ \A t \in TxIds : /\ SF_vars(\E r \in Workers : Claim(r, t))
                        /\ WF_vars(BecomeDue(t))
                        /\ WF_vars(LeaseExpires(t))
                        /\ WF_vars(TTLPasses(t))

FairSpec == Spec /\ Fairness

-----------------------------------------------------------------------------
(* PROPERTIES                                                               *)

Labels == {"new", "claim", "key1", "ext1", "lock", "key2", "ext2", "pending",
           "resolve", "reversal", "write", "commit", "done", "poll"}
Ops == {"none", "insert", "complete", "reschedule", "replay", "duplicate"}
Codes == {"OK", "ERROR", "STALE", "INVALID_INPUT", "IDEMPOTENCY_CONFLICT",
          "EXTERNAL_ID_CONFLICT", "MESSAGE_CONFLICT", "WALLET_NOT_FOUND",
          "WALLET_MISMATCH", "IDENTITY_RACE"}
ASSUME CodesAssumption == None \notin Codes

\* Every table and every local of an actor has the shape its declaration says.
TypeOK ==
    /\ DOMAIN wallets \subseteq Wallets /\ wallets \in [DOMAIN wallets -> Wallet]
    /\ DOMAIN wagers \subseteq TxIds /\ wagers \in [DOMAIN wagers -> Row]
    /\ ledger \in [Wallets -> Seq(Entry)]
    /\ DOMAIN outbox = TxIds
    /\ DOMAIN inbox \subseteq Messages
    /\ inbox \in [DOMAIN inbox -> [content : Request, tx : TxIds]]
    /\ walletLock \in [Wallets -> Actors \cup {None}]
    /\ pc \in [Actors -> Labels]
    /\ req \in [Actors -> Request \cup {None}]
    /\ seen \in [Actors -> Answer]
    /\ acct \in [Actors -> [balance : Money, version : Nat]]
    /\ ref \in [Actors -> TxIds \cup {NoTx}]
    /\ plan \in [Actors -> [op : Ops, answer : Answer, refTx : TxIds \cup {NoTx},
                            direction : {"DEBIT", "CREDIT", None}]]
    /\ claim \in [Workers -> TxIds \cup {NoTx}]
    /\ late \in [Workers -> BOOLEAN]
    /\ tries \in [Actors -> 1 .. MaxTries]
    /\ raced \in [Sessions -> BOOLEAN]
    /\ result \in [Sessions -> [code : Codes \cup {None}, answer : Answer]]
    /\ faults \in 0 .. MaxFaults

-----------------------------------------------------------------------------
(* Money                                                                    *)

\* The entries of a wallet form an unbroken chain that starts from zero and
\* ends in the wallet's balance and version: every entry adds or subtracts its
\* amount, continues the balance and the version of the one before, and no
\* balance is negative or beyond MaxMoney.  This is what reconciliation and the
\* ledger triggers rely on, under any interleaving of submissions and workers.
LedgerContinuity ==
    \A w \in Wallets :
        LET L == ledger[w]
        IN  /\ w \notin DOMAIN wallets => L = <<>>
            /\ \A i \in DOMAIN L :
                  /\ L[i].after = Moved(L[i].direction, L[i].before, L[i].amount)
                  /\ L[i].before \in Money /\ L[i].after \in Money
                  /\ i = 1 => L[i].before = 0 /\ L[i].version \in {1, 2}
                  /\ i > 1 => /\ L[i].before = L[i - 1].after
                              /\ L[i].version = L[i - 1].version + 1
            /\ w \in DOMAIN wallets =>
                  IF L = <<>> THEN wallets[w].balance = 0 /\ wallets[w].version = 1
                  ELSE /\ wallets[w].balance = L[Len(L)].after
                       /\ wallets[w].version = L[Len(L)].version

\* The places in the ledger where t has moved money.
EntriesOf(t) == UNION {{<<w, i>> : i \in {j \in DOMAIN ledger[w] : ledger[w][j].tx = t}} :
                          w \in Wallets}

\* A wager has moved money exactly once when it is PROCESSED and not a LOSS, and
\* never otherwise; the movement is in its own wallet, of its amount, and left
\* the balance the wager reports.  Replays, redeliveries, retries and resumed
\* references never apply an effect twice and never lose one.
OneEffectPerWager ==
    \A t \in TxIds :
        IF /\ t \in DOMAIN wagers
           /\ wagers[t].status = "PROCESSED"
           /\ wagers[t].req.kind # "LOSS"
        THEN /\ Cardinality(EntriesOf(t)) = 1
             /\ \A x \in EntriesOf(t) :
                   /\ x[1] = wagers[t].req.wallet
                   /\ ledger[x[1]][x[2]].amount = wagers[t].req.amount
                   /\ ledger[x[1]][x[2]].after = wagers[t].balance
        ELSE EntriesOf(t) = {}

ProcessedReversal(t) == /\ wagers[t].status = "PROCESSED"
                        /\ wagers[t].req.kind \in ReversalKinds

\* An operation is reversed directly at most once, whichever of REFUND and
\* ROLLBACK, submission and worker comes first.
SingleReversal ==
    \A t, u \in DOMAIN wagers :
        /\ ProcessedReversal(t) /\ ProcessedReversal(u)
        /\ wagers[t].refTx = wagers[u].refTx
        => t = u

\* A processed reversal moves exactly the reversed operation's amount the other
\* way, in the same wallet and after it.
ReversalUndoesReference ==
    \A t \in DOMAIN wagers :
        ProcessedReversal(t) =>
            LET u == wagers[t].refTx
            IN  /\ u \in DOMAIN wagers
                /\ \A x \in EntriesOf(t) : \E y \in EntriesOf(u) :
                      LET mine == ledger[x[1]][x[2]]
                          other == ledger[y[1]][y[2]]
                      IN  /\ x[1] = y[1]
                          /\ mine.direction # other.direction
                          /\ mine.amount = other.amount
                          /\ mine.version > other.version

-----------------------------------------------------------------------------
(* The database's backstops, as predicates on a transaction about to commit *)

\* UPDATE wallets ... WHERE version = new - 1 matches its row, and the wallet
\* trigger finds a continuous entry.
WalletUpdateAccepted(a) ==
    LET w == req[a].wallet
    IN  Moves(plan[a]) => /\ w \in DOMAIN wallets
                          /\ wallets[w].version = acct[a].version
                          /\ wallets[w].balance = acct[a].balance
                          /\ WrittenEntry(a).after # WrittenEntry(a).before

\* The constraints and the trigger of wallet_ledger_entries.
LedgerEntryAccepted(a) ==
    LET r == req[a]
        e == WrittenEntry(a)
        q == wagers[plan[a].refTx].req
    IN  Moves(plan[a]) =>
            /\ e.amount > 0 /\ e.after = Moved(e.direction, e.before, e.amount)
            /\ \A i \in DOMAIN ledger[r.wallet] :
                  /\ ledger[r.wallet][i].tx # e.tx
                  /\ ledger[r.wallet][i].version # e.version
            /\ plan[a].answer.status = "PROCESSED" /\ r.kind # "LOSS"
            /\ r.kind = "BET" => e.direction = "DEBIT"
            /\ r.kind \in {"WIN", "REFUND"} => e.direction = "CREDIT"
            /\ r.kind = "ROLLBACK" => (e.direction = "CREDIT") = (q.kind = "BET")
            /\ plan[a].refTx # NoTx =>
                  /\ wagers[plan[a].refTx].status = "PROCESSED"
                  /\ q.ext = r.ref
                  /\ <<q.provider, q.wallet, q.player, q.currency, q.round>>
                        = <<r.provider, r.wallet, r.player, r.currency, r.round>>
                  /\ r.kind = "WIN" \/ r.amount = q.amount
                  /\ q.kind \in AllowedReferenceKinds(r.kind)

\* validate_wager_financial_result and wager_processed_reference_resolved.
WagerResultAccepted(a) ==
    LET p == plan[a]
    IN  Writes(p) =>
            /\ /\ p.answer.status \in Terminal
               /\ ~Moves(p)
               => /\ p.answer.status = "REJECTED" \/ req[a].kind = "LOSS"
                  /\ wallets[req[a].wallet].balance = p.answer.balance
            /\ p.answer.status = "PROCESSED" /\ req[a].ref # None => p.refTx # NoTx

\* wager_one_successful_direct_reversal, uncommitted rows included.
ReversalIndexAccepts(a) ==
    LET reverses(b) == /\ pc[b] = "commit" /\ Moves(plan[b])
                       /\ req[b].kind \in ReversalKinds
    IN  reverses(a) => /\ ~HasProcessedReversal(plan[a].refTx)
                       /\ \A b \in Actors \ {a} :
                             reverses(b) => plan[b].refTx # plan[a].refTx

\* The UPDATEs of a pending row match it: status, token, and, unless they did,
\* protect_terminal_wager refuses the write.
PendingUpdateAccepted(r) ==
    plan[r].op \in {"complete", "reschedule"} =>
        /\ wagers[claim[r]].status = "PENDING_REFERENCE"
        /\ wagers[claim[r]].token = r

\* No transaction that reaches its commit is refused by a version test, by the
\* reversal index, or by a trigger or CHECK on wallets, wagers and ledger entries:
\* the wallet lock and the reads made under it already ensure what the database
\* would enforce, so these never return ErrConcurrentWrite or a 23514 or 23505.
\* What the CHECKs say of instants is in WagerClocks.
DatabaseAccepts ==
    \A a \in Actors : pc[a] = "commit" =>
        /\ WalletUpdateAccepted(a)
        /\ LedgerEntryAccepted(a)
        /\ WagerResultAccepted(a)
        /\ ReversalIndexAccepts(a)
        /\ a \in Workers => PendingUpdateAccepted(a)

-----------------------------------------------------------------------------
(* Waiting                                                                  *)

\* What an open transaction may wait for in the database: the inbox row of its
\* message, the lock of its wallet, the end of an INSERT with its identity.
WaitsFor(a, b) ==
    /\ a # b
    /\ \/ /\ pc[a] = "claim"
          /\ b \in Sessions /\ Message[b] = Message[a]
          /\ pc[b] \notin {"new", "claim", "done"}
       \/ pc[a] = "lock" /\ walletLock[req[a].wallet] = b
       \/ /\ pc[a] = "write"
          /\ b \in Sessions /\ Inserted(b) /\ SameIdentity(req[b], req[a])

\* Submissions and workers take the inbox row, the wallet and the identity in one
\* order, also when they run again after a lost race or an abort: among any
\* transactions there is one that waits for none of them, so PostgreSQL never has
\* a deadlock to break.
NoCircularWait ==
    \A S \in (SUBSET Actors) \ {{}} : \E a \in S : \A b \in S : ~WaitsFor(a, b)

-----------------------------------------------------------------------------
(* Identities and answers                                                   *)

\* No two durable wagers share (provider, key) or (provider, external id).
IdentityUnique ==
    \A t, u \in DOMAIN wagers :
        /\ wagers[t].req.kind # "OPENING"
        /\ SameIdentity(wagers[t].req, wagers[u].req)
        => t = u

\* An accepted submission names a durable wager with its own identity and
\* payload, and a terminal answer is the wager's final state: what is replayed,
\* by HTTP or by a duplicate message, is the historical result.
AnswersAreDurable ==
    \A s \in Sessions : result[s].code = "OK" =>
        LET answer == result[s].answer
        IN  /\ answer.tx \in DOMAIN wagers
            /\ wagers[answer.tx].req = req[s]
            /\ answer.status \in Terminal => answer = AnswerOf(answer.tx)

\* An error that is reported as definitive is true and has no effect: a conflict
\* is backed by a durable wager that really conflicts, a refused submission left
\* no row, and the single retry of an identity race is always enough.
ErrorsAreTrue ==
    \A s \in Sessions :
        LET code == result[s].code
            r == req[s]
        IN  /\ code # "IDENTITY_RACE"
            /\ code = "IDEMPOTENCY_CONFLICT" =>
                  \E t \in ByKey(r) : PayloadHash(wagers[t].req) # PayloadHash(r)
            /\ code = "EXTERNAL_ID_CONFLICT" =>
                  \E t \in ByExternal(r.provider, r.ext) : wagers[t].req.key # r.key
            /\ code \notin {"OK", "ERROR", None} => s \notin DOMAIN wagers

\* retryableProcessingError: the errors after which the consumer gives a message an
\* early next try.
Retryable(code) ==
    code \notin {"MESSAGE_CONFLICT", "IDEMPOTENCY_CONFLICT", "EXTERNAL_ID_CONFLICT",
                 "INVALID_INPUT", "WALLET_MISMATCH", "WALLET_NOT_FOUND"}

\* What is not retried could not have succeeded: a submission refused for good is
\* never accepted by another transport, another delivery or at another time.
\* The one exception is a wallet that is opened later.
RefusalsAreForGood ==
    \A s, u \in Sessions :
        /\ result[s].code # None /\ ~Retryable(result[s].code)
        /\ result[s].code # "WALLET_NOT_FOUND"
        /\ req[u] = req[s]
        /\ result[s].code = "MESSAGE_CONFLICT" => Message[u] = Message[s]
        => result[u].code # "OK"

\* A message completed in the inbox names a durable wager that its own content
\* describes, also when several deliveries, an HTTP submission of the same wager
\* or a lost acknowledgement are in play.
InboxNamesItsWager ==
    \A m \in DOMAIN inbox : /\ inbox[m].tx \in DOMAIN wagers
                            /\ wagers[inbox[m].tx].req = inbox[m].content

\* The events of a wager in the outbox tell its history, each fact once: pending
\* first if it ever was, then the final state with the balance it reports, then
\* the balance change with the version of its ledger entry.
OutboxTellsHistory ==
    \A t \in TxIds :
        IF t \notin DOMAIN wagers THEN outbox[t] = <<>>
        ELSE LET row == wagers[t]
                 waited == <<Event("PendingReference", 0, 0)>>
                 final == IF row.status = "REJECTED"
                          THEN {<<Event("Rejected", row.balance, 0)>>}
                          ELSE IF EntriesOf(t) = {}
                          THEN {ProcessedEvents(row.balance, FALSE, 0)}
                          ELSE {ProcessedEvents(row.balance, TRUE,
                                   ledger[x[1]][x[2]].version) : x \in EntriesOf(t)}
             IN  IF row.status = "PENDING_REFERENCE" THEN outbox[t] = waited
                 ELSE outbox[t] \in final \cup {waited \o f : f \in final}

\* A durable wager is never deleted and never changes its request; once PROCESSED
\* or REJECTED it never changes at all.  Ledger entries are only ever appended.
HistoryIsImmutable ==
    [][/\ \A t \in DOMAIN wagers :
             /\ t \in DOMAIN wagers'
             /\ wagers'[t].req = wagers[t].req
             /\ wagers[t].status \in Terminal => wagers'[t] = wagers[t]
       /\ \A w \in Wallets : \A i \in DOMAIN ledger[w] :
             i \in DOMAIN ledger'[w] /\ ledger'[w][i] = ledger[w][i]]_vars

-----------------------------------------------------------------------------
(* Progress, under FairSpec                                                 *)

\* Every wager that waits for its reference reaches a terminal state, whatever
\* becomes of the reference and of the workers that claim it: the reference is
\* processed or rejected, never arrives, or waits for the wager itself.
PendingReferencesEnd ==
    \A t \in TxIds :
        (t \in DOMAIN wagers /\ wagers[t].status = "PENDING_REFERENCE")
            ~> (t \in DOMAIN wagers /\ wagers[t].status \in Terminal)
=============================================================================
