# Verification of the wager service

TLA+ models of the wallet and wager service of this repository, the TLC
configurations that check them on small instances, and TLAPS proofs about the
core. Every definition is translated from the Go code and the SQL migrations;
`PROJECT.json` maps each one to its lines.

## The system

| Part | State | Operations | Meets |
|---|---|---|---|
| Domain (`internal/domain`) | none | validation, references, movements of money | used by all |
| Wager service (`application/wagering`) | tables `wallets`, `wager_transactions`, `wallet_ledger_entries`, `outbox_events` | `Submit`, `SubmitInSession`, `ResumePendingInSession` | HTTP, ingestion and reference workers share it and its tables |
| Ingestion (`application/ingestion`) | `consumer_inbox` | `Consume` | wraps `SubmitInSession` in its own transaction |
| Reference workers (`application/reference`) | lease, token, due and expiry instants of pending rows | `Claim`, `LockPending`, complete, `Reschedule` | compete with each other and with submissions for the wallet |
| Wallet service (`application/wallet`) | the same tables | `Open`, `FindByID`, `ListLedger` | creates what the others lock; reads beside them |
| Reconciliation (`application/reconciliation`) | none | `Reconcile` | reads one snapshot beside the writers |
| HTTP API and authentication (`adapters/http`, `adapters/auth`) | none of its own | submit and read wagers; open, read and reconcile wallets | every call is a transaction of the services; clients repeat and give up |
| Outbox publisher (`application/outbox`, `sqs/outbox_worker.go`) | lease, token, attempts of events; the output queue | `Claim`, `Publish`, `Confirm`, `Retry` | reads what the wager service commits |
| SQS consumer (`sqs/consumer.go`) | poll loop, semaphore, handlers, shutdown | `run`, `handle`, `stop` | calls `Consume`; deletes, releases or defers messages |
| PostgreSQL | constraints, unique indexes, triggers | | backstop of all of the above |
| Process (`bootstrap`, `platform/config`, `platform/health`) | start and stop hooks, ready flag, pool | start, fail to start, stop within a budget | owns the goroutines of all of the above |
| SQS gateway, metrics, logging | none | | see *Not modelled* |

What is hard here is concurrency under READ COMMITTED: every `SELECT` has a
snapshot of its own, two submissions of one identity may hold different wallet
locks, a worker may lose its lease while it waits for a lock, a commit may take
effect although its caller sees an error, and messages and events may come
twice. Around that core are clocks that disagree between instances, leases and
timeouts that must outlast each other, clients that repeat a call which still
runs, and a shutdown that takes the parts away one by one. `PROJECT.json` lists
these hazards at the line where each bites, with the properties that would show
it going wrong.

What makes the parts correct:

* money: the ledger of a wallet is an unbroken chain that ends in its balance;
  a wager moves money exactly once or never; a reversal undoes exactly its
  target, and a target is reversed at most once;
* identity: one wager per idempotency key and per external id; a replay is the
  historical result; a reported conflict is real;
* references: a pending wager ends, and is decided on what is committed;
* inbox and consumer: a message leaves the queue only when its wager is
  committed, and every message ends;
* outbox: every event is delivered at least once and marked published only
  afterwards, and only by the publisher that holds it; a consumer can tell from
  the versions what it misses, and what it misses is still owed;
* reads: the pages of a ledger are one listing, a balance read stays a fact of
  the ledger, a reconciliation beside the writers finds no fault;
* API: a provider sees and changes its own wagers only; a refusal of an operation
  means that nothing was or will be done; every repeated call ends in an answer;
* locks: no transactions wait for each other;
* times: no skew of clocks refuses a wager, and instants follow commits;
* process: the pool outlives the workers, the budget covers their work, a failed
  start leaves nothing behind.

## Modules

| Module | Models |
|---|---|
| `WagerDomain` | the pure rules: requests, validity, payload identity, judgement of references, movements. `MaxMoney` stands for `math.MaxInt64` |
| `Wagering` | submissions, deliveries and reference workers over one database, one action per SQL statement |
| `WageringInvariant` | the inductive invariants |
| `WageringProofs`, `DecisionProofs`, `AnswerProofs` | theorems about `Wagering`: types, ledger and identities; decisions and their effects; answers, and what `HttpApi` makes of them |
| `WalletLedger` | the abstract promise of wager processing: operations judged and settled one at a time |
| `LedgerRefinement` | `Wagering` implements `WalletLedger` |
| `DomainContracts` | what the constructors, transitions and `Rehydrate` of the domain accept of what `Wagering` decides and stores |
| `RefinementProofs` | theorems about `LedgerRefinement`, `DomainContracts` and `WalletReads` |
| `MCWagering` | the scenarios of `Wagering` for TLC |
| `WalletReads`, `MCWalletReads` | readers of balances, ledger pages and reconciliations beside `Wagering` |
| `HttpApi`, `MCHttpApi` | the wager endpoints and their clients in front of `Wagering` |
| `WagerClocks` | the instants that are written, under clocks that give any instant |
| `Amounts` | decimal texts to minor units and back |
| `Backoffs` | visibility and delay of the n-th retry |
| `ValueProofs` | theorems about `WagerClocks`, `Backoffs` and `Amounts` |
| `MCValues` | `WagerClocks`, `Amounts` and `Backoffs` for TLC |
| `EventDelivery` | the abstract promise of the outbox |
| `OutboxPublisher` | the publishers, shown to implement `EventDelivery` |
| `EventStream` | `OutboxPublisher` composed with the movements of a wallet and a consumer of its events |
| `OutboxProofs` | theorems about `OutboxPublisher` and `EventStream` |
| `SqsConsumer`, `MCSqsConsumer` | the consumers of the input queue and their shutdown |
| `ConsumerProofs` | theorems about `SqsConsumer` |
| `Lifecycle` | one process from its first start hook to its exit |
| `LifecycleProofs` | theorems about `Lifecycle` |

### Wagering

The tables are functions on the rows that exist. An *actor* is a session (one
call of `Submit` or `Consume`) or a reference worker; `pc` names its next
statement:

    claim   INSERT/SELECT FOR UPDATE of the inbox row     (messages only)
    key1 ext1   evaluateIdentities before the lock
    lock    SELECT ... FOR NO KEY UPDATE of the wallet
    key2 ext2   evaluateIdentities under the lock         (sessions)
    pending LockPending                                   (workers)
    resolve, reversal   resolveReference, HasProcessedReversal
    write   INSERT of the wager row                       (sessions)
    commit  COMMIT

What a transaction writes is collected in `plan` and becomes visible in one
step, `Commit`: no other transaction can see it earlier, and the two ways it is
felt earlier, the wallet's row lock and the wait for an uncommitted unique key,
are guards (`LockWallet`, `InsertTransaction`). An error, a lost connection or a
crash (`Abort`) forgets the attempt; `RetryAbort` is `ReadCommittedWithRetry`
after a deadlock or serialization error; `CommitReplyLost` is the commit whose
caller sees an error. `IdentityRace` is the unique violation that `Submit` and
`Consume` answer with one more attempt.

A transaction waits for the inbox row of its message, for its wallet and for an
uncommitted row with its identity (`WaitsFor`). `NoCircularWait` says that there is
no circle in these waits, also when a lost race sends a session through its
statements again.

The schedule of a pending wager keeps the order of its three instants instead
of timestamps (`due`, `lease`, `expired`); `BecomeDue`, `LeaseExpires` and
`TTLPasses` may happen at any statement of anybody, which covers every clock.
The id of a wager is the name of its session, the id of an opening the name of
its wallet; a lease token is the name of its worker, which has one claim at a
time. Game ids, correlation ids and times take part in no decision.

Triggers, checks, the version test of `UPDATE wallets` and the index on
reversals do not guard `Commit`; `DatabaseAccepts` states that no commit ever
meets them, except for those on instants, which are in `WagerClocks`. They are
backstops, and the code does not depend on them.

### WalletLedger

The state is the balance of each wallet and the operations accepted so far; an
operation is accepted, or a waiting one settled, in one step that judges it
against that state. `LedgerRefinement` maps accounts to `wallets` and operations
to `wager_transactions`: every `Commit` is such a step, everything else a
stutter. The step has one freedom: a reference to an operation of *another*
wallet may count as missing or as wrong, since the lock on the own wallet does
not hold the other one still between `resolveReference` and the commit. Either
way the wager is never processed. `settling` has one wallet and does not use it.

### DomainContracts

The domain judges again what the services decided. `DomainAccepts` says that no
decision at its commit is refused by a transition or by an event's constructor
(`ConstructorsAccept`), and that every stored row passes `Rehydrate`, which
`scanWager` and the ledger pages run on each read (`RecordsRehydrate`).

### WalletReads

A reader performs one of three conversations. `AskPage`, `FindWallet` and
`ReadPage` are `ListLedger`, whose transaction reads the wallet and then the
rows under READ COMMITTED; the reader follows the cursor, with another limit if
it likes, while wagers commit between the pages and between the two statements.
`Newest` is `ORDER BY ... DESC LIMIT n`: the row with k - 1 newer ones is the k-th.
`ReadWallet` is one row. `Snapshot` is the single statement of the
reconciliation, `Judge` its two int64 limits. The base64 and JSON form of the
cursor is left out; that it belongs to the wallet asked for is a guard.

### HttpApi

`Verdicts` is what the verifier may make of a client's token at one call: the
client's identity, one with fewer roles, or none, as when the token has expired
or the keys cannot be fetched. `Admission` follows the call through `Authenticate`,
`RequireRole` and the checks of `submit`; an admitted call is `Receive` of `Wagering`,
a call that is turned away leaves no session. `StatusesOf` is what
`writeWagerResponse`, `writeWagerError` and `writeDependencyOrInternalError` make of
the result. A client repeats after 5xx or silence and, with a new token, after a
401; it reads while it is told 202, and stops at any other answer. `GiveUp` is a
client that hangs up: the server may have noticed (then `Abort` of `Wagering` follows)
or not. `lost` counts these answers; it shares the bound `MaxFaults` with the
failures of `Wagering`. `denied` counts the calls whose token was worth less than it
should be, up to `MaxDenials`. In `MCHttpApi` the offers of a session are what its
client may want.

A repeat of a call whose answer was lost is answered for itself: with 401 or 403
when its token fails, although the first call was committed, and with 404
`WALLET_NOT_FOUND` when it finds no wallet, although the first call still runs and
may find it opened meanwhile. These statuses (`OfOneCall`) refuse the call and not
the operation, and `RefusalsLeaveNothing` does not take them for a refusal of the
operation, unless the 404 is about the only call that was let in or the client's
own identity and body are refused at every call. Every other 4xx means that no
call of the client has left a wager or ever will.

### WagerClocks

One wallet, its ledger and its wagers, reduced to their instants. Every read of
an application's clock gives any instant of `Clock`; only the database's clock
advances steadily. `refused` is set when `validateTransitionTime`,
`validateMovement` or the CHECK on the schedule would say no. The one check on
time that the code does not shield is `consumer_inbox`'s
`completed_at >= received_at`: a clock set back between the claim of a message
and its completion rolls the transaction back and the message is delivered
again, so it costs a delivery and nothing else. A clock that is ahead moves the
wallet's `updated_at`, and with it later decisions, into the future.

### Lifecycle

Fx runs the start hooks in order of construction and the stop hooks in the
opposite order. `started` counts the hooks, `stage` is what the running stop hook
waits for, `left` what remains of Fx's time. A component with work in hand holds
a connection. Time passes only while nothing else can happen promptly
(`Tick`): Go runs what it can run, and a request has no limit of its own. A
worker's work ends with its processing timeout or when the stop cancels it
(`Processing`), except for what runs on a context of its own (`Detached`): the
rollback of a transaction, 2 s; the delete, release or deferral of a message,
`SQSPing` after it; the `Retry` of an event whose send was cancelled, 3 s.
`Config.StopTimeout` names none of these. They fit nevertheless (`DetachedFits`) as
long as they take less than `SQSShutdown` and the slack together, since the drain
of the consumer runs beside its work: by default 2 + 2 + 3 + 2 = 9 s against
30 + 10 s. `config.validate` does not compare them.

### Backoffs, Amounts

`Backoffs` retries one item with every jitter. `RetriesAreSpaced` gives the exact
range of each delay; that it stays within the documented limits
(`BackoffWithinLimits`) is refuted by `delays`. `Amounts` takes every text of a
small alphabet through `ParseNonNegative` and every amount of a small int64
through `String`; `MaxInt` 1279 gives that integer the shape of the real one (its
last digits decide the overflow). Both are pure; `MCValues` lets a behaviour be about
one of them, or about the instants of `WagerClocks`.

### OutboxPublisher

`Claim`, `Confirm` and `Retry` are one SQL statement each. The lease token is a
fresh UUID; the attempt number names it. Failures are actions: a send that
fails, with or without having arrived, a statement that fails, a claim whose
answer is lost, a crash, a lease that ends under a stalled worker.
`EventDelivery` is the promise; `DeliversEveryEvent`, its specification with
fairness, is the refinement under the mapping `recorded` = rows, `delivered` =
events the queue accepted, `published` = rows with `published_at`: nothing is
published that was not delivered, and everything recorded is published.

### EventStream

The wallet's movements are actions that record events (`Record` of
`OutboxPublisher`) with version and balances; `Publish` interleaves with them. The
consumer keeps each event once and looks for versions it misses. A wallet opened
empty has no event of version 1, which the `before` of version 2 tells.
`GapsAreOwed` says that a version which the consumer can see to be missing is still
owed by the outbox.

### SqsConsumer

A delivery is a message and its receive count, which also names its receipt
handle; `work` says what is done with it and by which instance. `loop` follows
`run`, `phase` follows `stop`. The queue is external and takes any choice SQS
may take: it hands out any visible messages, also into an answer that is lost,
and honours only the latest receipt. FIFO groups restrict that choice and are
not modelled. `Content` says how `Consume` takes a message; `"unsure"` covers
those refused until something else happens, such as a wallet being opened.

## Runs

| Run | Instance | Shows |
|---|---|---|
| `identities` | 2 deliveries of a message, 2 HTTP calls, 2 wallets, 1 failure | uniqueness, truth and permanence of refusals, durability of answers, the inbox, no circular wait |
| `settling` | 3 sessions, 2 workers, 1 wallet, 1 failure | one effect, one history, one reversal per wager; no backstop met; refinement of `WalletLedger` |
| `ledger` | 2 sessions, 1 worker, 1 reader, all kinds and amounts 0..2 | continuity at the edges of a balance, the domain accepts every decision and row, consistent reads and reconciliations |
| `calling` | 2 clients of 2 calls each, 2 providers, 1 worker, 1 failure, 1 failing token | separation of providers, meaning of refusals |
| `answering` | 1 client of 2 calls, 1 worker, 1 failure, 1 failing token | pending wagers end and every client gets a final answer |
| `publishing` | 2 events of a wallet, 2 publishers, 3 failures | the fair refinement of `EventDelivery`, price of extra copies, gaps are visible and owed |
| `consuming` | 3 messages, 1 instance and its restarts, 1 failure, 1 shutdown | nothing lost or redelivered without a cause; messages and shutdowns end |
| `lifecycle` | timeouts of 1 to 3 ticks | start, failed start, stop |
| `values` | 3 wagers under clocks of 3 instants; texts of up to 6 of 8 characters, int64 of 2560 values; 25 retries | no refusal by time, order of instants, expiry; parsing and writing of money; documented visibilities and doubling delays |
| `shutdown` | 2 messages, 1 instance, 1 shutdown | **violation**: see below |
| `backoff` | 2 messages, 1 instance, 1 timeout | **violation**: see below |
| `delays` | 11 delays of one item | **violation**: see below |

Bounds. `MaxMoney` is 2 or 3, enough for a balance to be empty, exact, short or
full. Two wallets are needed only for identity races and mismatched references,
so the other runs have one. In `identities` the two calls may share an identity
with the message, with each other or with neither; in `settling` three sessions
give two rivals for a third wager, and a fourth shows no new kind of
interleaving because a session conflicts with others through one wallet, one
message or one identity. `MaxTries` is 2 in `identities` (the code makes three
attempts): one repetition already shows what a repetition may see. `MaxFaults`
and `MaxStops` bound failures and shutdowns; `MaxReceive` is 2 where the queue's
policy says 5, so that a failure and a shutdown reach the dead letter queue.
`MaxDenials` is 1: one failing token already meets a client before, between and after
calls that were committed. In
`consuming` the batch and the semaphore have room for two of the three messages,
and a process that ends is replaced, so that a message meets a successor. Two
events are enough for a gap at the first version and for one after an opening
without event. In `values` three instants are enough for any order of two clocks
around a third; the wait is two of them, so that it expires. The timeouts of
`lifecycle` are long enough for each wait to end by its work and by its limit, and
the slack is the least that `DetachedFits` allows. No run uses symmetry.

Deadlock is checked in every run but `values`: a behaviour of `Wagering` may stop
only when no transaction is open; the publishers may stop only when everything is published. In `values`
the behaviours end because the clocks are bounded.

Fairness. Goroutines are scheduled and time passes: weak fairness of
statements, due times, leases and visibility timeouts. Strong fairness stands
for waits that are queued: PostgreSQL grants a row lock in the order of
arrival; `Claim` of references and of the outbox takes the row due for longest,
so none is passed over for ever; a long poll returns a message that stays
available. That a claim holds again and again until its worker succeeds
(`LockWallet` and `LockPending` with `ClaimHolds`) rests on `config.validate`,
which makes the lease longer than the timeout of an attempt. `answering` adds that
a client makes its next call and takes its answers. No arrival,
opening, failure or shutdown is ever assumed to happen.

Every property has a mutant in `PROJECT.json`: a plausible bug, defined in the
module next to the operator it replaces, under which TLC finds the property
violated.

### Three disagreements with the documentation

* `shutdown`: `run` dispatches a batch with a `select` between the semaphore and
  `pollCtx.Done()`. After a shutdown began, both are ready, Go picks either, and
  the rest of the batch is dropped: neither handled nor released, it stays
  invisible until its visibility timeout. `ARCHITECTURE.md` and `README.md` say
  that received messages are waited for and that a cancelled one is released.
  No message is lost (`DeletedOnlyWhenCommitted`, `MessagesEnd`).
* `backoff`: `handle` releases a message whenever its context is over, also by
  the processing timeout while the instance runs on; the documentation promises
  5 seconds or more after a transient failure and keeps the release for the
  shutdown.
* `delays`: `backoff` in `application/reference` and `application/outbox` adds its
  jitter after the limit of five minutes, so the ninth retry may wait up to 320 s
  and the tenth comes sooner after its failure; `README.md` says that the backoff
  is between one second and five minutes.

Two smaller ones were met while modelling and have no run of their own.
`ARCHITECTURE.md` lists the stop
of the consumer before that of the reference and outbox workers; the order of
the modules in `bootstrap/module.go` gives the opposite, as `Hooks` of `Lifecycle`
has it, and the events the consumer still commits wait for another instance.
`config.validate` compares leases and timeouts as durations while the stores
pass whole milliseconds to the database, so settings with a fraction of a
millisecond may give a lease shorter than its attempt; tokens keep the outcome
correct (`LatestClaimDecides`, `HistoryIsImmutable`).

## Proofs

TLAPS proves for every value of the constants, that is, for any numbers of
wallets, sessions, workers, messages, events, clients, readers, instances and
failures, any `MaxMoney` and width of an integer, any capacity of the semaphore,
any page sizes, texts, instants, numbers of attempts and timeouts:

| Module | Theorem | States |
|---|---|---|
| `WageringProofs` | `Safety` | `Spec => []SafetyInv` |
| | `TypesHold` | `Spec => []TypeOK` |
| | `LedgerIsContinuous` | `Spec => []LedgerContinuity` |
| | `Identities`, `IdentitiesAreUnique` | `Spec => []IdentityInv`, `Spec => []IdentityUnique` |
| | `NobodyWaitsInACircle` | `Spec => []NoCircularWait` |
| `DecisionProofs` | `Decisions` | `Spec => []DecisionInv`, with the two above |
| | `ReversedAtMostOnce` | `Spec => []SingleReversal` |
| | `HistoryStands` | `Spec => HistoryIsImmutable`, an action property |
| | `Effects`, `EffectsHappenOnce` | `Spec => []EffectInv`, `Spec => []OneEffectPerWager` |
| | `ReversalsUndo` | `Spec => []ReversalUndoesReference` |
| | `DatabaseNeverRefuses` | `Spec => []DatabaseAccepts` |
| | `OutboxIsTrue` | `Spec => []OutboxTellsHistory` |
| `AnswerProofs` | `Answers` | `Spec => []AnswerInv`, with what it rests on |
| | `AnswersLast` | `Spec => []AnswersAreDurable` |
| | `RefusalsAreTrue` | `Spec => []ErrorsAreTrue` |
| | `InboxIsTrue` | `Spec => []InboxNamesItsWager` |
| | `RefusalsLast` | `Spec => []RefusalsAreForGood` |
| | `HttpRefinesWagering` | `HttpSpec => Spec`: the API adds no behaviour to `Wagering` |
| | `ClientsAreServed` | `HttpSpec => []ClientInv`, with what it rests on |
| | `ProvidersStaySeparate` | `HttpSpec => []ProvidersAreSeparate` |
| | `RefusalsStayTrue` | `HttpSpec => []RefusalsLeaveNothing` |
| `RefinementProofs` | `WageringImplementsLedger` | `Spec => ImplementsWalletLedger` |
| | `DomainNeverRefuses` | `Spec => []DomainAccepts` |
| | `ReadersOnlyRead` | `ReadSpec => Spec`: readers change nothing |
| | `ReadersAreServed` | `ReadSpec => []ReadInv`, with what it rests on |
| | `ReadsStayConsistent` | `ReadSpec => []ReadsAgree` |
| | `ReconciliationIsRight` | `ReadSpec => []ReconciliationFindsNoFault` |
| `OutboxProofs` | `OutboxSafety`, `OutboxTypes` | `Spec => []OutboxInv`, `Spec => []TypeOK` |
| | `LatestClaimHolds` | `Spec => LatestClaimDecides`, an action property |
| | `PublishersImplementDelivery` | `Spec => Delivery!Spec` |
| | `ExtraCopiesAreFailures` | `Spec => []ExtraCopiesNeedFailures` |
| | `GapsWillBeFilled` | `StreamSpec => []GapsAreOwed` |
| `ConsumerProofs` | `Consumers` | `Spec => []ConsumerInv` |
| | `NothingIsLost` | `Spec => []DeletedOnlyWhenCommitted` |
| | `NobodyWaitsForASlot` | `Spec => []DispatchNeverWaits` |
| | `StoppedIsIdle` | `Spec => []NoWorkAfterStop` |
| | `RedeliveriesAreFailures` | `Spec => []RedeliveriesNeedFailures` |
| `ValueProofs` | `Instants` | `Spec => []ClocksInv` |
| | `NoClockRefuses` | `Spec => []ClocksNeverRefuse` |
| | `InstantsTellTheOrder` | `Spec => []TimesFollowCommits` |
| | `TheLastAttemptComes` | `Spec => []ExpiredIsClaimable` |
| | `RetriesKeepTheirSpacing` | `RetrySpec => []RetriesAreSpaced` |
| | `AmountsKeepMeaning` | `AmountSpec => []AmountsSurviveText` |
| `LifecycleProofs` | `Stops` | `Spec => []StopInv` |
| | `PoolIsLast` | `Spec => []PoolOutlivesWorkers` |
| | `StartsAreUndone` | `Spec => []EveryStartIsUndone` |
| | `BudgetCoversWorkers` | `Spec => []WorkersEndWithinBudget`, if `DetachedFits` |

The invariants are proved and therefore in no run; each was first put to TLC on
the instances of the runs. Every proof that one is inductive has a lemma per
action, and frame lemmas for what an action leaves alone.

### Wager processing

*Ledger.* `LedgerContinuity` is not inductive: a commit writes the balance its
transaction computed from what it read, so the proof needs that the wallet is
still what it read. `LockInv` says so of every statement between the lock and the
commit (`Holding`): the wallet's lock is held by that actor, and `acct` is the
wallet. `PlanInv` adds that the balance to be written follows from `acct`,
`ActorInv` which locals are set at which statement, `TablesInv` that inbox rows and
openings point to rows that exist. `SafetyInv` is their conjunction. `ActorStep`
shows that the others keep theirs when one actor moves, because only the holder of
a lock changes a wallet and no row disappears; `ChainAppend` is the arithmetic of
one more ledger entry.

*Identity.* `IdentityUnique` needs the uncommitted rows as well: `IdentityInv` says
that a session between its `INSERT` and its `COMMIT` shares its identity with no
durable row and with no other such session, and that only valid requests get there.

*Waits.* `HolderInv` says that the holder of a wallet's lock is at a statement under the
lock (`UnderLock`), where it waits for no inbox row and no wallet. Take the actor of a
set that has come furthest in the order inbox row, wallet, `INSERT`: one that waits
at its `INSERT` waits for a session that is about to commit and waits for
nobody; one that waits for a wallet waits for an actor under the lock; one that
waits for an inbox row waits for one that is past it. So no set of actors is
without one that waits for none of them.

*Decisions.* A transaction judges a reference by several reads under READ COMMITTED
and commits later. `JudgeInv` says what of that judgement must still be true at each
statement: `Justified` is a disjunction over the ways a decision may rest on the
tables, and each disjunct is stable under the commits of others, except that a
reversal of the same target may be committed; that one needs the wallet's lock,
which `LockInv` gives to at most one of two rivals of one wallet, and an accepted
reference is in the wallet of the request. `RowInv` says of a durable row what
`Justified` said of the plan, `ClaimInv` that a worker past `LockPending` still holds the
row it claimed, still pending. `DecisionInv` is their conjunction with
`SingleReversal`. `HistoryIsImmutable` follows: whatever a commit overwrites was
pending.

*Effects.* `EffectInv` pairs rows and entries: each entry belongs to a processed row and
carries its direction, amount, balance and version (`EntryInv`), no two entries belong
to one row, and each processed row that moves money has its entry. `DatabaseAccepts` and `OutboxTellsHistory` are read off these pairs.

*Answers.* What a submission has read may be overtaken. `AnswerInv` distinguishes what is
`Lasting` (settled rows, identities, completed inbox rows, wallets) from what may change
(a pending status), and says for each statement which of its locals rest on
lasting facts: an answer, a reported conflict, the row that an identity race must
find on its one repetition. What was `Backed` once stays so.

*Refinement.* `WageringImplementsLedger` maps initial states to initial states and
each step to a step of `WalletLedger` or a stutter. The commit of an insert
or a completion is a step there because `JudgeInv` says the decision is still
justified and `LockInv` that the balance is the one it was computed from;
`OfferedInv` adds that a submission works on a request somebody made. `DomainAccepts`
needs `Readable` besides: every stored row passes `Rehydrate`.

*Clients.* `HttpRefinesWagering` makes every theorem about `Wagering` one about the
system behind the API, so that only what the clients hold is left to show. A call is
let in or turned away (`LetIn`, `TurnedAway`); no verdict on a token lets in a client that
its own identity would not, and a client with the right identity is turned away only
by 401 or 403 (`VerdictMeans`). `CallInv`
says that the calls of a client run as its own attempts, with its own request, and
only if it was let in; `ToldInv` that an answer a client holds is `Lasting` and about
its own request, and that a refusal is the result of one of its calls. A refusal
that has been told is then a fact of `AnswerInv` about a finished session, which no
later step takes back; the statuses that may be about one call only are what
`RefusalsLeaveNothing` leaves out. `AnswerInv` says for this purpose also that
a session with an error has no answer.

*Reads.* `ReadInv` describes a listing by two numbers: the pages given so far are
the g newest of the n entries that existed at the first page, and the cursor stands
at the last of them (`Paged`). Later commits only append, and the versions of a
ledger grow by `EffectInv`, so the next page, which asks for smaller versions,
continues where the last one ended. `Informed` keeps the entry that left the
balance a reader was told, `Judged` what a reconciliation compared. Its sum over a
ledger is the last entry's `after` because the ledger is a chain
(`LedgerContinuity`); that a balance and the number of entries come from one
statement is what makes the two agree while wagers commit.

### Outbox

`OutboxInv`: a lease is named by the attempt that took it, workers that hold one
event are in different attempts (`AttemptsApart`), what a worker is about to confirm
has been sent, what is published was sent and is held by nobody. This gives the
refinement of the safety part of `EventDelivery` and `LatestClaimDecides`: among the
workers of an event only one can have the latest attempt.

`ExtraCopiesNeedFailures` counts over all events, so the proof injects one set into
another: `CopyInv` bounds the copies of an event by its attempts (each attempt sends at
most once), so every copy beyond the first is a wasted attempt, one that is not
the latest or can no longer publish; `WasteInv` says that wasted attempts are never
more than failures. A claim of an event makes its last attempt wasted only
if it already was, since a live lease cannot be taken.

`StreamInv` says that what each event tells is what the wallet was at its version,
and that every version but the opening of an empty wallet has an event. An event
that the queue has not taken is not published, by `OutboxInv`, so it is owed
(`UnsentIsOwed`). Whether a consumer sees a gap is a matter of the maximum of a
finite set of versions.

### Consumer

`ConsumerInv` follows the code's own reasons: `RoomInv`, that the loop asks for no
more messages than the semaphore had room for and only the loop acquires it;
`ShutdownInv`, that `stop` waits for the loop before it waits for the handlers;
`HandlerInv`, that a handler deletes after `Consume` has committed; `QueueInv`, what the
place of a message says about it.

`RedeliveriesNeedFailures` is an accounting: `Debt` is the number of deliveries of a
message except the one that is under way or ended well, `Unspent` the set of
instances whose shutdown has been counted and may still cost the message a
delivery. `PaidInv` says that both together are at most failures and shutdowns. A
delivery goes wrong by a failure, which raises the right side, or by a shutdown,
which leaves `Unspent` when the debt rises. Neither set is the whole story alone:
an instance may go on receiving after its shutdown began, and a process may end
with messages in hand.

### Values

*Instants.* `ClocksInv` dates the wallet like its last entry and every entry like its wager
(`EntriesInv`); a wager that moved money is no later than the wallet, and a processed
one comes after the movement it refers to (`RowsInv`); an attempt is due before the wait ends (`ScheduleInv`). The key
lemma is `DecisionTime`: the instant of a decision is at least the wager's and the
wallet's, whatever the clock said. `OrderInv` says which rows can exist when.

*Retries.* `RetryInv` adds to the property that the visibility and the doubled delay
of the *next* attempt are those of the tables. The code computes each from the first
attempt by a loop; `VisibilityDoubles` and `DelayDoubles` show that one more round of
the loop doubles up to the limit, and `TablesDouble` that the tables do.

*Amounts.* `Worth` is the reference: the positional value of the digits, where `ParseInt`
accumulates them from the left. `NumberIsWorth` relates the two for texts of any
length, `ParseSpelled` and `ParseRefuses` say that exactly the well-spelled texts
are parsed, for what they are worth if it fits, and `TextParses` that what `String`
writes of any int64, the least one included, is read back as that int64.

A recursive function is first shown to exist and to satisfy its equation
(`RecursionRuns`). Induction over a length or a count is by the least
counterexample (`LeastNumber`), since the induction theorems of
the library, with an operator as parameter, are out of the provers' reach.

### Process

`StopInv` goes by the place of a hook: a worker whose place is beyond `started` has no
goroutine and no work (`WorkerInv`), whether it never started or was stopped; the stage
of a stop tells which of its waits are over (`StageInv`); the pool closes after them
(`PoolInv`). `TimeInv` is a potential: what is `left` of the budget is more than the sum of
what each hook still to be stopped may need, which for a hook not yet reached is
its limit and for the one that stops its timer or what is `due` of its work. A tick
happens only in a wait, whose need it shortens; no other step adds to the sum,
because no work begins in a loop that has been cancelled, except the consumer's,
whose full limit is kept until its loop has ended. Here the proof found what the
budget rests on: it reserves `SQSShutdown` and `SQSProcessing` one after the other
although the drain of the consumer runs beside the work it waits for, and what is
free of `SQSShutdown` and the slack must exceed what the three workers may run beyond
their cancellation. That is `DetachedFits`, the hypothesis of the theorem, which
`StopTimeout` does not provide for and `config.validate` does not check.

### Assumptions

`MaxMoneyAssumption`: `MaxMoney` is a natural number. `Wagering` assumes that
`None` is none of the values it stands beside (wallets, messages, failure codes as
in `CodesAssumption`), that sessions, workers and wallets do not share names, that
offers are requests and `MaxTries` is positive. `PublisherAssumption` and
`StreamAssumption` say that amounts are positive and bounds natural;
`ConsumerAssumption` that capacity, batch and receive limit are positive;
`ClocksAssumption` that lease, first delay and backoffs are positive and the wait is
not shorter than the first delay (24 hours and one second in the code);
`TimeoutsAssumption` that all timeouts and the slack are positive. `ClientsAssumption` says that the
calls of different clients are different sessions without a message, which may
carry what their client wants, and that `MaxDenials` is natural; `ReadersAssumption` that readers are not actors,
page sizes are positive and `None` is not a listing, a cursor or a balance;
`AttemptsAssumption` and `WidthAssumption` that the number of attempts and the
largest integer are positive. TLC evaluates all of them in its runs.

### Only model-checked

Every safety property that a run checks is a theorem. What remains with TLC is
liveness under fairness, which TLAPS does not support: `PendingReferencesEnd`,
`ClientsGetAnswers`, `MessagesEnd`, `ShutdownsEnd` and the fair part of
`DeliversEveryEvent`; and the three counterexamples of the runs that expect a violation.

## Not modelled

* The SQS gateway of the development setup (`cmd/sqs-gateway`): a stateless
  proxy that checks signatures and policies.
* Metrics, logs and the readiness checks of dependencies: they observe only.
* How a token is verified (a library's work; `Verdicts` has what may come of it) and the JSON forms of requests,
  messages, events and cursors; whether they decode is an input of the models.
* Parsing of the environment; its comparisons of settings decide in `SqsConsumer`,
  `OutboxPublisher` and `Wagering` which expirations are failures.
* The `FAILED` status, which exists in the domain but which no flow persists.
* Migration of a populated database.
* FIFO groups of the queues: the models allow any order.
* `SqsConsumer` and the inbox of `Wagering` are not composed in one module. What
  the consumer relies on is checked on each side: `Wagering` shows that a
  redelivered message has one wager and that errors taken for permanent are
  (`InboxNamesItsWager`, `RefusalsAreForGood`), `SqsConsumer` that a message is
  deleted only when its wager is committed.

## Plan

1. Done: the core (`WagerDomain`, `Wagering`, `OutboxPublisher`, `SqsConsumer`) and
   its first theorems.
2. Done: the promise (`WalletLedger`), the domain's contracts, reads, API, clocks,
   event stream, delays, amounts and the life of a process.
3. Done: proofs of every safety property of `Wagering`, of its refinement, of the
   outbox, the consumer, the clocks and the life of a process.
4. Done: proofs about clients, readers, reconciliations, retries and amounts.
   Every safety property is a theorem; liveness stays with TLC.
