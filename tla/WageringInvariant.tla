-------------------------- MODULE WageringInvariant --------------------------
(***************************************************************************)
(* The inductive invariants behind the theorems of the proof modules.      *)
(* They say what a statement of a transaction may rely on: which locals    *)
(* are set at each statement, that the transaction which holds a wallet's  *)
(* row lock has read that wallet as it still is, that nobody else is about *)
(* to insert the same identity, that a decision stays justified until it   *)
(* is committed, that rows and ledger entries are paired, and that what a  *)
(* submission has read or was told goes on being true.                     *)
(***************************************************************************)
EXTENDS Wagering

SessionLabels == Labels \ {"pending", "poll"}
WorkerLabels == {"poll", "lock", "pending", "resolve", "reversal", "commit"}

\* The statements reached with a decision taken.
Decided(a) == pc[a] \in {"write", "commit"}

\* The statements executed under the lock of the request's wallet.
Holding(a) ==
    \/ pc[a] \in {"key2", "ext2", "pending", "resolve", "reversal", "write"}
    \/ pc[a] = "commit" /\ plan[a].op \in {"insert", "complete", "reschedule"}

\* The decision of an actor, once taken, is one it may take: a session inserts
\* or answers from a row that exists, a worker completes or reschedules the row
\* it claimed; a movement leaves the balance that follows from the one read.
PlanInv(a) ==
    LET p == plan[a]
    IN  /\ a \in Workers => p.op \in {"complete", "reschedule"}
        /\ a \in Sessions => p.op \in {"insert", "replay", "duplicate"}
        /\ pc[a] = "write" => p.op = "insert"
        /\ p.op \in {"replay", "duplicate"} => p.answer.tx \in DOMAIN wagers
        /\ p.op \in {"insert", "complete"} => p.answer.status \in Statuses
        /\ p.op \in {"insert", "complete"} => p.answer.tx = TxOf(a)
        /\ p.direction # None =>
              p.answer.balance = Moved(p.direction, acct[a].balance, req[a].amount)

\* The transaction under the wallet lock works on the wallet as it is.
LockInv(a) ==
    LET w == req[a].wallet
    IN  /\ w \in DOMAIN wallets
        /\ walletLock[w] = a
        /\ acct[a].balance = wallets[w].balance
        /\ acct[a].version = wallets[w].version

\* What holds of an actor between two statements.
ActorInv(a) ==
    /\ pc[a] \in IF a \in Sessions THEN SessionLabels ELSE WorkerLabels
    /\ pc[a] \notin {"new", "poll"} => req[a] \in Request
    /\ a \in Workers /\ pc[a] # "poll" =>
          claim[a] \in DOMAIN wagers /\ wagers[claim[a]].req = req[a]
    /\ a \in Sessions /\ a \in DOMAIN wagers => pc[a] = "done"
    /\ seen[a] # NoAnswer => seen[a].tx \in DOMAIN wagers
    /\ Decided(a) => PlanInv(a)
    /\ Holding(a) => LockInv(a)

\* A completed message names a row; a row that is no submission's is the opening
\* of a wallet that exists.
TablesInv ==
    /\ \A m \in DOMAIN inbox : inbox[m].tx \in DOMAIN wagers
    /\ DOMAIN wagers \subseteq Sessions \cup DOMAIN wallets

\* The inductive strengthening of TypeOK and LedgerContinuity: every transaction
\* holds the wallet lock from the read of the balance to the commit that uses it.
SafetyInv ==
    /\ TypeOK
    /\ TablesInv
    /\ \A a \in Actors : ActorInv(a)
    /\ LedgerContinuity

-----------------------------------------------------------------------------
\* The strengthening of NoCircularWait: who holds a wallet's lock is past the
\* statement that takes it, and before the end of the transaction.
UnderLock == {"key2", "ext2", "pending", "resolve", "reversal", "write", "commit"}
HolderInv == \A w \in Wallets : walletLock[w] # None => pc[walletLock[w]] \in UnderLock

-----------------------------------------------------------------------------
\* The statements a submission reaches only with a valid request.
Validated(s) ==
    \/ pc[s] \in {"ext1", "lock", "key2", "ext2", "resolve", "reversal", "write"}
    \/ Inserted(s)

\* The strengthening of IdentityUnique: an uncommitted row, like a committed one,
\* shares its identity with no other.
IdentityInv ==
    /\ IdentityUnique
    /\ \A t \in DOMAIN wagers : IF wagers[t].req.kind = "OPENING"
                                THEN wagers[t].req.provider = None
                                ELSE ValidRequest(wagers[t].req)
    /\ \A s \in Sessions : Validated(s) => ValidRequest(req[s])
    /\ \A s \in Sessions : Inserted(s) =>
          /\ \A t \in DOMAIN wagers : ~SameIdentity(wagers[t].req, req[s])
          /\ \A u \in Sessions \ {s} : Inserted(u) => ~SameIdentity(req[u], req[s])

-----------------------------------------------------------------------------
\* A worker past LockPending works on a row that is still pending and its own:
\* Claim skips a locked row, so the token cannot change under it.
ClaimInv ==
    \A r \in Workers : pc[r] \in {"resolve", "reversal", "commit"} =>
        /\ wagers[claim[r]].status = "PENDING_REFERENCE"
        /\ wagers[claim[r]].token = r

-----------------------------------------------------------------------------
(* What a decision rests on.  A transaction judges a reference by several   *)
(* reads and commits later; these are the facts about the tables that must  *)
(* still hold when it commits.                                              *)

\* Nothing that is settled in its own wallet answers to the reference of r.
MayWait(r) ==
    /\ r.ref # None
    /\ \A t \in ByExternal(r.provider, r.ref) :
          wagers[t].status = "PENDING_REFERENCE" \/ wagers[t].req.wallet # r.wallet

\* The operation t is a reference r may be settled with.
Accepted(r, t) ==
    /\ r.ref # None
    /\ t \in ByExternal(r.provider, r.ref)
    /\ wagers[t].status = "PROCESSED"
    /\ ReferenceFailure(r, wagers[t].req) = None

\* The failure a settled operation u leads to as the reference of r.
FailureFrom(r, u) ==
    IF wagers[u].status = "REJECTED" THEN "REFERENCE_NOT_PROCESSED"
    ELSE ReferenceFailure(r, wagers[u].req)

\* The tables justify settling r with the reference t and this failure.
Justified(r, t, failure) ==
    \/ r.ref = None /\ t = NoTx /\ failure = None
    \/ MayWait(r) /\ t = NoTx /\ failure = "REFERENCE_NOT_FOUND"
    \/ /\ r.ref # None /\ t = NoTx
       /\ failure # None
       /\ \E u \in ByExternal(r.provider, r.ref) :
             wagers[u].status \in Terminal /\ failure = FailureFrom(r, u)
    \/ /\ Accepted(r, t)
       /\ failure = IF r.kind \in ReversalKinds /\ HasProcessedReversal(t)
                    THEN "ALREADY_REVERSED" ELSE None

\* An actor that has accepted a reference, or decided, is still right.  Only a
\* worker gives up waiting for a reference.
JudgeInv(a) ==
    /\ pc[a] = "reversal" => req[a].kind \in ReversalKinds /\ Accepted(req[a], ref[a])
    /\ Decided(a) /\ Writes(plan[a]) =>
          \/ a \in Sessions /\ MayWait(req[a]) /\ plan[a] = PendingPlan(a)
          \/ \E t \in TxIds \cup {NoTx}, f \in FailureCodes \cup {None} :
                /\ Justified(req[a], t, f)
                /\ a \in Sessions => f # "REFERENCE_NOT_FOUND"
                /\ plan[a] = FinishPlan(a, t, f, acct[a].balance)

\* A durable row: only a submission waits, a processed operation has the reference
\* it asked for.
RowInv(t) ==
    /\ wagers[t].status = "PENDING_REFERENCE" => /\ wagers[t].req.kind # "OPENING"
                                                 /\ wagers[t].refTx = NoTx
    /\ wagers[t].status = "PROCESSED" =>
          IF wagers[t].req.ref = None THEN wagers[t].refTx = NoTx
          ELSE Accepted(wagers[t].req, wagers[t].refTx)

\* The strengthening of SingleReversal and of DatabaseAccepts: a decision stays
\* justified from the reads it rests on to the commit that makes it durable.
DecisionInv ==
    /\ ClaimInv
    /\ \A t \in DOMAIN wagers : RowInv(t)
    /\ \A a \in Actors : JudgeInv(a)
    /\ SingleReversal

-----------------------------------------------------------------------------
\* The direction in which a durable row moves money.
RowDirection(t) ==
    Direction(wagers[t].req.kind,
              IF wagers[t].refTx = NoTx THEN None ELSE wagers[wagers[t].refTx].req.kind)

\* The entry at place i of wallet w is the effect of a processed row of that wallet,
\* comes after the effect it undoes, and its version counts from the wallet's back.
EntryInv(w, i) ==
    LET e == ledger[w][i]
        row == wagers[e.tx]
    IN  /\ e.tx \in DOMAIN wagers
        /\ row.status = "PROCESSED" /\ row.req.kind # "LOSS" /\ row.req.wallet = w
        /\ e.amount = row.req.amount /\ e.after = row.balance
        /\ e.direction = RowDirection(e.tx)
        /\ row.req.kind \in ReversalKinds =>
              \E j \in DOMAIN ledger[w] : j < i /\ ledger[w][j].tx = row.refTx
        /\ e.version + Len(ledger[w]) = wallets[w].version + i

\* The strengthening of OneEffectPerWager: rows and entries are paired.
EffectInv ==
    /\ \A w \in Wallets : \A i \in DOMAIN ledger[w] :
          /\ EntryInv(w, i)
          /\ \A j \in DOMAIN ledger[w] : ledger[w][i].tx = ledger[w][j].tx => i = j
    /\ \A t \in DOMAIN wagers :
          wagers[t].status = "PROCESSED" /\ wagers[t].req.kind # "LOSS" =>
              \E i \in DOMAIN ledger[wagers[t].req.wallet] :
                 ledger[wagers[t].req.wallet][i].tx = t

-----------------------------------------------------------------------------
\* A submission works on a request that it was given.
OfferedInv == \A s \in Sessions : pc[s] # "new" => req[s] \in Offers[s]

-----------------------------------------------------------------------------
(* What submissions are told                                                *)

\* An answer that was read names a row, and a terminal one is that row for good.
Lasting(x) == /\ x.tx \in DOMAIN wagers
              /\ x.status \in Statuses
              /\ x.status \in Terminal => x = AnswerOf(x.tx)

\* A completed message names the row its content describes.
InboxInv == InboxNamesItsWager /\ \A m \in DOMAIN inbox : ValidRequest(inbox[m].content)

\* Rows, and submissions past the wallet lock, belong to the owner of the wallet.
OwnerInv ==
    /\ \A t \in DOMAIN wagers : /\ wagers[t].req.wallet \in DOMAIN wallets
                                /\ Owned(wagers[t].req)
    /\ \A s \in Sessions : Holding(s) => Owned(req[s])

\* The message a session delivers has been completed with the session's request.
Completed(s) == Message[s] \in DOMAIN inbox /\ inbox[Message[s]].content = req[s]

\* One delivery of a message at a time is past the claim, and until it commits the
\* message stays as it found it: new, or completed if it answers from the inbox.
MessageInv(s) ==
    Message[s] # None /\ pc[s] \notin {"new", "claim", "done"} =>
        /\ ~MessageHeld(s)
        /\ IF pc[s] = "commit" /\ plan[s].op = "duplicate" THEN Completed(s)
           ELSE Message[s] \notin DOMAIN inbox

\* The row found by key has that key, also after other statements.
KnownInv(s) ==
    seen[s] # NoAnswer => /\ pc[s] # "new" /\ Lasting(seen[s])
                          /\ seen[s].tx \in ByKey(req[s])

\* What is replayed is the very request.
ReplayInv(s) ==
    pc[s] = "commit" /\ plan[s].op \in {"replay", "duplicate"} =>
        /\ Lasting(plan[s].answer) /\ ValidRequest(req[s])
        /\ wagers[plan[s].answer.tx].req = req[s]

\* A session that lost a race has a durable rival, which the retry finds.
RaceInv(s) ==
    raced[s] =>
        /\ pc[s] \in {"claim", "key1", "ext1", "commit", "done"}
        /\ \E t \in DOMAIN wagers : SameIdentity(wagers[t].req, req[s])
        /\ pc[s] = "ext1" /\ seen[s] = NoAnswer =>
              ByExternal(req[s].provider, req[s].ext) # {}

\* The tables bear out a refusal.
Backed(s, code) ==
    LET r == req[s]
    IN  /\ code # "IDENTITY_RACE"
        /\ code = "IDEMPOTENCY_CONFLICT" =>
              \E t \in ByKey(r) : PayloadHash(wagers[t].req) # PayloadHash(r)
        /\ code = "EXTERNAL_ID_CONFLICT" =>
              \E t \in ByExternal(r.provider, r.ext) : wagers[t].req.key # r.key
        /\ code = "INVALID_INPUT" => ~ValidRequest(r)
        /\ code = "WALLET_MISMATCH" => r.wallet \in DOMAIN wallets /\ ~Owned(r)
        /\ code = "MESSAGE_CONFLICT" => Message[s] \in DOMAIN inbox /\ ~Completed(s)

\* What each result rests on.
ResultInv(s) ==
    LET code == result[s].code
        answer == result[s].answer
    IN  /\ code # None => pc[s] = "done"
        /\ code # "OK" => answer = NoAnswer
        /\ code = "OK" => /\ Lasting(answer) /\ ValidRequest(req[s])
                          /\ wagers[answer.tx].req = req[s]
                          /\ Message[s] # None => Completed(s)
        /\ Backed(s, code)
        /\ code \notin {"OK", "ERROR", None} => s \notin DOMAIN wagers

\* The strengthening of AnswersAreDurable, ErrorsAreTrue, InboxNamesItsWager and
\* RefusalsAreForGood.
AnswerInv ==
    /\ InboxInv
    /\ OwnerInv
    /\ \A s \in Sessions : /\ MessageInv(s) /\ KnownInv(s) /\ ReplayInv(s)
                           /\ RaceInv(s) /\ ResultInv(s)
=============================================================================
