----------------------------- MODULE AnswerProofs -----------------------------
(***************************************************************************)
(* What submissions are told is true and stays true: AnswerInv is          *)
(* invariant, for every number of sessions, workers, wallets and messages; *)
(* and so is what clients are told over HTTP.                              *)
(***************************************************************************)
EXTENDS DecisionProofs, HttpApi

\* What holds of one submission whatever the others do.
SubmissionInv(s) ==
    /\ KnownInv(s) /\ ReplayInv(s) /\ RaceInv(s) /\ ResultInv(s)
    /\ Holding(s) => Owned(req[s])

\* Everything an answer may rest on is still there after a step.
AnswersGrow ==
    /\ SettledKept
    /\ \A m \in DOMAIN inbox : m \in DOMAIN inbox' /\ inbox'[m] = inbox[m]
    /\ \A w \in DOMAIN wallets : /\ w \in DOMAIN wallets'
                                 /\ wallets'[w].player = wallets[w].player
                                 /\ wallets'[w].currency = wallets[w].currency

\* A step in which a submission takes no part.
Aside(b) == LocalsKept(b) /\ result'[b] = result[b] /\ raced'[b] = raced[b]

-----------------------------------------------------------------------------
(* Facts that outlive a step                                                *)

\* An answer that is read now is true now.
LEMMA LastingRead ==
    ASSUME TypeOK, NEW t \in DOMAIN wagers
    PROVE  Lasting(AnswerOf(t)) /\ AnswerOf(t).tx = t
  <1>1. wagers[t].status \in Statuses
    BY DEF TypeOK, Row
  <1> QED BY <1>1 DEF Lasting, AnswerOf

\* An answer that was read stays true.
LEMMA LastingKept ==
    ASSUME SettledKept, NEW x, Lasting(x)
    PROVE  Lasting(x)' /\ wagers'[x.tx].req = wagers[x.tx].req
  <1>1. x.tx \in DOMAIN wagers' /\ wagers'[x.tx].req = wagers[x.tx].req
    BY DEF Lasting, SettledKept
  <1>2. ASSUME x.status \in Terminal PROVE x = AnswerOf(x.tx)'
    <2>1. x = AnswerOf(x.tx) BY <1>2 DEF Lasting
    <2>2. wagers[x.tx].status \in Terminal
      BY <1>2, <2>1 DEF AnswerOf
    <2>3. wagers'[x.tx] = wagers[x.tx]
      BY <2>2 DEF SettledKept, Lasting
    <2> QED BY <2>1, <2>3 DEF AnswerOf
  <1> QED BY <1>1, <1>2 DEF Lasting

\* A refusal stays backed.
LEMMA BackedKept ==
    ASSUME AnswersGrow, NEW s \in Sessions, NEW code, Backed(s, code), req'[s] = req[s]
    PROVE  Backed(s, code)'
  BY DEF AnswersGrow, Backed, SettledKept, ByKey, ByExternal, Owned, Completed

\* A submission that takes no part in a step keeps what holds of it.
LEMMA AsideKept ==
    ASSUME SafetyInv, AnswersGrow, NEW b \in Sessions, Aside(b), SubmissionInv(b),
           b \in DOMAIN wagers' => b \in DOMAIN wagers
    PROVE  SubmissionInv(b)'
  <1>0. ActorInv(b) /\ SettledKept /\ LocalsKept(b)
    BY DEF SafetyInv, Actors, AnswersGrow, Aside
  <1>1. KnownInv(b)'
    BY <1>0, LastingKept DEF SubmissionInv, KnownInv, LocalsKept, ByKey, SettledKept
  <1>2. ReplayInv(b)'
    BY <1>0, LastingKept DEF SubmissionInv, ReplayInv, LocalsKept
  <1>3. RaceInv(b)'
    BY <1>0 DEF SubmissionInv, RaceInv, LocalsKept, Aside, SettledKept, ByExternal
  <1>4. ResultInv(b)'
    <2>1. PICK code, x : code = result[b].code /\ x = result[b].answer OBVIOUS
    <2>2. result'[b].code = code /\ result'[b].answer = x
      BY <2>1 DEF Aside
    <2>3. Backed(b, code)'
      BY <1>0, <2>1, BackedKept DEF SubmissionInv, ResultInv, LocalsKept
    <2>4. code = "OK" => /\ Lasting(x)' /\ ValidRequest(req'[b])
                         /\ wagers'[x.tx].req = req'[b]
                         /\ Message[b] # None => Completed(b)'
      BY <1>0, <2>1, LastingKept
      DEF SubmissionInv, ResultInv, LocalsKept, Completed, AnswersGrow
    <2>5. code # None => pc'[b] = "done"
      BY <1>0, <2>1 DEF SubmissionInv, ResultInv, LocalsKept
    <2>6. /\ code \notin {"OK", "ERROR", None} => b \notin DOMAIN wagers'
          /\ code # "OK" => x = NoAnswer
      BY <2>1 DEF SubmissionInv, ResultInv
    <2> QED BY <2>2, <2>3, <2>4, <2>5, <2>6 DEF ResultInv, Backed, Lasting
  <1>5. Holding(b)' => Owned(req[b])'
    BY <1>0 DEF SubmissionInv, Holding, Owned, LocalsKept, AnswersGrow, ActorInv, LockInv
  <1> QED BY <1>1, <1>2, <1>3, <1>4, <1>5 DEF SubmissionInv

\* A read of an actor leaves the results of the others alone.
LEMMA ReadAside ==
    ASSUME TypeOK, NEW a \in Actors, ReadStep(a), NEW b \in Sessions, b # a
    PROVE  Aside(b)
  <1>1. LocalsKept(b)
    BY ReadStepFrame DEF Actors
  <1>2. ASSUME NEW code, NEW answer, Conclude(a, code, answer)
        PROVE  result'[b] = result[b]
    BY <1>2 DEF Conclude, TypeOK
  <1>3. result'[b] = result[b]
    BY <1>2 DEF ReadStep, SessionStatement, ClaimMessage, RejectInput, LookupKey,
       LookupExternal, WalletNotFound, InsertTransaction, IdentityRace, WalletMismatch,
       LockPending, LockWallet, ResolveReference, CheckReversal, Abort, RetryAbort,
       Fail, Goto, Decide, Receive
  <1>4. raced'[b] = raced[b]
    BY DEF TypeOK, ReadStep, SessionStatement, ClaimMessage, RejectInput, LookupKey,
       LookupExternal, WalletNotFound, InsertTransaction, IdentityRace, WalletMismatch,
       LockPending, LockWallet, ResolveReference, CheckReversal, Abort, RetryAbort,
       Fail, Goto, Decide, Receive
  <1> QED BY <1>1, <1>3, <1>4 DEF Aside

-----------------------------------------------------------------------------
(* The statements of a submission                                           *)

\* An error return that the tables back.
LEMMA RefusalTold ==
    ASSUME SafetyInv, NEW s \in Sessions, SubmissionInv(s), InTransaction(s), NEW code,
           code # "OK", Backed(s, code), Conclude(s, code, NoAnswer),
           UNCHANGED <<tables, req>>, raced'[s] = raced[s]
    PROVE  SubmissionInv(s)'
  <1>0. TypeOK /\ ActorInv(s) /\ s \in Actors
    BY DEF SafetyInv, Actors
  <1>1. /\ pc'[s] = "done" /\ seen'[s] = NoAnswer
        /\ result'[s].code = code /\ result'[s].answer = NoAnswer
    BY <1>0 DEF Conclude, ForgetAttempt, TypeOK
  <1>2. KnownInv(s)' /\ ReplayInv(s)' /\ ~Holding(s)'
    BY <1>1 DEF KnownInv, ReplayInv, Holding
  <1>3. RaceInv(s)'
    BY <1>1 DEF SubmissionInv, RaceInv, tables
  <1>4. s \notin DOMAIN wagers
    BY <1>0 DEF ActorInv, InTransaction
  <1>5. Backed(s, code)'
    BY DEF Backed, tables, ByKey, ByExternal, Owned, Completed
  <1>6. ResultInv(s)'
    BY <1>1, <1>4, <1>5 DEF ResultInv, Backed, tables
  <1> QED BY <1>2, <1>3, <1>6 DEF SubmissionInv

\* A transaction that starts again has told nothing yet.
LEMMA RestartTold ==
    ASSUME SafetyInv, NEW s \in Sessions, SubmissionInv(s), InTransaction(s), Restart(s),
           UNCHANGED <<tables, req, result>>,
           raced'[s] = raced[s] \/ \E t \in DOMAIN wagers : SameIdentity(wagers[t].req, req[s])
    PROVE  SubmissionInv(s)'
  <1>0. TypeOK /\ ActorInv(s) /\ s \in Actors /\ s \notin Workers
    BY ActorsAssumption DEF SafetyInv, Actors
  <1>1. pc'[s] \in {"claim", "key1"} /\ seen'[s] = NoAnswer
    BY <1>0 DEF Restart, ForgetAttempt, FirstStatement, TypeOK
  <1>2. KnownInv(s)' /\ ReplayInv(s)' /\ ~Holding(s)'
    BY <1>1 DEF KnownInv, ReplayInv, Holding
  <1>3. RaceInv(s)'
    BY <1>1 DEF SubmissionInv, RaceInv, tables
  <1>4. result[s].code = None /\ result[s].answer = NoAnswer
    BY CodesAssumption DEF SubmissionInv, ResultInv, InTransaction, Codes
  <1>5. ResultInv(s)'
    BY <1>4, CodesAssumption DEF ResultInv, Backed, Codes
  <1> QED BY <1>2, <1>3, <1>5 DEF SubmissionInv

\* A statement that reads and moves on.
LEMMA ReadTold ==
    ASSUME SafetyInv, NEW s \in Sessions, SubmissionInv(s), InTransaction(s),
           UNCHANGED <<tables, req, result, raced>>, pc'[s] # "new",
           KnownInv(s)', ReplayInv(s)', RaceInv(s)', Holding(s)' => Owned(req[s])
    PROVE  SubmissionInv(s)'
  <1>1. result[s].code = None /\ result[s].answer = NoAnswer
    BY CodesAssumption DEF SubmissionInv, ResultInv, InTransaction, Codes
  <1>2. ResultInv(s)'
    BY <1>1, CodesAssumption DEF ResultInv, Backed, Codes
  <1> QED BY <1>2 DEF SubmissionInv, Owned, tables

\* A message claimed, in conflict or already completed.
LEMMA ClaimMessageTold ==
    ASSUME SafetyInv, NEW s \in Sessions, SubmissionInv(s), InboxInv, ClaimMessage(s)
    PROVE  SubmissionInv(s)'
  <1>0. /\ TypeOK /\ s \in Actors /\ pc[s] = "claim" /\ InTransaction(s)
    BY DEF SafetyInv, Actors, ClaimMessage, InTransaction
  <1>1. CASE Message[s] \in DOMAIN inbox /\ inbox[Message[s]].content # req[s]
             /\ Fail(s, "MESSAGE_CONFLICT")
    <2>1. Backed(s, "MESSAGE_CONFLICT")
      BY <1>1 DEF Backed, Completed
    <2> QED BY <1>0, <1>1, <2>1, RefusalTold DEF Fail
  <1>2. CASE Goto(s, "key1") /\ UNCHANGED <<walletLock, locals>>
    <2>1. /\ pc'[s] = "key1" /\ seen'[s] = seen[s] /\ UNCHANGED <<tables, req, result, raced>>
      BY <1>0, <1>2 DEF Goto, TypeOK, locals
    <2>2. KnownInv(s)' /\ ReplayInv(s)' /\ RaceInv(s)' /\ ~Holding(s)'
      BY <2>1 DEF SubmissionInv, KnownInv, ReplayInv, RaceInv, Holding, tables, Lasting,
                  AnswerOf, ByKey
    <2> QED BY <1>0, <2>1, <2>2, ReadTold
  <1>3. CASE /\ Message[s] \in DOMAIN inbox /\ inbox[Message[s]].content = req[s]
             /\ plan' = [plan EXCEPT ![s] =
                   [NoPlan EXCEPT !.op = "duplicate",
                                  !.answer = AnswerOf(inbox[Message[s]].tx)]]
             /\ Goto(s, "commit") /\ UNCHANGED <<walletLock, seen, acct, ref, late>>
    <2>1. PICK t : t = inbox[Message[s]].tx OBVIOUS
    <2>2. /\ t \in DOMAIN wagers /\ wagers[t].req = req[s] /\ ValidRequest(req[s])
      BY <1>3, <2>1 DEF InboxInv, InboxNamesItsWager
    <2>3. /\ pc'[s] = "commit" /\ seen'[s] = seen[s] /\ UNCHANGED <<tables, req, result, raced>>
          /\ plan'[s].op = "duplicate" /\ plan'[s].answer = AnswerOf(t)
      BY <1>0, <1>3, <2>1 DEF Goto, TypeOK, NoPlan
    <2>4. ReplayInv(s)'
      BY <1>0, <2>2, <2>3, LastingRead DEF ReplayInv, Lasting, AnswerOf, tables
    <2>5. KnownInv(s)' /\ RaceInv(s)' /\ ~Holding(s)'
      BY <2>3 DEF SubmissionInv, KnownInv, RaceInv, Holding, tables, Lasting, AnswerOf, ByKey
    <2> QED BY <1>0, <2>3, <2>4, <2>5, ReadTold
  <1> QED BY <1>1, <1>2, <1>3 DEF ClaimMessage

\* The lookup by key finds a row with that key; after a lost race it finds the
\* rival, unless that is the rival by external id alone.
LEMMA LookupKeyTold ==
    ASSUME SafetyInv, NEW s \in Sessions, SubmissionInv(s), LookupKey(s)
    PROVE  SubmissionInv(s)'
  <1> DEFINE x == IF ByKey(req[s]) = {} THEN NoAnswer
                  ELSE AnswerOf(CHOOSE t \in ByKey(req[s]) : TRUE)
  <1>0. /\ TypeOK /\ s \in Actors /\ pc[s] \in {"key1", "key2"} /\ InTransaction(s)
    BY DEF SafetyInv, Actors, LookupKey, InTransaction
  <1>1. /\ pc'[s] = IF pc[s] = "key1" THEN "ext1" ELSE "ext2"
        /\ seen' = [seen EXCEPT ![s] = x] /\ UNCHANGED <<tables, req, result, raced>>
    BY <1>0 DEF LookupKey, Goto, TypeOK
  <1>2. seen'[s] = x
    BY <1>0, <1>1 DEF TypeOK
  <1>3. x # NoAnswer => Lasting(x) /\ x.tx \in ByKey(req[s])
    <2>1. CASE ByKey(req[s]) # {}
      <3>1. PICK t \in ByKey(req[s]) : x = AnswerOf(t) BY <2>1
      <3> QED BY <1>0, <3>1, LastingRead DEF ByKey
    <2> QED BY <2>1
  <1>4. x = NoAnswer => ByKey(req[s]) = {}
    <2>1. CASE ByKey(req[s]) # {}
      <3>1. PICK t \in ByKey(req[s]) : x = AnswerOf(t) BY <2>1
      <3> QED BY <1>0, <3>1, NoNullRow DEF AnswerOf, ByKey, NoAnswer
    <2> QED BY <2>1
  <1> HIDE DEF x
  <1>5. KnownInv(s)' /\ ReplayInv(s)'
    BY <1>1, <1>2, <1>3 DEF KnownInv, ReplayInv, Lasting, AnswerOf, ByKey, tables
  <1>6. RaceInv(s)'
    <2>1. raced[s] /\ x = NoAnswer => ByExternal(req[s].provider, req[s].ext) # {}
      BY <1>4 DEF SubmissionInv, RaceInv, ByKey, ByExternal, SameIdentity
    <2> QED BY <1>0, <1>1, <1>2, <2>1 DEF SubmissionInv, RaceInv, tables, ByExternal
  <1>7. Holding(s)' => Owned(req[s])
    BY <1>0, <1>1 DEF SubmissionInv, Holding
  <1> QED BY <1>0, <1>1, <1>5, <1>6, <1>7, ReadTold

\* Two requests with one key and one payload are the same.
LEMMA SamePayload ==
    ASSUME NEW r \in Request, NEW q \in Request, q.key = r.key,
           PayloadHash(q) = PayloadHash(r)
    PROVE  q = r
  <1>1. /\ PayloadHash(q).provider = q.provider /\ PayloadHash(r).provider = r.provider
        /\ PayloadHash(q).ext = q.ext /\ PayloadHash(r).ext = r.ext
        /\ PayloadHash(q).wallet = q.wallet /\ PayloadHash(r).wallet = r.wallet
        /\ PayloadHash(q).player = q.player /\ PayloadHash(r).player = r.player
        /\ PayloadHash(q).round = q.round /\ PayloadHash(r).round = r.round
        /\ PayloadHash(q).currency = q.currency /\ PayloadHash(r).currency = r.currency
        /\ PayloadHash(q).kind = q.kind /\ PayloadHash(r).kind = r.kind
        /\ PayloadHash(q).amount = q.amount /\ PayloadHash(r).amount = r.amount
        /\ PayloadHash(q).ref = q.ref /\ PayloadHash(r).ref = r.ref
    BY DEF PayloadHash, Request
  <1> QED BY <1>1 DEF Request

\* Two requests with one payload agree in provider, external id and kind.
LEMMA PayloadNames ==
    ASSUME NEW r \in Request, NEW q \in Request, PayloadHash(q) = PayloadHash(r)
    PROVE  q.provider = r.provider /\ q.ext = r.ext /\ q.kind = r.kind
  <1>1. /\ PayloadHash(q).provider = q.provider /\ PayloadHash(r).provider = r.provider
        /\ PayloadHash(q).ext = q.ext /\ PayloadHash(r).ext = r.ext
        /\ PayloadHash(q).kind = q.kind /\ PayloadHash(r).kind = r.kind
    BY DEF PayloadHash, Request
  <1> QED BY <1>1

\* The evaluation of two lookups that saw different snapshots is right: a conflict
\* is one in the tables, and what is replayed is the very request.
LEMMA VerdictTrue ==
    ASSUME SafetyInv, IdentityInv, NEW s \in Sessions, KnownInv(s), ValidRequest(req[s]),
           req[s] \in Request, NEW x \in Answer,
           LET found == ByExternal(req[s].provider, req[s].ext)
           IN  IF found = {} THEN x = NoAnswer
               ELSE \E t \in found : x = AnswerOf(t)
    PROVE  LET v == EvaluateIdentities(req[s], seen[s], x)
           IN  /\ v.code \in {"IDEMPOTENCY_CONFLICT", "EXTERNAL_ID_CONFLICT"} =>
                     Backed(s, v.code)
               /\ v.code = "REPLAY" => /\ Lasting(v.answer)
                                       /\ wagers[v.answer.tx].req = req[s]
  <1> DEFINE r == req[s]
             k == seen[s]
             v == EvaluateIdentities(r, k, x)
  <1>0. /\ TypeOK /\ s \in Actors /\ k \in Answer /\ r.kind # "OPENING"
    BY DEF SafetyInv, Actors, TypeOK, ValidRequest, ExternalKinds
  <1>1. k # NoAnswer => Lasting(k) /\ k.tx \in ByKey(r)
    BY DEF KnownInv
  <1>2. x # NoAnswer => Lasting(x) /\ x.tx \in ByExternal(r.provider, r.ext)
    BY <1>0, LastingRead DEF ByExternal
  <1>3. ByExternal(r.provider, r.ext) # {} => x # NoAnswer
    BY <1>0, NoNullRow DEF ByExternal, AnswerOf, NoAnswer
  <1>4. \A t \in DOMAIN wagers : wagers[t].req \in Request
    BY <1>0 DEF TypeOK, Row
  <1>5. CASE k # NoAnswer
    <2>1. /\ k.tx \in DOMAIN wagers /\ wagers[k.tx].req.provider = r.provider
          /\ wagers[k.tx].req.key = r.key /\ wagers[k.tx].req \in Request
      BY <1>1, <1>4, <1>5 DEF ByKey
    <2>2. CASE PayloadHash(wagers[k.tx].req) # PayloadHash(r)
      <3>1. v.code = "IDEMPOTENCY_CONFLICT"
        BY <1>5, <2>2 DEF EvaluateIdentities
      <3>2. Backed(s, "IDEMPOTENCY_CONFLICT")
        BY <1>1, <1>5, <2>2 DEF Backed
      <3> QED BY <3>1, <3>2
    <2>3. CASE PayloadHash(wagers[k.tx].req) = PayloadHash(r)
      <3>1. k.tx \in ByExternal(r.provider, r.ext) /\ wagers[k.tx].req.kind # "OPENING"
        BY <1>0, <2>1, <2>3, PayloadNames DEF ByExternal
      <3>2. x.tx = k.tx
        BY <1>2, <1>3, <3>1 DEF IdentityInv, IdentityUnique, SameIdentity, ByExternal
      <3>3. v.code = "REPLAY" /\ v.answer = k
        BY <1>5, <2>3, <3>2 DEF EvaluateIdentities
      <3>4. wagers[k.tx].req = r
        BY <2>1, <2>3, SamePayload
      <3> QED BY <1>1, <1>5, <3>3, <3>4
    <2> QED BY <2>2, <2>3
  <1>6. CASE k = NoAnswer /\ x # NoAnswer
    <2>1. /\ x.tx \in DOMAIN wagers /\ wagers[x.tx].req.provider = r.provider
          /\ wagers[x.tx].req.ext = r.ext /\ wagers[x.tx].req \in Request
      BY <1>2, <1>4, <1>6 DEF ByExternal
    <2>2. CASE wagers[x.tx].req.key # r.key
      <3>1. v.code = "EXTERNAL_ID_CONFLICT"
        BY <1>6, <2>2 DEF EvaluateIdentities
      <3>2. Backed(s, "EXTERNAL_ID_CONFLICT")
        BY <1>2, <1>6, <2>2 DEF Backed
      <3> QED BY <3>1, <3>2
    <2>3. CASE /\ wagers[x.tx].req.key = r.key
               /\ PayloadHash(wagers[x.tx].req) # PayloadHash(r)
      <3>1. v.code = "IDEMPOTENCY_CONFLICT"
        BY <1>6, <2>3 DEF EvaluateIdentities
      <3>2. Backed(s, "IDEMPOTENCY_CONFLICT")
        BY <2>1, <2>3 DEF Backed, ByKey
      <3> QED BY <3>1, <3>2
    <2>4. CASE /\ wagers[x.tx].req.key = r.key
               /\ PayloadHash(wagers[x.tx].req) = PayloadHash(r)
      <3>1. v.code = "REPLAY" /\ v.answer = x
        BY <1>6, <2>4 DEF EvaluateIdentities
      <3>2. wagers[x.tx].req = r
        BY <2>1, <2>4, SamePayload
      <3> QED BY <1>2, <1>6, <3>1, <3>2
    <2> QED BY <2>2, <2>3, <2>4
  <1>7. CASE k = NoAnswer /\ x = NoAnswer
    BY <1>7 DEF EvaluateIdentities
  <1> QED BY <1>5, <1>6, <1>7

\* The lookup by external id: a true conflict, a true replay, or a new operation,
\* which after a lost race it never is.
LEMMA LookupExternalTold ==
    ASSUME SafetyInv, IdentityInv, NEW s \in Sessions, SubmissionInv(s), LookupExternal(s)
    PROVE  SubmissionInv(s)'
  <1> DEFINE found == ByExternal(req[s].provider, req[s].ext)
             x == IF found = {} THEN NoAnswer ELSE AnswerOf(CHOOSE t \in found : TRUE)
             v == EvaluateIdentities(req[s], seen[s], x)
  <1>0. /\ TypeOK /\ s \in Actors /\ pc[s] \in {"ext1", "ext2"} /\ InTransaction(s)
        /\ req[s] \in Request /\ seen[s] \in Answer /\ ValidRequest(req[s])
    BY DEF SafetyInv, Actors, LookupExternal, InTransaction, ActorInv, TypeOK, IdentityInv,
           Validated
  <1>1. x \in Answer /\ IF found = {} THEN x = NoAnswer ELSE \E t \in found : x = AnswerOf(t)
    <2>1. CASE found = {} BY <2>1, ConstantsTyped
    <2>2. CASE found # {}
      <3>1. PICK t \in found : x = AnswerOf(t) BY <2>2
      <3>2. t \in DOMAIN wagers BY DEF ByExternal
      <3> QED BY <1>0, <2>2, <3>1, <3>2, AnswerOfTyped
    <2> QED BY <2>1, <2>2
  <1>2. \/ /\ v.code \in {"IDEMPOTENCY_CONFLICT", "EXTERNAL_ID_CONFLICT"}
           /\ Fail(s, v.code)
        \/ /\ v.code = "REPLAY"
           /\ plan' = [plan EXCEPT ![s] = [NoPlan EXCEPT !.op = "replay",
                                                         !.answer = v.answer]]
           /\ Goto(s, "commit")
           /\ UNCHANGED <<walletLock, seen, acct, ref, late>>
        \/ /\ v.code = "NEW"
           /\ Goto(s, IF pc[s] = "ext1" THEN "lock" ELSE "resolve")
           /\ UNCHANGED <<walletLock, locals>>
    BY DEF LookupExternal
  <1> HIDE DEF x
  <1>3. /\ v.code \in {"IDEMPOTENCY_CONFLICT", "EXTERNAL_ID_CONFLICT"} => Backed(s, v.code)
        /\ v.code = "REPLAY" => Lasting(v.answer) /\ wagers[v.answer.tx].req = req[s]
    BY <1>0, <1>1, VerdictTrue DEF SubmissionInv
  <1>4. v.code = "NEW" => seen[s] = NoAnswer /\ x = NoAnswer
    BY <1>0, <1>1, VerdictTyped
  <1> HIDE DEF v
  <1>5. CASE v.code \in {"IDEMPOTENCY_CONFLICT", "EXTERNAL_ID_CONFLICT"} /\ Fail(s, v.code)
    <2>1. PICK code : code = v.code OBVIOUS
    <2> QED BY <1>0, <1>3, <1>5, <2>1, RefusalTold DEF Fail
  <1>6. CASE /\ v.code = "REPLAY"
             /\ plan' = [plan EXCEPT ![s] = [NoPlan EXCEPT !.op = "replay",
                                                           !.answer = v.answer]]
             /\ Goto(s, "commit")
             /\ UNCHANGED <<walletLock, seen, acct, ref, late>>
    <2>1. PICK y : y = v.answer OBVIOUS
    <2>2. /\ pc'[s] = "commit" /\ seen'[s] = seen[s] /\ UNCHANGED <<tables, req, result, raced>>
          /\ plan'[s].op = "replay" /\ plan'[s].answer = y
      BY <1>0, <1>6, <2>1 DEF Goto, TypeOK, NoPlan
    <2>3. ReplayInv(s)'
      BY <1>0, <1>3, <1>6, <2>1, <2>2 DEF ReplayInv, Lasting, AnswerOf, tables
    <2>4. KnownInv(s)' /\ RaceInv(s)' /\ ~Holding(s)'
      BY <2>2 DEF SubmissionInv, KnownInv, RaceInv, Holding, tables, Lasting, AnswerOf, ByKey
    <2> QED BY <1>0, <2>2, <2>3, <2>4, ReadTold
  <1>7. CASE /\ v.code = "NEW"
             /\ Goto(s, IF pc[s] = "ext1" THEN "lock" ELSE "resolve")
             /\ UNCHANGED <<walletLock, locals>>
    <2>1. /\ pc'[s] = IF pc[s] = "ext1" THEN "lock" ELSE "resolve"
          /\ seen'[s] = NoAnswer /\ UNCHANGED <<tables, req, result, raced>>
      BY <1>0, <1>4, <1>7 DEF Goto, TypeOK, locals
    <2>2. ~raced[s]
      <3>1. found = {}
        <4>1. ASSUME NEW t \in found PROVE AnswerOf(t) # NoAnswer
          BY <1>0, NoNullRow DEF ByExternal, AnswerOf, NoAnswer
        <4> QED BY <1>1, <1>4, <1>7, <4>1
      <3> QED BY <1>0, <1>4, <1>7, <3>1 DEF SubmissionInv, RaceInv
    <2>3. KnownInv(s)' /\ ReplayInv(s)' /\ RaceInv(s)'
      BY <2>1, <2>2 DEF KnownInv, ReplayInv, RaceInv
    <2>4. Holding(s)' => Owned(req[s])
      BY <1>0, <2>1 DEF SubmissionInv, Holding
    <2> QED BY <1>0, <2>1, <2>3, <2>4, ReadTold
  <1> QED BY <1>2, <1>5, <1>6, <1>7

\* The other statements of a submission.
LEMMA StatementTold ==
    ASSUME SafetyInv, IdentityInv, NEW s \in Sessions, SubmissionInv(s), InboxInv, ReadStep(s)
    PROVE  SubmissionInv(s)'
  <1>0. TypeOK /\ s \in Actors /\ s \notin Workers /\ ActorInv(s)
    BY ActorsAssumption DEF SafetyInv, Actors
  <1>1. ASSUME NEW r \in Offers[s], Receive(s, r) PROVE SubmissionInv(s)'
    <2>1. /\ pc[s] = "new" /\ pc'[s] \in {"claim", "key1"} /\ seen'[s] = NoAnswer
          /\ result'[s] = result[s] /\ raced'[s] = raced[s]
      BY <1>0, <1>1 DEF Receive, FirstStatement, TypeOK, locals, SubmissionInv, KnownInv
    <2>2. ~raced[s] /\ result[s].code = None /\ result[s].answer = NoAnswer
      BY <2>1, CodesAssumption DEF SubmissionInv, RaceInv, ResultInv, Codes
    <2>3. ResultInv(s)'
      BY <2>1, <2>2, CodesAssumption DEF ResultInv, Backed, Codes
    <2> QED BY <2>1, <2>2, <2>3 DEF SubmissionInv, KnownInv, ReplayInv, RaceInv, Holding
  <1>2. CASE RejectInput(s) \/ WalletNotFound(s) \/ WalletMismatch(s)
    <2>1. PICK code \in {"INVALID_INPUT", "WALLET_NOT_FOUND", "WALLET_MISMATCH"} :
             Backed(s, code) /\ Fail(s, code)
      BY <1>2 DEF RejectInput, WalletNotFound, WalletMismatch, Backed
    <2>2. InTransaction(s)
      BY <1>2 DEF RejectInput, WalletNotFound, WalletMismatch, InTransaction
    <2> QED BY <2>1, <2>2, RefusalTold DEF Fail
  <1>3. ASSUME UNCHANGED <<tables, req, result, raced>>, seen'[s] = seen[s],
               pc[s] \in {"lock", "resolve", "reversal", "write"},
               pc'[s] \notin {"new", "commit"} \/ (pc'[s] = "commit" /\ plan'[s].op = "insert"),
               pc[s] # "lock" \/ Owned(req[s])
        PROVE  SubmissionInv(s)'
    <2>1. ~raced[s] /\ InTransaction(s)
      BY <1>3 DEF SubmissionInv, RaceInv, InTransaction
    <2>2. KnownInv(s)'
      BY <1>3 DEF SubmissionInv, KnownInv, Lasting, AnswerOf, ByKey, tables
    <2>3. ReplayInv(s)' /\ RaceInv(s)'
      BY <1>3, <2>1 DEF ReplayInv, RaceInv
    <2>4. Owned(req[s])
      BY <1>3 DEF SubmissionInv, Holding
    <2> QED BY <1>3, <2>1, <2>2, <2>3, <2>4, ReadTold
  <1>4. CASE InsertTransaction(s)
    <2>1. plan[s].op = "insert"
      BY <1>0, <1>4 DEF ActorInv, Decided, PlanInv, InsertTransaction
    <2> QED BY <1>0, <1>3, <1>4, <2>1 DEF InsertTransaction, Goto, TypeOK, locals
  <1>5. CASE IdentityRace(s)
    <2>1. ~raced[s] /\ InTransaction(s)
      BY <1>5 DEF IdentityRace, SubmissionInv, RaceInv, InTransaction
    <2> QED BY <1>5, <2>1, RestartTold DEF IdentityRace
  <1>6. CASE LockWallet(s)
    BY <1>0, <1>3, <1>6 DEF LockWallet, Goto, TypeOK
  <1>7. CASE ResolveReference(s) \/ CheckReversal(s)
    <2>1. /\ pc[s] \in {"resolve", "reversal"} /\ pc'[s] \in {"write", "reversal"}
          /\ UNCHANGED <<tables, req, result, raced>> /\ seen'[s] = seen[s]
      BY <1>0, <1>7 DEF ResolveReference, CheckReversal, Decide, Goto, TypeOK
    <2> QED BY <1>3, <2>1
  <1>8. CASE Abort(s)
    <2>1. Backed(s, "ERROR")
      BY DEF Backed
    <2> QED BY <1>8, <2>1, RefusalTold DEF Abort
  <1>9. CASE RetryAbort(s)
    BY <1>9, RestartTold DEF RetryAbort
  <1> QED BY <1>0, <1>1, <1>2, <1>4, <1>5, <1>6, <1>7, <1>8, <1>9, ClaimMessageTold,
             LookupKeyTold, LookupExternalTold DEF ReadStep, SessionStatement

-----------------------------------------------------------------------------
(* One delivery of a message at a time                                      *)

\* A session that is past the claim of its message.
InMessage(s) == Message[s] # None /\ pc[s] \notin {"new", "claim", "done"}

\* A statement enters the message when nobody else holds it, or stays in it.
LEMMA MessageStep ==
    ASSUME SafetyInv, NEW s \in Sessions, MessageInv(s), ReadStep(s), InMessage(s)'
    PROVE  /\ InMessage(s) \/ ~MessageHeld(s)
           /\ IF pc'[s] = "commit" /\ plan'[s].op = "duplicate" THEN Completed(s)
              ELSE Message[s] \notin DOMAIN inbox
  <1>0. TypeOK /\ s \in Actors /\ s \notin Workers /\ ActorInv(s)
    BY ActorsAssumption DEF SafetyInv, Actors
  <1>1. CASE ClaimMessage(s)
    <2>1. CASE Fail(s, "MESSAGE_CONFLICT")
      BY <1>0, <2>1 DEF Fail, Conclude, TypeOK, InMessage
    <2>2. CASE Message[s] \notin DOMAIN inbox /\ Goto(s, "key1")
      BY <1>0, <1>1, <2>2 DEF Goto, TypeOK, ClaimMessage
    <2>3. CASE /\ Message[s] \in DOMAIN inbox /\ inbox[Message[s]].content = req[s]
               /\ plan' = [plan EXCEPT ![s] =
                     [NoPlan EXCEPT !.op = "duplicate",
                                    !.answer = AnswerOf(inbox[Message[s]].tx)]]
               /\ Goto(s, "commit")
      <3>1. pc'[s] = "commit" /\ plan'[s].op = "duplicate"
        BY <1>0, <2>3 DEF Goto, TypeOK, NoPlan
      <3> QED BY <1>1, <2>3, <3>1 DEF ClaimMessage, Completed
    <2> QED BY <1>1, <2>1, <2>2, <2>3 DEF ClaimMessage
  <1>2. CASE \/ \E r \in Offers[s] : Receive(s, r)
             \/ RejectInput(s) \/ WalletNotFound(s) \/ WalletMismatch(s) \/ IdentityRace(s)
             \/ Abort(s) \/ RetryAbort(s)
    <2>1. Message[s] # None => pc'[s] \in {"claim", "done"}
      BY <1>0, <1>2 DEF Receive, RejectInput, WalletNotFound, WalletMismatch, IdentityRace,
         Abort, RetryAbort, Fail, Conclude, Restart, FirstStatement, TypeOK
    <2> QED BY <2>1 DEF InMessage
  <1>3. ASSUME pc[s] \notin {"new", "claim", "commit", "done"},
               pc'[s] = "commit" => plan'[s].op # "duplicate"
        PROVE  /\ InMessage(s)
               /\ IF pc'[s] = "commit" /\ plan'[s].op = "duplicate" THEN Completed(s)
                  ELSE Message[s] \notin DOMAIN inbox
    BY <1>3 DEF InMessage, MessageInv
  <1>4. CASE LookupKey(s) \/ LockWallet(s) \/ ResolveReference(s) \/ CheckReversal(s)
    <2>1. /\ pc[s] \in {"key1", "key2", "lock", "resolve", "reversal"} /\ pc'[s] # "commit"
      BY <1>0, <1>4 DEF LookupKey, LockWallet, ResolveReference, CheckReversal, Decide, Goto,
         TypeOK
    <2> QED BY <1>3, <2>1
  <1>5. CASE LookupExternal(s)
    <2>1. CASE \E code : Fail(s, code)
      BY <1>0, <2>1 DEF Fail, Conclude, TypeOK, InMessage
    <2>2. CASE \E y : plan' = [plan EXCEPT ![s] = [NoPlan EXCEPT !.op = "replay", !.answer = y]]
      <3>1. plan'[s].op = "replay"
        BY <1>0, <2>2 DEF TypeOK, NoPlan
      <3> QED BY <1>3, <1>5, <3>1 DEF LookupExternal
    <2>3. CASE Goto(s, IF pc[s] = "ext1" THEN "lock" ELSE "resolve")
      BY <1>0, <1>3, <1>5, <2>3 DEF LookupExternal, Goto, TypeOK
    <2> QED BY <1>5, <2>1, <2>2, <2>3 DEF LookupExternal
  <1>6. CASE InsertTransaction(s)
    <2>1. plan'[s].op = "insert" /\ pc[s] = "write"
      BY <1>0, <1>6 DEF ActorInv, Decided, PlanInv, InsertTransaction, locals
    <2> QED BY <1>3, <2>1
  <1> QED BY <1>0, <1>1, <1>2, <1>4, <1>5, <1>6 DEF ReadStep, SessionStatement

\* Reads keep the deliveries of a message apart.
LEMMA ReadMessages ==
    ASSUME SafetyInv, \A s \in Sessions : MessageInv(s), NEW a \in Actors, ReadStep(a),
           NEW s \in Sessions
    PROVE  MessageInv(s)'
  <1>0. /\ TypeOK /\ UNCHANGED inbox
        /\ \A b \in Sessions : b # a => pc'[b] = pc[b] /\ plan'[b] = plan[b] /\ req'[b] = req[b]
    BY ReadStepFrame DEF SafetyInv, tables, LocalsKept, Actors
  <1> SUFFICES ASSUME InMessage(s)'
               PROVE  /\ ~MessageHeld(s)'
                      /\ (IF pc[s] = "commit" /\ plan[s].op = "duplicate" THEN Completed(s)
                          ELSE Message[s] \notin DOMAIN inbox)'
    BY DEF MessageInv, InMessage
  <1>1. CASE s = a
    <2>1. /\ InMessage(s) \/ ~MessageHeld(s)
          /\ IF pc'[s] = "commit" /\ plan'[s].op = "duplicate" THEN Completed(s)
             ELSE Message[s] \notin DOMAIN inbox
      BY <1>1, MessageStep
    <2>2. ~MessageHeld(s)
      BY <2>1 DEF InMessage, MessageInv
    <2>3. ~MessageHeld(s)'
      BY <1>0, <1>1, <2>2 DEF MessageHeld
    <2>4. req'[s] = req[s]
      <3>1. CASE \E r \in Offers[s] : Receive(s, r)
        BY <1>0, <3>1, ActorsAssumption DEF Receive, FirstStatement, TypeOK, InMessage, Actors
      <3>2. CASE ~\E r \in Offers[s] : Receive(s, r)
        BY <1>1, <3>2 DEF ReadStep, SessionStatement, ClaimMessage, RejectInput, LookupKey,
         LookupExternal, WalletNotFound, InsertTransaction, IdentityRace, WalletMismatch,
         LockPending, LockWallet, ResolveReference, CheckReversal, Abort, RetryAbort,
         Fail, Goto, Decide
      <3> QED BY <3>1, <3>2
    <2> QED BY <1>0, <2>1, <2>3, <2>4 DEF Completed
  <1>2. CASE s # a
    <2>1. /\ InMessage(s) /\ ~MessageHeld(s)
          /\ IF pc[s] = "commit" /\ plan[s].op = "duplicate" THEN Completed(s)
             ELSE Message[s] \notin DOMAIN inbox
      BY <1>0, <1>2 DEF InMessage, MessageInv
    <2>2. ASSUME a \in Sessions, Message[a] = Message[s]
          PROVE  ~InMessage(a)'
      <3>1. ~InMessage(a) /\ MessageHeld(a)
        BY <1>2, <2>1, <2>2 DEF InMessage, MessageHeld
      <3> QED BY <2>2, <3>1, MessageStep
    <2>3. ~MessageHeld(s)'
      BY <1>0, <2>1, <2>2 DEF MessageHeld, InMessage
    <2> QED BY <1>0, <1>2, <2>1, <2>3 DEF Completed
  <1> QED BY <1>1, <1>2

-----------------------------------------------------------------------------
(* Steps that write                                                         *)

\* Nothing happens to a session outside its own steps.
LEMMA AllAside ==
    ASSUME SafetyInv, AnswerInv, AnswersGrow, UNCHANGED inbox,
           \A b \in Sessions : Aside(b) /\ (b \in DOMAIN wagers' => b \in DOMAIN wagers),
           \A t \in DOMAIN wagers' : t \notin DOMAIN wagers =>
              wagers'[t].req.wallet \in DOMAIN wallets' /\ Owned(wagers[t].req)'
    PROVE  AnswerInv'
  <1>1. \A b \in Sessions : SubmissionInv(b)'
    BY AsideKept DEF AnswerInv, OwnerInv, SubmissionInv
  <1>2. InboxInv'
    BY DEF AnswerInv, InboxInv, InboxNamesItsWager, AnswersGrow, SettledKept
  <1>3. (\A t \in DOMAIN wagers : wagers[t].req.wallet \in DOMAIN wallets
                                  /\ Owned(wagers[t].req))'
    BY DEF AnswerInv, OwnerInv, AnswersGrow, SettledKept, Owned
  <1>4. \A b \in Sessions : MessageInv(b)'
    BY DEF AnswerInv, MessageInv, MessageHeld, Completed, Aside, LocalsKept
  <1> QED BY <1>1, <1>2, <1>3, <1>4 DEF AnswerInv, OwnerInv, SubmissionInv

\* What a commit does to the inbox and the owners of wallets.
LEMMA CommitGrows ==
    ASSUME SafetyInv, IdentityInv, DecisionInv, AnswerInv, NEW a \in Actors,
           pc[a] = "commit", ApplyWrites(a)
    PROVE  AnswersGrow
  <1>0. TypeOK /\ SettledKept /\ ActorInv(a) /\ PlanInv(a)
    BY CommitTouches DEF SafetyInv, ActorInv, Decided
  <1>1. \A m \in DOMAIN inbox : m \in DOMAIN inbox' /\ inbox'[m] = inbox[m]
    <2>1. CASE inbox' = inbox BY <2>1
    <2>2. CASE /\ a \in Sessions /\ Message[a] # None /\ plan[a].op \in {"insert", "replay"}
               /\ \E v : inbox' = Extend(inbox, Message[a], v)
      <3>1. Message[a] \notin DOMAIN inbox
        BY <2>2 DEF AnswerInv, MessageInv
      <3> QED BY <2>2, <3>1 DEF Extend
    <2> QED BY <2>1, <2>2 DEF ApplyWrites, WrittenInbox
  <1>2. \A w \in DOMAIN wallets : /\ w \in DOMAIN wallets'
                                  /\ wallets'[w].player = wallets[w].player
                                  /\ wallets'[w].currency = wallets[w].currency
    <2>1. CASE wallets' = wallets BY <2>1
    <2>2. CASE Moves(plan[a])
      <3>1. PICK w, b, n : /\ w = req[a].wallet /\ b = plan[a].answer.balance
                           /\ n = acct[a].version + 1
        OBVIOUS
      <3>2. wallets' = [wallets EXCEPT ![w].balance = b, ![w].version = n]
        BY <2>2, <3>1 DEF ApplyWrites
      <3>3. wallets \in [DOMAIN wallets -> Wallet]
        BY <1>0 DEF TypeOK
      <3> QED BY <3>2, <3>3 DEF Wallet
    <2> QED BY <2>1, <2>2 DEF ApplyWrites
  <1> QED BY <1>0, <1>1, <1>2 DEF AnswersGrow

\* A commit answers with the row it has stored or found.
LEMMA CommitTold ==
    ASSUME SafetyInv, IdentityInv, DecisionInv, AnswerInv, NEW a \in Sessions,
           pc[a] = "commit", ApplyWrites(a), NEW x, x = plan[a].answer
    PROVE  /\ Lasting(x)' /\ wagers'[x.tx].req = req[a]
           /\ ValidRequest(req[a])
           /\ Message[a] # None => /\ Message[a] \in DOMAIN inbox'
                                   /\ inbox'[Message[a]].content = req[a]
           /\ \/ inbox' = inbox
              \/ inbox' = Extend(inbox, Message[a], [content |-> req[a], tx |-> x.tx])
  <1>0. /\ TypeOK /\ a \in Actors /\ ActorInv(a) /\ PlanInv(a) /\ SettledKept
        /\ x \in Answer /\ plan[a].op \in {"insert", "replay", "duplicate"}
    BY CommitTouches DEF SafetyInv, ActorInv, Decided, Actors, PlanInv, TypeOK
  <1>1. CASE plan[a].op = "insert"
    <2>1. CommitsRow(a) /\ TxOf(a) = a /\ x.tx = a
      BY <1>0, <1>1, CommitRows DEF CommitsNothing, CommitsSchedule, TxOf, PlanInv
    <2>2. /\ a \in DOMAIN wagers' /\ wagers'[a].req = req[a]
          /\ wagers'[a].status = x.status /\ wagers'[a].failure = x.failure
          /\ wagers'[a].balance = x.balance
      BY <2>1 DEF CommitsRow
    <2>3. x = [tx |-> a, status |-> wagers'[a].status, failure |-> wagers'[a].failure,
               balance |-> wagers'[a].balance]
      BY <1>0, <2>1, <2>2 DEF Answer
    <2>4. ValidRequest(req[a])
      BY <1>1 DEF IdentityInv, Validated, Inserted
    <2>5. Lasting(x)'
      BY <1>0, <1>1, <2>1, <2>2, <2>3 DEF Lasting, AnswerOf, PlanInv
    <2> QED BY <1>1, <2>1, <2>2, <2>4, <2>5 DEF ApplyWrites, WrittenInbox, Extend
  <1>2. CASE plan[a].op \in {"replay", "duplicate"}
    <2>1. Lasting(x) /\ ValidRequest(req[a]) /\ wagers[x.tx].req = req[a]
      BY <1>2 DEF AnswerInv, ReplayInv
    <2>2. Lasting(x)' /\ wagers'[x.tx].req = wagers[x.tx].req
      BY <1>0, <2>1, LastingKept
    <2>3. plan[a].op = "duplicate" /\ Message[a] # None => Completed(a)
      BY DEF AnswerInv, MessageInv
    <2> QED BY <1>2, <2>1, <2>2, <2>3 DEF ApplyWrites, WrittenInbox, Extend, Completed
  <1> QED BY <1>0, <1>1, <1>2

\* Commits keep every answer true.
LEMMA CommitAnswers ==
    ASSUME SafetyInv, IdentityInv, DecisionInv, AnswerInv, NEW a \in Actors,
           Commit(a) \/ CommitReplyLost(a)
    PROVE  AnswerInv'
  <1>0. /\ TypeOK /\ ActorInv(a) /\ PlanInv(a) /\ pc[a] = "commit" /\ ApplyWrites(a)
        /\ UNCHANGED <<req, raced>>
    BY DEF SafetyInv, Commit, CommitReplyLost, ActorInv, Decided
  <1>1. PICK code, answer : /\ Conclude(a, code, answer)
                            /\ \/ code = "OK" /\ answer = plan[a].answer
                               \/ code = "ERROR" /\ answer = NoAnswer
    BY DEF Commit, CommitReplyLost
  <1>2. AnswersGrow /\ SettledKept
    BY <1>0, CommitGrows DEF AnswersGrow
  <1>3. \A b \in Sessions : b # a => Aside(b)
    <2>1. ASSUME NEW b \in Sessions, b # a PROVE result'[b] = result[b]
      BY <1>0, <1>1, <2>1 DEF Conclude, TypeOK
    <2> QED BY <1>0, <1>1, <2>1, ConcludeKeeps DEF Aside, Actors
  <1>4. \A t \in DOMAIN wagers' : t \notin DOMAIN wagers =>
           t = a /\ a \in Sessions /\ Holding(a) /\ wagers'[t].req = req[a]
    <2>1. CASE CommitsNothing(a) \/ CommitsSchedule(a)
      BY <2>1 DEF CommitsNothing, CommitsSchedule
    <2>2. CASE CommitsRow(a)
      BY <2>2, <1>0 DEF CommitsRow, TxOf, Holding, Writes
    <2> QED BY <1>0, <2>1, <2>2, CommitRows
  <1>5. ASSUME NEW b \in Sessions, b # a PROVE SubmissionInv(b)'
    BY <1>2, <1>3, <1>4, <1>5, AsideKept DEF AnswerInv, OwnerInv, SubmissionInv
  <1>6. ASSUME a \in Sessions PROVE SubmissionInv(a)'
    <2>1. /\ pc'[a] = "done" /\ seen'[a] = NoAnswer /\ result'[a].code = code
          /\ result'[a].answer = answer
      BY <1>0, <1>1, <1>6 DEF Conclude, ForgetAttempt, TypeOK
    <2>2. PICK x : x = plan[a].answer OBVIOUS
    <2>3. /\ Lasting(x)' /\ wagers'[x.tx].req = req[a] /\ ValidRequest(req[a])
          /\ Message[a] # None => Completed(a)'
      BY <1>0, <1>6, <2>2, CommitTold DEF Completed
    <2>4. Backed(a, code)'
      BY <1>1 DEF Backed
    <2>5. ResultInv(a)'
      <3>1. CASE code = "OK" /\ answer = x
        BY <1>0, <2>1, <2>3, <2>4, <3>1 DEF ResultInv, Lasting, Backed
      <3>2. CASE code = "ERROR" /\ answer = NoAnswer
        BY <2>1, <2>4, <3>2 DEF ResultInv, Backed
      <3> QED BY <1>1, <2>2, <3>1, <3>2
    <2>6. RaceInv(a)'
      BY <1>0, <1>2, <1>6, <2>1 DEF AnswerInv, RaceInv, SettledKept
    <2> QED BY <2>1, <2>5, <2>6 DEF SubmissionInv, KnownInv, ReplayInv, Holding
  <1>7. InboxInv'
    <2>1. CASE inbox' = inbox
      BY <1>2, <2>1 DEF AnswerInv, InboxInv, InboxNamesItsWager, SettledKept
    <2>2. CASE a \in Sessions
      <3>1. PICK x : x = plan[a].answer OBVIOUS
      <3>2. /\ x.tx \in DOMAIN wagers' /\ wagers'[x.tx].req = req[a] /\ ValidRequest(req[a])
            /\ \/ inbox' = inbox
               \/ inbox' = Extend(inbox, Message[a], [content |-> req[a], tx |-> x.tx])
        BY <1>0, <2>2, <3>1, CommitTold DEF Lasting
      <3> QED BY <1>2, <2>1, <3>2 DEF AnswerInv, InboxInv, InboxNamesItsWager, SettledKept,
                                      Extend
    <2> QED BY <1>0, <2>1, <2>2 DEF ApplyWrites, WrittenInbox
  <1>8. (\A t \in DOMAIN wagers : wagers[t].req.wallet \in DOMAIN wallets
                                  /\ Owned(wagers[t].req))'
    <2>1. ASSUME NEW t \in DOMAIN wagers' PROVE
             \E r : /\ wagers'[t].req = r /\ r.wallet \in DOMAIN wallets /\ Owned(r)
      <3>1. CASE t \in DOMAIN wagers
        BY <1>2, <3>1 DEF AnswerInv, OwnerInv, SettledKept
      <3>2. CASE t \notin DOMAIN wagers
        BY <1>0, <1>4, <3>2 DEF AnswerInv, OwnerInv, ActorInv, LockInv
      <3> QED BY <3>1, <3>2
    <2> QED BY <1>2, <2>1 DEF AnswersGrow, Owned
  <1>9. ASSUME NEW s \in Sessions PROVE MessageInv(s)'
    <2>1. CASE s = a
      BY <1>0, <1>1, <2>1 DEF MessageInv, Conclude, TypeOK
    <2>2. CASE s # a
      <3> SUFFICES ASSUME InMessage(s)'
                   PROVE  /\ ~MessageHeld(s)'
                          /\ (IF pc[s] = "commit" /\ plan[s].op = "duplicate" THEN Completed(s)
                              ELSE Message[s] \notin DOMAIN inbox)'
        BY DEF MessageInv, InMessage
      <3>1. /\ InMessage(s) /\ ~MessageHeld(s)
            /\ IF pc[s] = "commit" /\ plan[s].op = "duplicate" THEN Completed(s)
               ELSE Message[s] \notin DOMAIN inbox
            /\ pc'[s] = pc[s] /\ plan'[s] = plan[s]
        BY <1>3, <2>2 DEF InMessage, AnswerInv, MessageInv, Aside, LocalsKept
      <3>2. a \in Sessions => pc'[a] = "done" /\ Message[a] # Message[s]
        BY <1>0, <1>1, <2>2, <3>1 DEF Conclude, TypeOK, MessageHeld
      <3>3. ~MessageHeld(s)'
        BY <1>3, <3>1, <3>2 DEF MessageHeld, Aside, LocalsKept
      <3>4. Completed(s) => Completed(s)'
        BY <1>0, <1>2 DEF Completed, AnswersGrow
      <3>5. Message[s] \notin DOMAIN inbox => Message[s] \notin DOMAIN inbox'
        BY <1>0, <3>2 DEF ApplyWrites, WrittenInbox, Extend
      <3> QED BY <3>1, <3>3, <3>4, <3>5
    <2> QED BY <2>1, <2>2
  <1>10. \A b \in Sessions : SubmissionInv(b)'
    BY <1>5, <1>6
  <1> QED BY <1>7, <1>8, <1>9, <1>10 DEF AnswerInv, OwnerInv, SubmissionInv

\* The opening of a wallet keeps every answer true.
LEMMA OpenAnswers ==
    ASSUME SafetyInv, IdentityInv, DecisionInv, AnswerInv, NEW o \in Openings, OpenWallet(o)
    PROVE  AnswerInv'
  <1>0. TypeOK /\ SettledKept /\ o.wallet \in Wallets /\ o.wallet \notin Sessions
    BY OpenDecision, InputsAssumption, ActorsAssumption DEF SafetyInv
  <1>a. /\ UNCHANGED <<inbox, pc, req, seen, acct, ref, plan, claim, raced, result>>
        /\ DOMAIN wagers' \subseteq DOMAIN wagers \cup {o.wallet}
    BY DEF OpenWallet, Extend, locals
  <1>b. /\ o.wallet \notin DOMAIN wallets
        /\ \E v : wallets' = Extend(wallets, o.wallet, v)
    BY DEF OpenWallet
  <1>c. \A w \in DOMAIN wallets : w \in DOMAIN wallets' /\ wallets'[w] = wallets[w]
    BY <1>b DEF Extend
  <1>1. AnswersGrow
    BY <1>0, <1>a, <1>c DEF AnswersGrow
  <1>2. \A b \in Sessions : Aside(b) /\ (b \in DOMAIN wagers' => b \in DOMAIN wagers)
    BY <1>0, <1>a DEF Aside, LocalsKept
  <1>3. \A t \in DOMAIN wagers' : t \notin DOMAIN wagers =>
           wagers'[t].req.wallet \in DOMAIN wallets' /\ Owned(wagers[t].req)'
    <2>1. wagers' = wagers \/ wagers' = Extend(wagers, o.wallet, OpeningRow(o))
      BY DEF OpenWallet
    <2>2. /\ o.wallet \in DOMAIN wallets' /\ wallets'[o.wallet].player = o.player
          /\ wallets'[o.wallet].currency = o.currency
      BY DEF OpenWallet, Extend
    <2>3. /\ OpeningRow(o).req.wallet = o.wallet /\ OpeningRow(o).req.player = o.player
          /\ OpeningRow(o).req.currency = o.currency
      BY DEF OpeningRow
    <2>4. \A t \in DOMAIN wagers' : t \notin DOMAIN wagers => wagers'[t] = OpeningRow(o)
      BY <2>1 DEF Extend
    <2> QED BY <2>2, <2>3, <2>4 DEF Owned
  <1> QED BY <1>1, <1>2, <1>3, AllAside DEF OpenWallet

\* A claim and the passing of time keep every answer true.
LEMMA ScheduleAnswers ==
    ASSUME SafetyInv, DecisionInv, AnswerInv, NEW t \in TxIds,
           TimePasses(t) \/ \E r \in Workers : Claim(r, t)
    PROVE  AnswerInv'
  <1>0. TypeOK BY DEF SafetyInv
  <1>1. SettledKept /\ DOMAIN wagers' = DOMAIN wagers
    BY ClaimRow, TimeRow, ScheduleRows
  <1>2. AnswersGrow /\ UNCHANGED inbox
    BY <1>1 DEF AnswersGrow, TimePasses, BecomeDue, LeaseExpires, TTLPasses, Scheduled, Claim
  <1>3. \A b \in Sessions : Aside(b)
    <2>1. CASE TimePasses(t)
      <3>1. UNCHANGED <<pc, req, seen, acct, ref, plan, claim, raced, result>>
        BY <2>1 DEF TimePasses, BecomeDue, LeaseExpires, TTLPasses, Scheduled, locals
      <3> QED BY <3>1 DEF Aside, LocalsKept
    <2>2. CASE \E r \in Workers : Claim(r, t)
      <3>1. PICK r \in Workers : Claim(r, t) BY <2>2
      <3>2. /\ UNCHANGED <<seen, acct, ref, plan, raced, result>>
            /\ req' = [req EXCEPT ![r] = wagers[t].req] /\ pc' = [pc EXCEPT ![r] = "lock"]
        BY <3>1 DEF Claim, locals
      <3>3. \A b \in Sessions : b # r /\ b \notin Workers /\ pc'[b] = pc[b] /\ req'[b] = req[b]
        BY <1>0, <3>2, ActorsAssumption DEF TypeOK, Actors
      <3> QED BY <3>2, <3>3 DEF Aside, LocalsKept
    <2> QED BY <2>1, <2>2
  <1> QED BY <1>1, <1>2, <1>3, AllAside

-----------------------------------------------------------------------------
\* Every step, and every stutter, keeps what submissions were told true.
LEMMA NextAnswers ==
    SafetyInv /\ IdentityInv /\ DecisionInv /\ AnswerInv /\ [Next]_vars => AnswerInv'
  <1> SUFFICES ASSUME SafetyInv, IdentityInv, DecisionInv, AnswerInv, [Next]_vars
               PROVE  AnswerInv'
    OBVIOUS
  <1>0. TypeOK /\ \A s \in Sessions : SubmissionInv(s)
    BY DEF SafetyInv, AnswerInv, OwnerInv, SubmissionInv
  <1>1. ASSUME NEW a \in Actors, ReadStep(a) PROVE AnswerInv'
    <2>1. UNCHANGED tables
      BY <1>0, <1>1, ReadStepFrame
    <2>2. AnswersGrow
      BY <2>1 DEF AnswersGrow, SettledKept, tables
    <2>3. ASSUME NEW s \in Sessions PROVE SubmissionInv(s)'
      <3>1. CASE s = a
        BY <1>0, <1>1, <3>1, StatementTold DEF AnswerInv
      <3>2. CASE s # a
        BY <1>0, <1>1, <2>1, <2>2, <3>2, ReadAside, AsideKept DEF tables
      <3> QED BY <3>1, <3>2
    <2>4. \A s \in Sessions : MessageInv(s)'
      BY <1>1, ReadMessages DEF AnswerInv
    <2>5. InboxInv'
      BY <2>1 DEF AnswerInv, InboxInv, InboxNamesItsWager, tables
    <2>6. (\A t \in DOMAIN wagers : wagers[t].req.wallet \in DOMAIN wallets
                                    /\ Owned(wagers[t].req))'
      BY <2>1 DEF AnswerInv, OwnerInv, Owned, tables
    <2> QED BY <2>3, <2>4, <2>5, <2>6 DEF AnswerInv, OwnerInv, SubmissionInv
  <1>2. ASSUME UNCHANGED vars PROVE AnswerInv'
    <2>1. /\ UNCHANGED <<tables, pc, req, seen, acct, ref, plan, claim, raced, result>>
      BY <1>2 DEF vars, locals
    <2>2. AnswersGrow /\ \A b \in Sessions : Aside(b)
      BY <2>1 DEF AnswersGrow, SettledKept, tables, Aside, LocalsKept
    <2> QED BY <2>1, <2>2, AllAside DEF tables
  <1> QED BY <1>1, <1>2, NextShape, CommitAnswers, OpenAnswers, ScheduleAnswers

\* Nothing has been told before the first step.
LEMMA InitAnswers == Init => AnswerInv
  <1> SUFFICES ASSUME Init PROVE AnswerInv OBVIOUS
  <1>1. /\ DOMAIN wagers = {} /\ DOMAIN inbox = {}
        /\ \A s \in Sessions : /\ pc[s] = "new" /\ seen[s] = NoAnswer /\ ~raced[s]
                               /\ result[s].code = None /\ result[s].answer = NoAnswer
    BY DEF Init, Actors, NoResult
  <1>2. \A s \in Sessions : ResultInv(s)
    BY <1>1, CodesAssumption DEF ResultInv, Backed, Codes
  <1> QED BY <1>1, <1>2 DEF AnswerInv, InboxInv, InboxNamesItsWager, OwnerInv, Holding,
                            MessageInv, KnownInv, ReplayInv, RaceInv

\* Every answer, refusal and completed message rests on rows that stay as they are,
\* although it was put together from several reads with a snapshot each.
THEOREM Answers == Spec => [](SafetyInv /\ IdentityInv /\ DecisionInv /\ AnswerInv)
  BY Decisions, InitAnswers, NextAnswers, PTL DEF Spec

\* An accepted submission, a replay and a duplicate message alike name a durable
\* wager with the very request, and a terminal answer is that wager's final state.
THEOREM AnswersLast == Spec => []AnswersAreDurable
  <1>1. AnswerInv => AnswersAreDurable
    BY DEF AnswerInv, ResultInv, AnswersAreDurable, Lasting
  <1> QED BY <1>1, Answers, PTL

\* A conflict that is reported exists, a refused submission left no row, and the one
\* retry of a lost identity race finds the rival.
THEOREM RefusalsAreTrue == Spec => []ErrorsAreTrue
  <1>1. AnswerInv => ErrorsAreTrue
    BY DEF AnswerInv, ResultInv, Backed, ErrorsAreTrue
  <1> QED BY <1>1, Answers, PTL

\* A completed message names the wager that its own content describes.
THEOREM InboxIsTrue == Spec => []InboxNamesItsWager
  <1>1. AnswerInv => InboxNamesItsWager
    BY DEF AnswerInv, InboxInv
  <1> QED BY <1>1, Answers, PTL

\* A request that was refused for good is never accepted: an accepted one has a row,
\* and no row can exist beside what the refusal rests on.
THEOREM RefusalsLast == Spec => []RefusalsAreForGood
  <1>1. ASSUME SafetyInv, IdentityInv, AnswerInv PROVE RefusalsAreForGood
    <2> SUFFICES ASSUME NEW s \in Sessions, NEW u \in Sessions,
                        result[s].code # None, ~Retryable(result[s].code),
                        result[s].code # "WALLET_NOT_FOUND", req[u] = req[s],
                        result[s].code = "MESSAGE_CONFLICT" => Message[u] = Message[s],
                        result[u].code = "OK"
                 PROVE  FALSE
      BY DEF RefusalsAreForGood
    <2>1. PICK t : /\ t \in DOMAIN wagers /\ wagers[t].req = req[s] /\ ValidRequest(req[s])
                   /\ Message[u] # None => Completed(u)
      BY <1>1 DEF AnswerInv, ResultInv, Lasting
    <2>2. wagers[t].req.kind # "OPENING"
      BY <2>1 DEF ValidRequest, ExternalKinds
    <2>3. PICK code : code = result[s].code /\ Backed(s, code)
      BY <1>1 DEF AnswerInv, ResultInv
    <2>4. \A q \in DOMAIN wagers : SameIdentity(req[s], wagers[q].req) => wagers[q].req = req[s]
      BY <1>1, <2>1, <2>2 DEF IdentityInv, IdentityUnique
    <2>5. code \notin {"IDEMPOTENCY_CONFLICT", "EXTERNAL_ID_CONFLICT"}
      BY <2>3, <2>4 DEF Backed, ByKey, ByExternal, SameIdentity
    <2>6. code \notin {"INVALID_INPUT", "WALLET_MISMATCH"}
      BY <1>1, <2>1, <2>3 DEF Backed, AnswerInv, OwnerInv, Owned
    <2>7. code # "MESSAGE_CONFLICT"
      <3>1. code = "MESSAGE_CONFLICT" => Message[s] # None
        BY <1>1, <2>3, ActorsAssumption DEF Backed, SafetyInv, TypeOK
      <3> QED BY <2>1, <2>3, <3>1 DEF Backed, Completed
    <2> QED BY <2>3, <2>5, <2>6, <2>7 DEF Retryable
  <1> QED BY <1>1, Answers, PTL

-----------------------------------------------------------------------------
(* The clients of the API                                                   *)

\* A client that passes the door if its token is as good as it should be, and the
\* codes that refuse it behind the door.
Admitted(c) == Admission(want[c].id, want[c].body) = 200
RefusalCodes == {"INVALID_INPUT", "WALLET_NOT_FOUND", "WALLET_MISMATCH",
                 "IDEMPOTENCY_CONFLICT", "EXTERNAL_ID_CONFLICT"}

\* What a client wants stays what it was; its calls are counted.
CallTypes == /\ \A c \in Clients : want[c] \in Wants[c]
             /\ made \in [Clients -> Nat]

\* The calls of a client run as its attempts, in order, with its request, and leave
\* no other row than one with that request.
CallInv(c) ==
    /\ made[c] <= Len(Attempts[c])
    /\ waiting[c] # None => \E i \in 1 .. made[c] : waiting[c] = Attempts[c][i]
    /\ \A i \in DOMAIN Attempts[c] :
          LET s == Attempts[c][i]
          IN  /\ pc[s] # "new" => i <= made[c] /\ Admitted(c) /\ req[s] = want[c].body
              /\ s \in DOMAIN wagers => wagers[s].req = want[c].body

\* The result of a call is a refusal that is told with this status.
Refuses(s, status) == /\ result[s].code \in RefusalCodes
                      /\ status # 404 => result[s].code # "WALLET_NOT_FOUND"

\* An answer is about the client's own request and stays true; a refusal is the
\* result of one of its calls, unless a call was turned away at the door.
ToldInv(c) ==
    /\ told[c].answer # NoAnswer => /\ Lasting(told[c].answer)
                                    /\ wagers[told[c].answer.tx].req = want[c].body
                                    /\ Admitted(c)
    /\ told[c].status = 200 =>
          told[c].answer # NoAnswer /\ told[c].answer.status \in Terminal
    /\ told[c].status \in 400 .. 499 =>
          \/ ~Admitted(c)
          \/ told[c].status \in {401, 403}
          \/ \E i \in 1 .. made[c] : Refuses(Attempts[c][i], told[c].status)
    /\ peeked[c].answer # NoAnswer =>
          /\ peeked[c].answer.tx \in DOMAIN wagers
          /\ wagers[peeked[c].answer.tx].req.provider = want[c].id.provider

\* The strengthening of ProvidersAreSeparate and RefusalsLeaveNothing.
ClientInv ==
    /\ CallTypes
    /\ DOMAIN waiting = Clients /\ DOMAIN told = Clients /\ DOMAIN peeked = Clients
    /\ \A c \in Clients : CallInv(c) /\ ToldInv(c)

-----------------------------------------------------------------------------
\* Who is let in has a provider's identity, and names that provider in its request.
LEMMA AdmittedMeans ==
    ASSUME NEW c \in Clients, want[c] \in Wants[c], Admitted(c)
    PROVE  /\ want[c].body # None /\ want[c].body \in Request
           /\ want[c].id.provider # None
           /\ want[c].body.provider = want[c].id.provider
  <1>1. want[c].body \in Request \cup {None}
    BY ClientsAssumption
  <1>2. /\ want[c].id # None /\ "provider" \in want[c].id.roles /\ want[c].id.provider # None
        /\ want[c].body # None /\ want[c].body.provider = want[c].id.provider
    BY DEF Admitted, Admission
  <1> QED BY <1>1, <1>2

\* A call that is let in, and one that is turned away at the door.
LetIn(c) ==
    /\ Admitted(c)
    /\ made[c] < Len(Attempts[c])
    /\ Receive(Attempts[c][made[c] + 1], want[c].body)
    /\ waiting' = [waiting EXCEPT ![c] = Attempts[c][made[c] + 1]]
    /\ made' = [made EXCEPT ![c] = made[c] + 1]
    /\ UNCHANGED <<want, peeked, told>>
TurnedAway(c) ==
    /\ \E x : /\ x.answer = NoAnswer /\ x.status \in {400, 401, 403}
              /\ ~Admitted(c) \/ x.status \in {401, 403}
              /\ told' = [told EXCEPT ![c] = x]
    /\ UNCHANGED <<want, made, waiting, peeked, vars>>

\* No verdict on a token is worth more than the client's identity: who gets in with it
\* would get in with its best token, and a client that should get in is turned away
\* for its token alone.
LEMMA VerdictMeans ==
    ASSUME NEW c \in Clients, want[c] \in Wants[c], NEW id \in Verdicts(want[c].id)
    PROVE  /\ Admission(id, want[c].body) = 200 => Admitted(c)
           /\ Admission(id, want[c].body) \in {200, 400, 401, 403}
           /\ Admission(id, want[c].body) \notin {200, 401, 403} => ~Admitted(c)
  <1>0. want[c].id \in Identity
    BY ClientsAssumption
  <1>1. PICK who, body : who = want[c].id /\ body = want[c].body /\ who \in Identity
    BY <1>0
  <1>2. CASE id = None
    <2>1. Admission(id, body) = 401 BY <1>2 DEF Admission
    <2> QED BY <1>1, <2>1
  <1>3. CASE id # None
    <2>1. who # None BY <1>1, <1>3 DEF Verdicts
    <2>2. PICK held \in SUBSET who.roles : id = [who EXCEPT !.roles = held]
      BY <1>1, <1>3, <2>1 DEF Verdicts
    <2>3. id.provider = who.provider /\ id.roles \subseteq who.roles
      BY <1>1, <2>1, <2>2 DEF Identity
    <2> QED BY <1>1, <1>3, <2>1, <2>3 DEF Admission, Admitted
  <1> QED BY <1>2, <1>3

\* A call is let in or turned away.
LEMMA CallShape ==
    ASSUME CallTypes, NEW c \in Clients, Calls(c)
    PROVE  LetIn(c) \/ TurnedAway(c)
  <1>1. PICK id \in Verdicts(want[c].id) : Call(c, id) BY DEF Calls
  <1>2. PICK status : /\ status = Admission(id, want[c].body)
                      /\ status = 200 => Admitted(c)
                      /\ status \in {200, 400, 401, 403}
                      /\ status \notin {200, 401, 403} => ~Admitted(c)
    BY VerdictMeans DEF CallTypes
  <1>3. CASE status = 200
    BY <1>1, <1>2, <1>3 DEF Call, LetIn
  <1>4. CASE status # 200
    <2> DEFINE x == [Untold EXCEPT !.status = status]
    <2>1. told' = [told EXCEPT ![c] = x]
      BY <1>1, <1>2, <1>4 DEF Call
    <2>2. x.answer = NoAnswer /\ x.status = status
      BY DEF Untold
    <2> HIDE DEF x
    <2>3. x.status \in {400, 401, 403} /\ (~Admitted(c) \/ x.status \in {401, 403})
      BY <1>2, <1>4, <2>2
    <2>4. UNCHANGED <<want, made, waiting, peeked, vars>>
      BY <1>1, <1>2, <1>4 DEF Call
    <2> QED BY <2>1, <2>2, <2>3, <2>4, Zenon DEF TurnedAway
  <1> QED BY <1>3, <1>4

\* A call that is let in is a submission that its session may carry.
LEMMA CallIsOffered ==
    ASSUME CallTypes, NEW c \in Clients, made[c] < Len(Attempts[c]), Admitted(c)
    PROVE  /\ made[c] + 1 \in DOMAIN Attempts[c]
           /\ Attempts[c][made[c] + 1] \in Sessions
           /\ want[c].body \in Offers[Attempts[c][made[c] + 1]]
  <1>1. Attempts[c] \in Seq(Sessions) /\ made[c] \in Nat /\ want[c] \in Wants[c]
    BY ClientsAssumption DEF CallTypes
  <1>2. PICK n \in Nat : n = made[c] BY <1>1
  <1>3. n + 1 \in 1 .. Len(Attempts[c])
    BY <1>1, <1>2
  <1>4. n + 1 \in DOMAIN Attempts[c] /\ Attempts[c][n + 1] \in Sessions
    BY <1>1, <1>3
  <1>5. want[c].body # None
    BY <1>1, AdmittedMeans
  <1> QED BY <1>1, <1>2, <1>4, <1>5, ClientsAssumption

\* A step of the API is a step of the service behind it, or leaves it alone.
LEMMA HttpStep == CallTypes /\ [HttpNext]_<<vars, clientVars>> => [Next]_vars
  <1> SUFFICES ASSUME CallTypes, [HttpNext]_<<vars, clientVars>> PROVE [Next]_vars
    OBVIOUS
  <1>1. CASE ServerStep
    BY <1>1 DEF ServerStep, Next
  <1>2. ASSUME NEW c \in Clients, Calls(c) PROVE [Next]_vars
    <2>1. CASE LetIn(c)
      <3>1. PICK s, r : /\ s = Attempts[c][made[c] + 1] /\ r = want[c].body
                        /\ Receive(s, r)
        BY <2>1 DEF LetIn
      <3>2. s \in Sessions /\ r \in Offers[s]
        BY <2>1, <3>1, CallIsOffered DEF LetIn
      <3> QED BY <3>1, <3>2 DEF Next
    <2>2. CASE TurnedAway(c)
      BY <2>2 DEF TurnedAway
    <2> QED BY <1>2, <2>1, <2>2, CallShape
  <1>3. ASSUME NEW c \in Clients, Respond(c) \/ ReadOwn(c) \/ GiveUp(c) \/ \E t \in TxIds : Peek(c, t)
        PROVE  UNCHANGED vars
    BY <1>3 DEF Respond, ReadOwn, GiveUp, Peek
  <1>4. CASE Quiescent
    BY <1>4 DEF Next
  <1> QED BY <1>1, <1>2, <1>3, <1>4 DEF HttpNext, ClientStep

\* Wants never change and calls only add up.
LEMMA CallTypesKept == CallTypes /\ [HttpNext]_<<vars, clientVars>> => CallTypes'
  <1> SUFFICES ASSUME CallTypes, [HttpNext]_<<vars, clientVars>> PROVE CallTypes'
    OBVIOUS
  <1>1. CASE UNCHANGED <<want, made>>
    BY <1>1 DEF CallTypes
  <1>2. ASSUME NEW c \in Clients, Calls(c) PROVE CallTypes'
    <2>1. want' = want /\ (made' = made \/ made' = [made EXCEPT ![c] = made[c] + 1])
      BY <1>2, CallShape DEF LetIn, TurnedAway
    <2>2. made[c] + 1 \in Nat
      BY DEF CallTypes
    <2> QED BY <2>1, <2>2 DEF CallTypes
  <1> QED BY <1>1, <1>2 DEF HttpNext, ClientStep, ServerStep, Respond, ReadOwn, GiveUp, Peek,
                            clientVars

\* At first every client wants something it may want.
LEMMA CallTypesInit == HttpInit => CallTypes
  <1> SUFFICES ASSUME HttpInit PROVE CallTypes OBVIOUS
  <1> QED BY DEF HttpInit, CallTypes

\* The API is one way to use the service: every behaviour of the API, whatever its
\* clients send, repeat or give up on, is a behaviour of Wagering, so that all that is
\* proved of the tables holds behind the API.
THEOREM HttpRefinesWagering == HttpSpec => Spec
  BY CallTypesInit, CallTypesKept, HttpStep, PTL DEF HttpSpec, Spec

-----------------------------------------------------------------------------
(* What a step leaves of a call                                             *)

\* A session keeps its request from its arrival and its result for good; the row it
\* adds has its request.
SessionKept(s) ==
    /\ pc[s] # "new" => pc'[s] # "new" /\ req'[s] = req[s]
    /\ result[s].code # None => result'[s] = result[s]
    /\ s \in DOMAIN wagers' =>
          s \in DOMAIN wagers \/ (pc[s] # "new" /\ wagers'[s].req = req[s])

\* The statements of a session come after its arrival and before its end, and
\* leave its request as it is.
LEMMA StatementKeeps ==
    ASSUME TypeOK, NEW s \in Sessions, ReadStep(s), ~\E r \in Offers[s] : Receive(s, r)
    PROVE  InTransaction(s) /\ pc'[s] # "new" /\ req' = req
  <1>0. s \in Actors /\ s \notin Workers /\ pc \in [Actors -> Labels]
    BY ActorsAssumption DEF Actors, TypeOK
  <1>1. InTransaction(s) /\ req' = req
    BY <1>0 DEF ReadStep, SessionStatement, ClaimMessage, RejectInput, LookupKey,
       LookupExternal, WalletNotFound, InsertTransaction, IdentityRace, WalletMismatch,
       LockWallet, ResolveReference, CheckReversal, Abort, RetryAbort,
       InTransaction, Fail, Goto, Decide
  <1>2. ASSUME NEW code, NEW answer, Conclude(s, code, answer) PROVE pc'[s] # "new"
    BY <1>0, <1>2 DEF Conclude
  <1>3. ASSUME Restart(s) PROVE pc'[s] # "new"
    BY <1>0, <1>3 DEF Restart, FirstStatement
  <1>4. ASSUME NEW label, label # "new", Goto(s, label) PROVE pc'[s] # "new"
    BY <1>0, <1>4 DEF Goto
  <1>5. CASE ClaimMessage(s) \/ LookupExternal(s)
    BY <1>1, <1>2, <1>4, <1>5 DEF ClaimMessage, LookupExternal, Fail
  <1>6. CASE RejectInput(s) \/ WalletNotFound(s) \/ WalletMismatch(s) \/ Abort(s)
    BY <1>1, <1>2, <1>6 DEF RejectInput, WalletNotFound, WalletMismatch, Abort, Fail
  <1>7. CASE IdentityRace(s) \/ RetryAbort(s)
    BY <1>1, <1>2, <1>3, <1>7 DEF IdentityRace, RetryAbort
  <1>8. CASE LookupKey(s) \/ InsertTransaction(s) \/ LockWallet(s)
    BY <1>1, <1>4, <1>8 DEF LookupKey, InsertTransaction, LockWallet
  <1>9. CASE ResolveReference(s) \/ CheckReversal(s)
    BY <1>1, <1>4, <1>9 DEF ResolveReference, CheckReversal, Decide
  <1> QED BY <1>0, <1>1, <1>5, <1>6, <1>7, <1>8, <1>9 DEF ReadStep, SessionStatement

\* Every step of the service keeps what is settled, and what a call was and came to.
LEMMA SessionsKeep ==
    ASSUME SafetyInv, IdentityInv, DecisionInv, AnswerInv, [Next]_vars
    PROVE  SettledKept /\ \A s \in Sessions : SessionKept(s)
  <1>0. TypeOK /\ \A s \in Sessions : result[s].code # None => pc[s] = "done"
    BY DEF SafetyInv, AnswerInv, ResultInv
  <1>1. ASSUME NEW s \in Sessions, Aside(s), s \in DOMAIN wagers' => s \in DOMAIN wagers
        PROVE  SessionKept(s)
    BY <1>1 DEF SessionKept, Aside, LocalsKept
  <1>2. ASSUME NEW a \in Actors, ReadStep(a)
        PROVE  SettledKept /\ \A s \in Sessions : SessionKept(s)
    <2>1. wagers' = wagers
      BY <1>0, <1>2, ReadStepFrame DEF tables
    <2>2. ASSUME NEW s \in Sessions PROVE SessionKept(s)
      <3>1. CASE s # a
        BY <1>0, <1>1, <1>2, <2>1, <3>1, ReadAside
      <3>2. CASE s = a /\ ~\E r \in Offers[s] : Receive(s, r)
        <4>1. InTransaction(s) /\ pc'[s] # "new" /\ req' = req
          BY <1>0, <1>2, <3>2, StatementKeeps
        <4> QED BY <1>0, <2>1, <4>1 DEF SessionKept, InTransaction
      <3>3. CASE \E r \in Offers[s] : Receive(s, r)
        BY <1>0, <2>1, <3>3 DEF SessionKept, Receive
      <3> QED BY <3>1, <3>2, <3>3
    <2> QED BY <2>1, <2>2 DEF SettledKept
  <1>3. ASSUME NEW a \in Actors, Commit(a) \/ CommitReplyLost(a)
        PROVE  SettledKept /\ \A s \in Sessions : SessionKept(s)
    <2>1. pc[a] = "commit" /\ ApplyWrites(a) /\ UNCHANGED <<req, raced>>
      BY <1>3 DEF Commit, CommitReplyLost
    <2>2. PICK code, answer : Conclude(a, code, answer)
      BY <1>3 DEF Commit, CommitReplyLost
    <2>3. SettledKept
      BY <2>1, CommitTouches
    <2>4. \A t \in DOMAIN wagers' : t \notin DOMAIN wagers =>
             t = a /\ wagers'[t].req = req[a]
      <3>1. CASE CommitsNothing(a) \/ CommitsSchedule(a)
        BY <3>1 DEF CommitsNothing, CommitsSchedule
      <3>2. CASE CommitsRow(a)
        BY <3>2 DEF CommitsRow, TxOf
      <3> QED BY <2>1, <3>1, <3>2, CommitRows
    <2>5. ASSUME NEW s \in Sessions PROVE SessionKept(s)
      <3>1. CASE s # a
        <4>1. LocalsKept(s)
          BY <1>0, <2>1, <2>2, <3>1, ConcludeKeeps DEF Actors
        <4>2. result'[s] = result[s]
          BY <1>0, <2>2, <3>1 DEF Conclude, TypeOK
        <4> QED BY <1>1, <2>1, <2>4, <3>1, <4>1, <4>2 DEF Aside
      <3>2. CASE s = a
        <4>1. pc'[s] = "done"
          BY <1>0, <2>2, <3>2 DEF Conclude, TypeOK
        <4> QED BY <1>0, <2>1, <2>4, <3>2, <4>1 DEF SessionKept
      <3> QED BY <3>1, <3>2
    <2> QED BY <2>3, <2>5
  <1>4. ASSUME NEW o \in Openings, OpenWallet(o)
        PROVE  SettledKept /\ \A s \in Sessions : SessionKept(s)
    <2>1. SettledKept
      BY <1>4, OpenDecision
    <2>2. /\ UNCHANGED <<pc, req, seen, acct, ref, plan, claim, raced, result>>
          /\ DOMAIN wagers' \subseteq DOMAIN wagers \cup {o.wallet}
      BY <1>4 DEF OpenWallet, Extend, locals
    <2>3. o.wallet \notin Sessions
      BY InputsAssumption, ActorsAssumption
    <2> QED BY <1>1, <2>1, <2>2, <2>3 DEF Aside, LocalsKept
  <1>5. ASSUME NEW t \in TxIds, TimePasses(t) \/ \E r \in Workers : Claim(r, t)
        PROVE  SettledKept /\ \A s \in Sessions : SessionKept(s)
    <2>1. SettledKept /\ DOMAIN wagers' = DOMAIN wagers
      BY <1>5, <1>0, ClaimRow, TimeRow, ScheduleRows
    <2>2. /\ UNCHANGED <<seen, acct, ref, plan, raced, result>>
          /\ \A s \in Sessions : pc'[s] = pc[s] /\ req'[s] = req[s]
      <3>1. CASE TimePasses(t)
        BY <3>1 DEF TimePasses, BecomeDue, LeaseExpires, TTLPasses, Scheduled, locals
      <3>2. ASSUME NEW r \in Workers, Claim(r, t)
            PROVE  /\ UNCHANGED <<seen, acct, ref, plan, raced, result>>
                   /\ \A s \in Sessions : pc'[s] = pc[s] /\ req'[s] = req[s]
        BY <1>0, <3>2, ActorsAssumption DEF Claim, locals, TypeOK, Actors
      <3> QED BY <1>5, <3>1, <3>2
    <2> QED BY <2>1, <2>2 DEF SessionKept
  <1>6. ASSUME UNCHANGED vars PROVE SettledKept /\ \A s \in Sessions : SessionKept(s)
    BY <1>6 DEF vars, tables, SettledKept, SessionKept
  <1> QED BY <1>2, <1>3, <1>4, <1>5, <1>6, NextShape

\* Only a call of its client brings a session to life.
LEMMA ServerStartsNothing ==
    ASSUME TypeOK, ServerStep, NEW s \in Sessions, pc[s] = "new"
    PROVE  pc'[s] = "new"
  <1>0. s \in Actors BY DEF Actors
  <1>1. ASSUME NEW a \in Actors, pc[a] # "new", ReadStep(a) PROVE pc'[s] = "new"
    BY <1>0, <1>1, ReadStepFrame DEF LocalsKept
  <1>2. ASSUME NEW a \in Sessions, SessionStatement(a) \/ WalletMismatch(a)
        PROVE  pc'[s] = "new"
    <2>1. pc[a] # "new" /\ ReadStep(a) /\ a \in Actors
      BY <1>2 DEF ReadStep, SessionStatement, ClaimMessage, RejectInput, LookupKey,
         LookupExternal, WalletNotFound, InsertTransaction, IdentityRace, WalletMismatch,
         Actors
    <2> QED BY <1>1, <2>1
  <1>3. ASSUME NEW a \in Actors,
               \/ a \in Workers /\ LockPending(a)
               \/ LockWallet(a) \/ ResolveReference(a) \/ CheckReversal(a)
               \/ Abort(a) \/ RetryAbort(a)
        PROVE  pc'[s] = "new"
    <2>1. pc[a] # "new" /\ ReadStep(a)
      BY <1>3 DEF ReadStep, LockPending, LockWallet, ResolveReference, CheckReversal, Abort,
         RetryAbort, InTransaction
    <2> QED BY <1>1, <2>1
  <1>4. ASSUME NEW a \in Actors, Commit(a) \/ CommitReplyLost(a) PROVE pc'[s] = "new"
    BY <1>0, <1>4 DEF Commit, CommitReplyLost, Conclude, TypeOK
  <1>5. ASSUME NEW r \in Workers, NEW t \in TxIds, Claim(r, t) PROVE pc'[s] = "new"
    BY <1>0, <1>5, ActorsAssumption DEF Claim, TypeOK
  <1>6. ASSUME NEW t \in TxIds, TimePasses(t) PROVE pc'[s] = "new"
    BY <1>6 DEF TimePasses, BecomeDue, LeaseExpires, TTLPasses, Scheduled
  <1>7. ASSUME NEW o \in Openings, OpenWallet(o) PROVE pc'[s] = "new"
    BY <1>7 DEF OpenWallet
  <1> QED BY <1>2, <1>3, <1>4, <1>5, <1>6, <1>7
          DEF ServerStep, LockedStatement, Failure, Actors

-----------------------------------------------------------------------------
(* What clients are told                                                    *)

\* What the status of a response says of the result it is made from.
LEMMA StatusMeans ==
    ASSUME NEW res, NEW status \in StatusesOf(res)
    PROVE  /\ status \in {200, 202, 400, 404, 409, 422, 500, 503}
           /\ status = 200 => res.code = "OK" /\ res.answer.status # "PENDING_REFERENCE"
           /\ status \in 400 .. 499 =>
                 /\ res.code \in RefusalCodes
                 /\ status # 404 => res.code # "WALLET_NOT_FOUND"
  BY DEF StatusesOf, RefusalCodes, DependencyOrInternalError

\* An answer that names a row is an answer.
LEMMA LastingAnswers ==
    ASSUME TypeOK, NEW x, Lasting(x) PROVE x # NoAnswer
  <1>1. x.tx \in TxIds BY DEF Lasting, TypeOK
  <1>2. None \notin TxIds
    BY ActorsAssumption, NoneAssumption DEF TxIds
  <1> QED BY <1>1, <1>2 DEF NoAnswer, NoTx

\* The row with a client's request is the one that both of its reads find.
LEMMA OwnFound ==
    ASSUME SafetyInv, IdentityInv, NEW c \in Clients, want[c] \in Wants[c], Admitted(c),
           NEW t \in DOMAIN wagers, wagers[t].req = want[c].body
    PROVE  /\ FindByExternalID(want[c].id.provider, want[c].body.ext) = {t}
           /\ FindByID(want[c].id.provider, t) = {t}
  <1>1. /\ want[c].body.provider = want[c].id.provider
        /\ want[c].id.provider # None
    BY AdmittedMeans
  <1>2. wagers[t].req.kind # "OPENING"
    BY <1>1 DEF IdentityInv
  <1>3. \A u \in ByExternal(want[c].id.provider, want[c].body.ext) : u = t
    BY <1>1, <1>2 DEF IdentityInv, IdentityUnique, SameIdentity, ByExternal
  <1>4. t \in ByExternal(want[c].id.provider, want[c].body.ext)
    BY <1>1 DEF ByExternal
  <1> QED BY <1>1, <1>3, <1>4 DEF FindByExternalID, FindByID

\* A read that finds one transaction tells its state.
LEMMA ReadTells ==
    ASSUME TypeOK, NEW t \in DOMAIN wagers
    PROVE  /\ ReadAnswer({t}).answer = AnswerOf(t)
           /\ ReadAnswer({t}).status \in {200, 202}
           /\ ReadAnswer({t}).status = 200 => AnswerOf(t).status \in Terminal
  <1>1. {t} # {} /\ (CHOOSE u \in {t} : TRUE) = t
    OBVIOUS
  <1>2. AnswerOf(t).status \in Statuses
    BY LastingRead DEF Lasting
  <1> QED BY <1>1, <1>2 DEF ReadAnswer, Statuses

\* What a client was told stays true in a step that tells it nothing.
LEMMA ToldStays ==
    ASSUME SettledKept, \A s \in Sessions : SessionKept(s), CallTypes, CallTypes',
           NEW c \in Clients, CallInv(c), ToldInv(c),
           want' = want, made[c] <= made'[c], made'[c] <= Len(Attempts[c]),
           told'[c] = told[c], peeked'[c] = peeked[c]
    PROVE  ToldInv(c)'
  <1>0. PICK x : x = told[c].answer OBVIOUS
  <1>1. ASSUME x # NoAnswer
        PROVE  /\ Lasting(x)' /\ wagers'[x.tx].req = want'[c].body
               /\ Admitted(c)'
    <2>1. Lasting(x) /\ wagers[x.tx].req = want[c].body /\ Admitted(c)
      BY <1>0, <1>1 DEF ToldInv
    <2>2. Lasting(x)' /\ wagers'[x.tx].req = wagers[x.tx].req
      BY <2>1, LastingKept
    <2> QED BY <2>1, <2>2 DEF Admitted
  <1>2. (told[c].status = 200 =>
          told[c].answer # NoAnswer /\ told[c].answer.status \in Terminal)'
    BY DEF ToldInv
  <1>3. ASSUME told'[c].status \in 400 .. 499, Admitted(c), told[c].status \notin {401, 403}
        PROVE  (\E i \in 1 .. made[c] : Refuses(Attempts[c][i], told[c].status))'
    <2>1. PICK i \in 1 .. made[c] : Refuses(Attempts[c][i], told[c].status)
      BY <1>3 DEF ToldInv
    <2>2. PICK n \in Nat, m \in Nat : n = made[c] /\ m = made'[c]
      BY DEF CallTypes
    <2>3. Attempts[c] \in Seq(Sessions)
      BY ClientsAssumption
    <2>4. i \in 1 .. m /\ i \in 1 .. Len(Attempts[c])
      BY <2>2, <2>3
    <2>5. Attempts[c][i] \in Sessions
      BY <2>3, <2>4
    <2>6. result[Attempts[c][i]].code # None
      BY <2>1, CodesAssumption DEF Refuses, RefusalCodes, Codes
    <2>7. result'[Attempts[c][i]] = result[Attempts[c][i]]
      BY <2>5, <2>6 DEF SessionKept
    <2> QED BY <2>1, <2>2, <2>4, <2>7 DEF Refuses
  <1>4. peeked'[c].answer # NoAnswer =>
          /\ peeked'[c].answer.tx \in DOMAIN wagers'
          /\ wagers'[peeked'[c].answer.tx].req.provider = want'[c].id.provider
    BY DEF ToldInv, SettledKept
  <1>5. Admitted(c)' <=> Admitted(c)
    BY DEF Admitted
  <1> QED BY <1>0, <1>1, <1>2, <1>3, <1>4, <1>5 DEF ToldInv, Lasting, AnswerOf

\* The calls of a client are as they were after a step that starts none of them.
LEMMA CallKept ==
    ASSUME SettledKept, \A s \in Sessions : SessionKept(s),
           NEW c \in Clients, CallInv(c), want' = want, made'[c] = made[c],
           waiting'[c] \in {waiting[c], None},
           \A i \in DOMAIN Attempts[c] :
              pc[Attempts[c][i]] = "new" => pc'[Attempts[c][i]] = "new"
    PROVE  CallInv(c)'
  <1>1. \A i \in DOMAIN Attempts[c] : Attempts[c][i] \in Sessions
    BY ClientsAssumption
  <1>2. ASSUME NEW i \in DOMAIN Attempts[c], NEW s, s = Attempts[c][i]
        PROVE  /\ pc'[s] # "new" => i <= made'[c] /\ Admitted(c)' /\ req'[s] = want'[c].body
               /\ s \in DOMAIN wagers' => wagers'[s].req = want'[c].body
    BY <1>1, <1>2 DEF CallInv, SessionKept, SettledKept, Admitted
  <1>3. waiting'[c] # None => \E i \in 1 .. made'[c] : waiting'[c] = Attempts[c][i]
    BY DEF CallInv
  <1>4. made'[c] <= Len(Attempts[c])
    BY DEF CallInv
  <1> QED BY <1>2, <1>3, <1>4 DEF CallInv

\* The steps of a client after its call: what it is told is all that may change.
LEMMA OnlyTold ==
    ASSUME SettledKept, \A s \in Sessions : SessionKept(s), ClientInv, CallTypes',
           UNCHANGED <<want, made, pc>>,
           DOMAIN waiting' = Clients, DOMAIN told' = Clients, DOMAIN peeked' = Clients,
           NEW c \in Clients, waiting'[c] \in {waiting[c], None}, ToldInv(c)',
           \A d \in Clients : d # c => /\ waiting'[d] = waiting[d] /\ told'[d] = told[d]
                                       /\ peeked'[d] = peeked[d]
    PROVE  ClientInv'
  <1>1. ASSUME NEW d \in Clients PROVE CallInv(d)'
    <2>1. CallInv(d) /\ made'[d] = made[d] /\ want' = want BY DEF ClientInv
    <2>2. waiting'[d] \in {waiting[d], None} OBVIOUS
    <2> QED BY <2>1, <2>2, CallKept
  <1>2. ASSUME NEW d \in Clients PROVE ToldInv(d)'
    <2>1. /\ CallInv(d) /\ ToldInv(d) /\ CallTypes
          /\ made[d] <= Len(Attempts[d]) /\ made[d] \in Nat
      BY DEF ClientInv, CallTypes, CallInv
    <2>2. PICK m \in Nat : m = made[d] /\ m = made'[d] BY <2>1
    <2>3. made[d] <= made'[d] /\ made'[d] <= Len(Attempts[d])
      BY <2>1, <2>2
    <2>4. CASE d # c
      BY <2>1, <2>3, <2>4, ToldStays
    <2> QED BY <2>4
  <1> QED BY <1>1, <1>2 DEF ClientInv

\* A call that is turned away tells its client so, and touches nothing else.
LEMMA CallRefused ==
    ASSUME SettledKept, \A s \in Sessions : SessionKept(s), ClientInv, CallTypes',
           NEW c \in Clients, TurnedAway(c)
    PROVE  ClientInv'
  <1>0. UNCHANGED <<want, made, waiting, peeked, vars>>
    BY DEF TurnedAway
  <1>1. PICK x : /\ x.answer = NoAnswer /\ x.status \in {400, 401, 403}
                 /\ ~Admitted(c) \/ x.status \in {401, 403}
                 /\ told' = [told EXCEPT ![c] = x]
    BY Zenon DEF TurnedAway
  <1>2. UNCHANGED <<want, made, waiting, peeked, pc, req, wagers, result>>
    BY <1>0 DEF vars, tables
  <1>3. DOMAIN told = Clients /\ DOMAIN waiting = Clients /\ DOMAIN peeked = Clients
        /\ ToldInv(c)
    BY DEF ClientInv
  <1>4. ToldInv(c)'
    <2>1. told'[c].answer = NoAnswer /\ told'[c].status = x.status
      BY <1>1, <1>3
    <2>2. Admitted(c)' <=> Admitted(c)
      BY <1>2 DEF Admitted
    <2>3. /\ peeked'[c].answer # NoAnswer =>
                /\ peeked'[c].answer.tx \in DOMAIN wagers'
                /\ wagers'[peeked'[c].answer.tx].req.provider = want'[c].id.provider
      BY <1>1, <1>2, <1>3 DEF ToldInv
    <2> QED BY <1>1, <2>1, <2>2, <2>3 DEF ToldInv
  <1> QED BY <1>1, <1>2, <1>3, <1>4, OnlyTold

\* A call that is let in starts the next session of its client, and no other.
LEMMA CallAdmitted ==
    ASSUME TypeOK, SettledKept, \A s \in Sessions : SessionKept(s), ClientInv, CallTypes',
           NEW c \in Clients, LetIn(c)
    PROVE  ClientInv'
  <1>1. PICK s : /\ s = Attempts[c][made[c] + 1]
                 /\ Receive(s, want[c].body)
                 /\ waiting' = [waiting EXCEPT ![c] = s]
                 /\ made' = [made EXCEPT ![c] = made[c] + 1] /\ made[c] < Len(Attempts[c])
                 /\ UNCHANGED <<want, peeked, told>>
                 /\ Admitted(c)
    BY DEF LetIn
  <1>2. /\ CallTypes /\ DOMAIN waiting = Clients /\ CallInv(c) /\ ToldInv(c)
    BY DEF ClientInv
  <1>3. PICK n \in Nat : n = made[c] /\ n + 1 = made'[c]
    BY <1>1, <1>2 DEF CallTypes
  <1>4. s \in Sessions /\ n + 1 \in DOMAIN Attempts[c]
    BY <1>1, <1>2, <1>3, CallIsOffered
  <1>5. /\ wagers' = wagers /\ pc'[s] # "new" /\ req'[s] = want[c].body
        /\ \A u \in Sessions : u # s => pc'[u] = pc[u] /\ req'[u] = req[u]
    BY <1>1, <1>4 DEF Receive, FirstStatement, TypeOK, tables, Actors
  <1>6. Attempts[c] \in Seq(Sessions) /\ Len(Attempts[c]) \in Nat
    BY ClientsAssumption
  <1>7. made'[c] <= Len(Attempts[c]) /\ made[c] <= made'[c]
    BY <1>1, <1>3, <1>6
  <1>8. CallInv(c)'
    <2>1. waiting'[c] # None => \E i \in 1 .. made'[c] : waiting'[c] = Attempts[c][i]
      BY <1>1, <1>2, <1>3
    <2>2. ASSUME NEW i \in DOMAIN Attempts[c], NEW u, u = Attempts[c][i]
          PROVE  /\ pc'[u] # "new" => i <= made'[c] /\ Admitted(c)' /\ req'[u] = want'[c].body
                 /\ u \in DOMAIN wagers' => wagers'[u].req = want'[c].body
      <3>1. i \in Nat /\ u \in Sessions BY <1>6, <2>2
      <3>2. u \in DOMAIN wagers' => wagers'[u].req = want'[c].body
        BY <1>1, <1>2, <1>5, <2>2 DEF CallInv
      <3>3. Admitted(c)' BY <1>1 DEF Admitted
      <3>4. CASE u = s
        <4>0. PICK j \in DOMAIN Attempts[c] : j = n + 1 BY <1>4
        <4>1. i = j
          <5>1. Attempts[c][i] = Attempts[c][j]
            BY <1>1, <1>3, <2>2, <3>4, <4>0
          <5> QED BY <5>1, ClientsAssumption
        <4>2. i <= made'[c] BY <1>3, <4>0, <4>1
        <4> QED BY <1>1, <1>5, <3>2, <3>3, <3>4, <4>2
      <3>5. CASE u # s
        <4>1. pc'[u] # "new" => i <= n /\ req'[u] = want'[c].body
          BY <1>1, <1>2, <1>3, <1>5, <2>2, <3>1, <3>5 DEF CallInv
        <4> QED BY <1>3, <3>1, <3>2, <3>3, <4>1
      <3> QED BY <3>4, <3>5
    <2> QED BY <1>7, <2>1, <2>2 DEF CallInv
  <1>9. ToldInv(c)'
    BY <1>1, <1>2, <1>7, ToldStays
  <1>10. ASSUME NEW d \in Clients, d # c PROVE CallInv(d)' /\ ToldInv(d)'
    <2>1. /\ CallInv(d) /\ ToldInv(d) /\ made'[d] = made[d] /\ waiting'[d] = waiting[d]
          /\ made[d] <= Len(Attempts[d]) /\ made[d] \in Nat
      BY <1>1, <1>2, <1>10 DEF ClientInv, CallTypes, CallInv
    <2>2. PICK m \in Nat : m = made[d] /\ m = made'[d] BY <2>1
    <2>3. made[d] <= made'[d] /\ made'[d] <= Len(Attempts[d])
      BY <2>1, <2>2
    <2>4. ToldInv(d)'
      BY <1>1, <1>2, <2>1, <2>3, ToldStays
    <2>5. ASSUME NEW i \in DOMAIN Attempts[d]
          PROVE  pc'[Attempts[d][i]] = pc[Attempts[d][i]]
      <3>1. Attempts[d][i] # s
        BY <1>1, <1>3, <1>4, <1>10, ClientsAssumption
      <3>2. Attempts[d][i] \in Sessions
        BY ClientsAssumption
      <3> QED BY <1>5, <3>1, <3>2
    <2>6. CallInv(d)'
      BY <1>1, <2>1, <2>5, CallKept
    <2> QED BY <2>4, <2>6
  <1> QED BY <1>1, <1>2, <1>8, <1>9, <1>10 DEF ClientInv

\* A response tells what came of a call: an answer about the request the call carried,
\* or a refusal that is its result.
LEMMA RespondTells ==
    ASSUME SafetyInv, AnswerInv, ClientInv, NEW c \in Clients, Respond(c)
    PROVE  ToldInv(c)'
  <1>0. TypeOK /\ CallTypes /\ CallInv(c) /\ ToldInv(c) /\ DOMAIN told = Clients
    BY DEF SafetyInv, ClientInv
  <1>1. PICK s, status :
           /\ s = waiting[c] /\ s # None /\ pc[s] = "done" /\ status \in StatusesOf(result[s])
           /\ told' = [told EXCEPT ![c] = [status |-> status, answer |-> result[s].answer]]
           /\ UNCHANGED <<want, made, peeked, vars>>
    BY DEF Respond
  <1>2. /\ told'[c].status = status /\ told'[c].answer = result[s].answer
        /\ UNCHANGED <<pc, req, wagers, result>>
    BY <1>0, <1>1 DEF vars, tables
  <1>3. PICK i \in 1 .. made[c] : s = Attempts[c][i]
    BY <1>0, <1>1 DEF CallInv
  <1>4. i \in DOMAIN Attempts[c] /\ s \in Sessions
    <2>1. Attempts[c] \in Seq(Sessions)
      BY ClientsAssumption
    <2>2. PICK n \in Nat : n = made[c] /\ n <= Len(Attempts[c])
      BY <1>0 DEF CallTypes, CallInv
    <2>3. i \in 1 .. Len(Attempts[c])
      BY <2>1, <2>2
    <2> QED BY <1>3, <2>1, <2>3
  <1>5. Admitted(c) /\ req[s] = want[c].body
    BY <1>0, <1>1, <1>3, <1>4 DEF CallInv
  <1>6. ResultInv(s)
    BY <1>4 DEF AnswerInv
  <1>7. PICK x : x = result[s].answer OBVIOUS
  <1>8. CASE result[s].code = "OK"
    <2>1. Lasting(x) /\ wagers[x.tx].req = want[c].body /\ x # NoAnswer
      BY <1>0, <1>5, <1>6, <1>7, <1>8, LastingAnswers DEF ResultInv
    <2>2. Lasting(x)'
      BY <1>2, <2>1 DEF Lasting, AnswerOf
    <2>3. Admitted(c)'
      BY <1>1, <1>5 DEF Admitted
    <2>4. status \notin 400 .. 499
      BY <1>8, <1>1, StatusMeans DEF RefusalCodes
    <2>5. status = 200 => x.status \in Terminal
      BY <1>7, <2>1, <1>1, StatusMeans DEF Lasting, Statuses
    <2>6. peeked'[c].answer # NoAnswer =>
             /\ peeked'[c].answer.tx \in DOMAIN wagers'
             /\ wagers'[peeked'[c].answer.tx].req.provider = want'[c].id.provider
      BY <1>0, <1>1, <1>2 DEF ToldInv
    <2>7. Lasting(told[c].answer)'
      BY <1>2, <1>7, <2>2
    <2> QED BY <1>1, <1>2, <1>7, <2>1, <2>3, <2>4, <2>5, <2>6, <2>7 DEF ToldInv
  <1>9. CASE result[s].code # "OK"
    <2>1. x = NoAnswer
      BY <1>6, <1>7, <1>9 DEF ResultInv
    <2>2. status # 200
      BY <1>1, <1>9, StatusMeans
    <2>3. status \in 400 .. 499 => Refuses(s, status)
      BY <1>1, StatusMeans DEF Refuses
    <2>4. status \in 400 .. 499 =>
             (\E j \in 1 .. made[c] : Refuses(Attempts[c][j], told[c].status))'
      BY <1>1, <1>2, <1>3, <2>3 DEF Refuses
    <2>5. peeked'[c].answer # NoAnswer =>
             /\ peeked'[c].answer.tx \in DOMAIN wagers'
             /\ wagers'[peeked'[c].answer.tx].req.provider = want'[c].id.provider
      BY <1>0, <1>1, <1>2 DEF ToldInv
    <2> QED BY <1>2, <1>7, <2>1, <2>2, <2>4, <2>5 DEF ToldInv
  <1> QED BY <1>8, <1>9

\* A client that reads its operation finds the row it was told of, whatever else has
\* happened since, and is never told that it is gone.
LEMMA ReadTellsOwn ==
    ASSUME SafetyInv, IdentityInv, ClientInv, NEW c \in Clients, ReadOwn(c)
    PROVE  ToldInv(c)'
  <1>0. /\ TypeOK /\ want[c] \in Wants[c] /\ ToldInv(c) /\ DOMAIN told = Clients
        /\ told[c].answer # NoAnswer
        /\ UNCHANGED <<want, made, peeked, vars>>
    BY DEF SafetyInv, ClientInv, CallTypes, ReadOwn
  <1>1. PICK t : /\ t = told[c].answer.tx /\ t \in DOMAIN wagers
                 /\ wagers[t].req = want[c].body /\ Admitted(c)
    BY <1>0 DEF ToldInv, Lasting
  <1>2. told' = [told EXCEPT ![c] = ReadAnswer({t})]
    BY <1>0, <1>1, OwnFound DEF ReadOwn
  <1>3. told'[c] = ReadAnswer({t}) /\ UNCHANGED wagers
    BY <1>0, <1>2 DEF vars, tables
  <1>4. /\ told'[c].answer = AnswerOf(t) /\ told'[c].status \in {200, 202}
        /\ told'[c].status = 200 => AnswerOf(t).status \in Terminal
    BY <1>0, <1>1, <1>3, ReadTells
  <1>5. PICK x : x = AnswerOf(t) OBVIOUS
  <1>6. Lasting(x) /\ x.tx = t /\ x # NoAnswer
    BY <1>0, <1>1, <1>5, LastingRead, LastingAnswers
  <1>7. Lasting(told[c].answer)'
    BY <1>3, <1>4, <1>5, <1>6 DEF Lasting, AnswerOf
  <1>8. Admitted(c)'
    BY <1>0, <1>1 DEF Admitted
  <1>9. peeked'[c].answer # NoAnswer =>
           /\ peeked'[c].answer.tx \in DOMAIN wagers'
           /\ wagers'[peeked'[c].answer.tx].req.provider = want'[c].id.provider
    BY <1>0, <1>3 DEF ToldInv
  <1>10. told'[c].status \notin 400 .. 499
    BY <1>4
  <1> QED BY <1>0, <1>1, <1>3, <1>4, <1>5, <1>6, <1>7, <1>8, <1>9, <1>10 DEF ToldInv

\* A transaction that a client asks for by id is shown to its own provider only.
LEMMA PeekTells ==
    ASSUME SafetyInv, ClientInv, NEW c \in Clients, NEW t, Peek(c, t)
    PROVE  ToldInv(c)'
  <1>0. /\ TypeOK /\ ToldInv(c) /\ DOMAIN peeked = Clients /\ t \in DOMAIN wagers
        /\ UNCHANGED <<want, made, told, vars>>
        /\ peeked' = [peeked EXCEPT ![c] = ReadAnswer(FindByID(want[c].id.provider, t))]
    BY DEF SafetyInv, ClientInv, Peek
  <1>1. UNCHANGED <<wagers, result>>
    BY <1>0 DEF vars, tables
  <1>2. PICK found : found = FindByID(want[c].id.provider, t) OBVIOUS
  <1>3. peeked'[c] = ReadAnswer(found)
    BY <1>0, <1>2
  <1>4. \/ found = {} /\ peeked'[c].answer = NoAnswer
        \/ /\ found = {t} /\ peeked'[c].answer = AnswerOf(t)
           /\ wagers[t].req.provider = want[c].id.provider
    <2>1. CASE wagers[t].req.provider = want[c].id.provider
      <3>1. found = {t}
        BY <1>0, <1>2, <2>1 DEF FindByID
      <3> QED BY <1>0, <1>3, <2>1, <3>1, ReadTells
    <2>2. CASE wagers[t].req.provider # want[c].id.provider
      <3>1. found = {}
        BY <1>0, <1>2, <2>2 DEF FindByID
      <3> QED BY <1>3, <3>1 DEF ReadAnswer, Untold
    <2> QED BY <2>1, <2>2
  <1>5. peeked'[c].answer # NoAnswer =>
           /\ peeked'[c].answer.tx \in DOMAIN wagers'
           /\ wagers'[peeked'[c].answer.tx].req.provider = want'[c].id.provider
    BY <1>0, <1>1, <1>4 DEF AnswerOf
  <1>6. Lasting(told[c].answer)' <=> Lasting(told[c].answer)
    BY <1>0, <1>1 DEF Lasting, AnswerOf
  <1> QED BY <1>0, <1>1, <1>5, <1>6 DEF ToldInv, Admitted, Refuses

\* Every step of the server, of a client or of both keeps what clients were told true.
LEMMA ClientsStep ==
    SafetyInv /\ IdentityInv /\ DecisionInv /\ AnswerInv /\ ClientInv
        /\ [HttpNext]_<<vars, clientVars>> => ClientInv'
  <1> SUFFICES ASSUME SafetyInv, IdentityInv, DecisionInv, AnswerInv, ClientInv,
                      [HttpNext]_<<vars, clientVars>>
               PROVE  ClientInv'
    OBVIOUS
  <1>0. CallTypes /\ CallTypes' /\ [Next]_vars /\ TypeOK
    BY CallTypesKept, HttpStep DEF ClientInv, SafetyInv
  <1>1. SettledKept /\ \A s \in Sessions : SessionKept(s)
    BY <1>0, SessionsKeep
  <1>2. /\ DOMAIN waiting = Clients /\ DOMAIN told = Clients /\ DOMAIN peeked = Clients
        /\ \A c \in Clients : CallInv(c) /\ ToldInv(c)
    BY DEF ClientInv
  <1>3. ASSUME UNCHANGED clientVars, \A s \in Sessions : pc[s] = "new" => pc'[s] = "new"
        PROVE  ClientInv'
    <2>1. UNCHANGED <<want, made, waiting, told, peeked>>
      BY <1>3 DEF clientVars
    <2>2. ASSUME NEW c \in Clients PROVE CallInv(c)' /\ ToldInv(c)'
      <3>1. CallInv(c) /\ ToldInv(c) /\ made[c] <= Len(Attempts[c]) /\ made[c] \in Nat
        BY <1>0, <1>2 DEF CallInv, CallTypes
      <3>2. PICK m \in Nat : m = made[c] /\ m = made'[c] BY <2>1, <3>1
      <3>3. made[c] <= made'[c] /\ made'[c] <= Len(Attempts[c])
        BY <3>1, <3>2
      <3>4. ToldInv(c)'
        BY <1>0, <1>1, <2>1, <3>1, <3>3, ToldStays
      <3>5. \A i \in DOMAIN Attempts[c] : Attempts[c][i] \in Sessions
        BY ClientsAssumption
      <3>6. CallInv(c)'
        BY <1>1, <1>3, <2>1, <3>1, <3>5, CallKept
      <3> QED BY <3>4, <3>6
    <2> QED BY <1>0, <1>2, <2>1, <2>2 DEF ClientInv
  <1>4. CASE ServerStep
    BY <1>0, <1>3, <1>4, ServerStartsNothing DEF ServerStep
  <1>5. ASSUME NEW c \in Clients, Calls(c) PROVE ClientInv'
    BY <1>0, <1>1, <1>5, CallShape, CallAdmitted, CallRefused
  <1>6. ASSUME NEW c \in Clients, Respond(c) PROVE ClientInv'
    <2>1. /\ waiting' = [waiting EXCEPT ![c] = None]
          /\ \E x : told' = [told EXCEPT ![c] = x]
          /\ UNCHANGED <<want, made, peeked, pc>>
      BY <1>6 DEF Respond, vars
    <2> QED BY <1>0, <1>1, <1>2, <1>6, <2>1, RespondTells, OnlyTold
  <1>7. ASSUME NEW c \in Clients, ReadOwn(c) PROVE ClientInv'
    <2>1. /\ \E x : told' = [told EXCEPT ![c] = x]
          /\ UNCHANGED <<want, made, waiting, peeked, pc>>
      BY <1>7 DEF ReadOwn, vars
    <2> QED BY <1>0, <1>1, <1>2, <1>7, <2>1, ReadTellsOwn, OnlyTold
  <1>8. ASSUME NEW c \in Clients, NEW t \in TxIds, Peek(c, t) PROVE ClientInv'
    <2>1. /\ \E x : peeked' = [peeked EXCEPT ![c] = x]
          /\ UNCHANGED <<want, made, waiting, told, pc>>
      BY <1>8 DEF Peek, vars
    <2> QED BY <1>0, <1>1, <1>2, <1>8, <2>1, PeekTells, OnlyTold
  <1>9. ASSUME NEW c \in Clients, GiveUp(c) PROVE ClientInv'
    <2>1. /\ waiting' = [waiting EXCEPT ![c] = None]
          /\ UNCHANGED <<want, made, told, peeked, pc>>
      BY <1>9 DEF GiveUp, vars
    <2>2. /\ ToldInv(c) /\ CallInv(c) /\ made[c] <= Len(Attempts[c]) /\ made[c] \in Nat
      BY <1>0, <1>2 DEF CallInv, CallTypes
    <2>3. PICK m \in Nat : m = made[c] /\ m = made'[c] BY <2>1, <2>2
    <2>4. made[c] <= made'[c] /\ made'[c] <= Len(Attempts[c])
      BY <2>2, <2>3
    <2>5. ToldInv(c)'
      BY <1>0, <1>1, <2>1, <2>2, <2>4, ToldStays
    <2> QED BY <1>0, <1>1, <1>2, <2>1, <2>5, OnlyTold
  <1>10. CASE Quiescent /\ UNCHANGED clientVars
    BY <1>3, <1>10 DEF Quiescent, vars
  <1>11. CASE UNCHANGED <<vars, clientVars>>
    BY <1>3, <1>11 DEF vars
  <1> QED BY <1>4, <1>5, <1>6, <1>7, <1>8, <1>9, <1>10, <1>11 DEF HttpNext, ClientStep

\* Before the first call nobody was told anything.
LEMMA ClientsInit == Init /\ HttpInit => ClientInv
  <1> SUFFICES ASSUME Init, HttpInit PROVE ClientInv OBVIOUS
  <1>1. DOMAIN wagers = {} /\ \A s \in Sessions : pc[s] = "new"
    BY DEF Init, Actors
  <1>2. CallTypes BY CallTypesInit
  <1>3. \A c \in Clients : /\ made[c] = 0 /\ waiting[c] = None /\ told[c] = Untold
                           /\ peeked[c] = Untold
    BY DEF HttpInit
  <1>4. /\ DOMAIN waiting = Clients /\ DOMAIN told = Clients /\ DOMAIN peeked = Clients
    BY DEF HttpInit
  <1>5. ASSUME NEW c \in Clients PROVE CallInv(c)
    <2>1. Attempts[c] \in Seq(Sessions)
      BY ClientsAssumption
    <2>2. 0 <= Len(Attempts[c]) /\ \A i \in DOMAIN Attempts[c] : Attempts[c][i] \in Sessions
      BY <2>1
    <2> QED BY <1>1, <1>3, <2>2 DEF CallInv
  <1>6. ASSUME NEW c \in Clients PROVE ToldInv(c)
    BY <1>3 DEF ToldInv, Untold
  <1> QED BY <1>2, <1>4, <1>5, <1>6 DEF ClientInv

\* Behind the API the tables are as sound as they are without it, and whatever a client
\* was told is about its own request and stays true.
THEOREM ClientsAreServed ==
    HttpSpec => [](SafetyInv /\ IdentityInv /\ DecisionInv /\ AnswerInv /\ ClientInv)
  BY HttpRefinesWagering, Answers, ClientsInit, ClientsStep, PTL DEF HttpSpec

\* What a provider submits is recorded under its own name, and it is told about its own
\* wagers only, whatever ids it asks for.
THEOREM ProvidersStaySeparate == HttpSpec => []ProvidersAreSeparate
  <1>1. ASSUME SafetyInv, ClientInv PROVE ProvidersAreSeparate
    <2> SUFFICES ASSUME NEW c \in Clients
                 PROVE  /\ \A answer \in {told[c].answer, peeked[c].answer} :
                              answer # NoAnswer =>
                                 wagers[answer.tx].req.provider = want[c].id.provider
                        /\ \A i \in DOMAIN Attempts[c] :
                              Attempts[c][i] \in DOMAIN wagers =>
                                 wagers[Attempts[c][i]].req.provider = want[c].id.provider
      BY DEF ProvidersAreSeparate
    <2>1. want[c] \in Wants[c] /\ CallInv(c) /\ ToldInv(c)
      BY <1>1 DEF ClientInv, CallTypes
    <2>2. Admitted(c) => want[c].body.provider = want[c].id.provider
      BY <2>1, AdmittedMeans
    <2>3. \A answer \in {told[c].answer, peeked[c].answer} :
             answer # NoAnswer => wagers[answer.tx].req.provider = want[c].id.provider
      BY <2>1, <2>2 DEF ToldInv
    <2>4. ASSUME NEW i \in DOMAIN Attempts[c], Attempts[c][i] \in DOMAIN wagers
          PROVE  wagers[Attempts[c][i]].req.provider = want[c].id.provider
      <3>1. Attempts[c][i] \in Sessions
        BY ClientsAssumption
      <3>2. pc[Attempts[c][i]] = "done"
        BY <1>1, <2>4, <3>1 DEF SafetyInv, ActorInv, Actors
      <3>3. Admitted(c) /\ wagers[Attempts[c][i]].req = want[c].body
        BY <2>1, <2>4, <3>2 DEF CallInv
      <3> QED BY <2>2, <3>3
    <2> QED BY <2>3, <2>4
  <1> QED BY <1>1, ClientsAreServed, PTL

\* No row has a request that was refused for good: it could not exist beside what the
\* refusal rests on.
LEMMA RefusedHasNoRow ==
    ASSUME IdentityInv, AnswerInv, NEW s \in Sessions,
           result[s].code \in RefusalCodes \ {"WALLET_NOT_FOUND"}, req[s].provider # None,
           NEW t \in DOMAIN wagers, wagers[t].req = req[s]
    PROVE  FALSE
  <1>1. PICK code : code = result[s].code /\ Backed(s, code)
    BY DEF AnswerInv, ResultInv
  <1>2. wagers[t].req.kind # "OPENING" /\ ValidRequest(req[s])
    BY DEF IdentityInv
  <1>3. \A q \in DOMAIN wagers : SameIdentity(req[s], wagers[q].req) => wagers[q].req = req[s]
    BY <1>2 DEF IdentityInv, IdentityUnique
  <1>4. code \notin {"IDEMPOTENCY_CONFLICT", "EXTERNAL_ID_CONFLICT"}
    BY <1>1, <1>3 DEF Backed, ByKey, ByExternal, SameIdentity
  <1>5. code \notin {"INVALID_INPUT", "WALLET_MISMATCH"}
    BY <1>1, <1>2 DEF Backed, AnswerInv, OwnerInv, Owned
  <1> QED BY <1>1, <1>4, <1>5 DEF RefusalCodes

\* A refusal is the truth about all calls of its client, also those that still run: none
\* has left a wager, unless the refusal is about one call alone.  A client that was told
\* 200 has the wager it was told about.
THEOREM RefusalsStayTrue == HttpSpec => []RefusalsLeaveNothing
  <1>1. ASSUME SafetyInv, IdentityInv, AnswerInv, ClientInv PROVE RefusalsLeaveNothing
    <2> SUFFICES ASSUME NEW c \in Clients
                 PROVE  /\ /\ told[c].status \in 400 .. 499
                           /\ \/ told[c].status \notin OfOneCall
                              \/ told[c].status = 404 /\ made[c] = 1
                              \/ Admission(want[c].id, want[c].body) # 200
                           => \A i \in DOMAIN Attempts[c] : Attempts[c][i] \notin DOMAIN wagers
                        /\ told[c].status = 200 => told[c].answer = AnswerOf(told[c].answer.tx)
      BY DEF RefusalsLeaveNothing
    <2>1. want[c] \in Wants[c] /\ CallInv(c) /\ ToldInv(c)
      BY <1>1 DEF ClientInv, CallTypes
    <2>2. told[c].status = 200 => told[c].answer = AnswerOf(told[c].answer.tx)
      BY <2>1 DEF ToldInv, Lasting
    <2>3. PICK n \in Nat : n = made[c] /\ n <= Len(Attempts[c])
      BY <1>1, <2>1 DEF ClientInv, CallTypes, CallInv
    <2>4. \A i \in DOMAIN Attempts[c] : i \in Nat /\ i >= 1 /\ Attempts[c][i] \in Sessions
      BY ClientsAssumption
    <2>5. \A i \in 1 .. made[c] : i \in DOMAIN Attempts[c]
      <3>1. Attempts[c] \in Seq(Sessions)
        BY ClientsAssumption
      <3> QED BY <2>3, <3>1
    <2>6. ASSUME NEW i \in DOMAIN Attempts[c], Attempts[c][i] \in DOMAIN wagers,
                 told[c].status \in 400 .. 499,
                 \/ told[c].status \notin OfOneCall
                 \/ told[c].status = 404 /\ made[c] = 1
                 \/ Admission(want[c].id, want[c].body) # 200
          PROVE  FALSE
      <3>1. PICK t : t = Attempts[c][i] /\ t \in DOMAIN wagers BY <2>6
      <3>2. pc[t] = "done"
        BY <1>1, <2>4, <3>1 DEF SafetyInv, ActorInv, Actors
      <3>3. Admitted(c) /\ wagers[t].req = want[c].body /\ i <= made[c]
        BY <2>1, <3>1, <3>2 DEF CallInv
      <3>4. told[c].status \notin {401, 403}
        BY <2>6, <3>3 DEF OfOneCall, Admitted
      <3>5. PICK j \in 1 .. made[c] : Refuses(Attempts[c][j], told[c].status)
        BY <2>1, <2>6, <3>3, <3>4 DEF ToldInv
      <3>6. PICK s : s = Attempts[c][j] /\ s \in Sessions /\ result[s].code \in RefusalCodes
        BY <2>4, <2>5, <3>5 DEF Refuses
      <3>7. pc[s] = "done" /\ s \notin DOMAIN wagers
        BY <1>1, <3>6, CodesAssumption DEF AnswerInv, ResultInv, RefusalCodes, Codes
      <3>8. req[s] = want[c].body /\ req[s].provider # None
        BY <2>1, <2>5, <3>3, <3>5, <3>6, <3>7, AdmittedMeans DEF CallInv
      <3>9. CASE told[c].status # 404
        <4>1. result[s].code # "WALLET_NOT_FOUND"
          BY <3>5, <3>6, <3>9 DEF Refuses
        <4> QED BY <1>1, <3>1, <3>3, <3>6, <3>8, <4>1, RefusedHasNoRow
      <3>10. CASE told[c].status = 404
        <4>1. made[c] = 1 BY <2>6, <3>3, <3>10 DEF OfOneCall, Admitted
        <4>2. i = j BY <2>3, <2>4, <3>3, <4>1
        <4> QED BY <3>1, <3>6, <3>7, <4>2
      <3> QED BY <3>9, <3>10
    <2> QED BY <2>2, <2>6
  <1> QED BY <1>1, ClientsAreServed, PTL
=============================================================================
