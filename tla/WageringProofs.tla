---------------------------- MODULE WageringProofs ----------------------------
(***************************************************************************)
(* Theorems about Wagering, for every set of sessions, workers, wallets    *)
(* and requests and for every bound.                                       *)
(***************************************************************************)
EXTENDS WageringInvariant, TLAPS

\* What a step leaves of an actor's locals, of the wallets it has locked and of
\* the tables it may have read.
LocalsKept(b) ==
    /\ pc'[b] = pc[b] /\ req'[b] = req[b] /\ seen'[b] = seen[b]
    /\ acct'[b] = acct[b] /\ ref'[b] = ref[b] /\ plan'[b] = plan[b]
    /\ b \in Workers => claim'[b] = claim[b]

TablesKept(b) ==
    /\ \A w \in DOMAIN wallets : walletLock[w] = b => /\ walletLock'[w] = b
                                                      /\ wallets'[w] = wallets[w]
    /\ b \in Sessions /\ b \in DOMAIN wagers' => b \in DOMAIN wagers

TablesGrow ==
    /\ DOMAIN wallets \subseteq DOMAIN wallets'
    /\ DOMAIN wagers \subseteq DOMAIN wagers'
    /\ \A t \in DOMAIN wagers : wagers'[t].req = wagers[t].req

-----------------------------------------------------------------------------
\* The constant values locals are reset to have the right type.
LEMMA ConstantsTyped ==
    /\ NoAnswer \in Answer
    /\ NoAccount \in [balance : Money, version : Nat]
    /\ NoPlan \in [op : Ops, answer : Answer, refTx : TxIds \cup {NoTx},
                   direction : {"DEBIT", "CREDIT", None}]
  BY MaxMoneyAssumption DEF NoAnswer, Answer, NoAccount, NoPlan, NoTx, Money, Ops

\* A step that keeps an actor's locals and locks keeps what holds of it.
LEMMA OthersKeep ==
    ASSUME NEW b \in Actors, ActorInv(b), LocalsKept(b), TablesKept(b), TablesGrow
    PROVE  ActorInv(b)'
  <1>1. Decided(b)' => PlanInv(b)'
    BY DEF ActorInv, LocalsKept, TablesGrow, PlanInv, Decided, TxOf, Actors
  <1>2. Holding(b)' => LockInv(b)'
    BY DEF ActorInv, LocalsKept, TablesKept, TablesGrow, LockInv, Holding
  <1>3. b \in Workers /\ pc'[b] # "poll" =>
           claim'[b] \in DOMAIN wagers' /\ wagers'[claim'[b]].req = req'[b]
    BY DEF ActorInv, LocalsKept, TablesGrow
  <1>4. /\ pc'[b] \in IF b \in Sessions THEN SessionLabels ELSE WorkerLabels
        /\ pc'[b] \notin {"new", "poll"} => req'[b] \in Request
        /\ b \in Sessions /\ b \in DOMAIN wagers' => pc'[b] = "done"
        /\ seen'[b] # NoAnswer => seen'[b].tx \in DOMAIN wagers'
    BY DEF ActorInv, LocalsKept, TablesKept, TablesGrow
  <1> QED BY <1>1, <1>2, <1>3, <1>4 DEF ActorInv

\* The end of a transaction leaves every other actor alone.
LEMMA ConcludeKeeps ==
    ASSUME TypeOK, NEW a \in Actors, NEW code, NEW answer,
           Conclude(a, code, answer), UNCHANGED req,
           NEW b \in Actors, b # a
    PROVE  /\ LocalsKept(b)
           /\ \A w \in Wallets : walletLock[w] = b => walletLock'[w] = b
  BY DEF TypeOK, Conclude, LocalsKept, ReleaseLocks, ForgetAttempt

\* The actor whose unit of work ends keeps its own part of the invariant.
LEMMA ConcludeOwn ==
    ASSUME TypeOK, NEW a \in Actors, NEW code, NEW answer,
           Conclude(a, code, answer), UNCHANGED req,
           ActorInv(a), InTransaction(a)
    PROVE  ActorInv(a)'
  BY ActorsAssumption
  DEF TypeOK, Conclude, ForgetAttempt, ActorInv, InTransaction, Actors,
      SessionLabels, WorkerLabels, Labels, Decided, Holding

\* Ending an attempt leaves a well-typed actor.
LEMMA ConcludeTyped ==
    ASSUME TypeOK, NEW a \in Actors, NEW code \in Codes, NEW answer \in Answer,
           Conclude(a, code, answer)
    PROVE  /\ pc' \in [Actors -> Labels]
           /\ result' \in [Sessions -> [code : Codes \cup {None}, answer : Answer]]
           /\ claim' \in [Workers -> TxIds \cup {NoTx}]
           /\ tries' \in [Actors -> 1 .. MaxTries]
           /\ walletLock' \in [Wallets -> Actors \cup {None}]
           /\ seen' \in [Actors -> Answer]
           /\ acct' \in [Actors -> [balance : Money, version : Nat]]
           /\ ref' \in [Actors -> TxIds \cup {NoTx}]
           /\ plan' \in [Actors -> [op : Ops, answer : Answer,
                                    refTx : TxIds \cup {NoTx},
                                    direction : {"DEBIT", "CREDIT", None}]]
           /\ late' \in [Workers -> BOOLEAN]
  <1>1. pc' \in [Actors -> Labels]
    BY DEF TypeOK, Conclude, Labels
  <1>2. result' \in [Sessions -> [code : Codes \cup {None}, answer : Answer]]
    BY DEF TypeOK, Conclude
  <1>3. /\ claim' \in [Workers -> TxIds \cup {NoTx}]
        /\ walletLock' \in [Wallets -> Actors \cup {None}]
    BY DEF TypeOK, Conclude, ReleaseLocks
  <1>4. tries' \in [Actors -> 1 .. MaxTries]
    BY BoundsAssumption DEF TypeOK, Conclude
  <1>5. /\ seen' \in [Actors -> Answer]
        /\ acct' \in [Actors -> [balance : Money, version : Nat]]
        /\ ref' \in [Actors -> TxIds \cup {NoTx}]
        /\ plan' \in [Actors -> [op : Ops, answer : Answer,
                                 refTx : TxIds \cup {NoTx},
                                 direction : {"DEBIT", "CREDIT", None}]]
    BY ConstantsTyped DEF TypeOK, Conclude, ForgetAttempt
  <1>6. late' \in [Workers -> BOOLEAN]
    BY DEF TypeOK, Conclude, ForgetAttempt
  <1> QED BY <1>1, <1>2, <1>3, <1>4, <1>5, <1>6

\* A transaction that is rolled back and run again.
LEMMA RestartTyped ==
    ASSUME TypeOK, NEW a \in Actors, Restart(a)
    PROVE  /\ pc' \in [Actors -> Labels]
           /\ walletLock' \in [Wallets -> Actors \cup {None}]
           /\ seen' \in [Actors -> Answer]
           /\ acct' \in [Actors -> [balance : Money, version : Nat]]
           /\ ref' \in [Actors -> TxIds \cup {NoTx}]
           /\ plan' \in [Actors -> [op : Ops, answer : Answer,
                                    refTx : TxIds \cup {NoTx},
                                    direction : {"DEBIT", "CREDIT", None}]]
           /\ late' \in [Workers -> BOOLEAN]
  <1>1. pc' \in [Actors -> Labels]
    BY DEF TypeOK, Restart, Labels, FirstStatement
  <1>2. walletLock' \in [Wallets -> Actors \cup {None}]
    BY DEF TypeOK, Restart, ReleaseLocks
  <1>3. /\ seen' \in [Actors -> Answer]
        /\ acct' \in [Actors -> [balance : Money, version : Nat]]
        /\ ref' \in [Actors -> TxIds \cup {NoTx}]
        /\ plan' \in [Actors -> [op : Ops, answer : Answer,
                                 refTx : TxIds \cup {NoTx},
                                 direction : {"DEBIT", "CREDIT", None}]]
    BY ConstantsTyped DEF TypeOK, Restart, ForgetAttempt
  <1>4. late' \in [Workers -> BOOLEAN]
    BY DEF TypeOK, Restart, ForgetAttempt
  <1> QED BY <1>1, <1>2, <1>3, <1>4

\* The actor that starts its unit of work again keeps its own part of the invariant.
LEMMA RestartOwn ==
    ASSUME TypeOK, NEW a \in Actors, Restart(a), ActorInv(a), InTransaction(a),
           UNCHANGED <<req, claim, wagers>>
    PROVE  ActorInv(a)'
  <1>1. /\ pc'[a] = FirstStatement(a)
        /\ FirstStatement(a) \in IF a \in Sessions THEN SessionLabels ELSE WorkerLabels
        /\ FirstStatement(a) \in {"lock", "claim", "key1"}
    BY ActorsAssumption
    DEF TypeOK, Restart, FirstStatement, SessionLabels, WorkerLabels, Labels, Actors
  <1>2. seen'[a] = NoAnswer
    BY DEF TypeOK, Restart, ForgetAttempt
  <1>3. ~Holding(a)' /\ ~Decided(a)'
    BY <1>1 DEF Holding, Decided
  <1> QED BY <1>1, <1>2, <1>3 DEF ActorInv, InTransaction, NoAnswer, NoTx

\* A restart leaves the locals and the wallet locks of every other actor alone.
LEMMA RestartKeeps ==
    ASSUME TypeOK, NEW a \in Actors, Restart(a), UNCHANGED <<req, claim>>,
           NEW b \in Actors, b # a
    PROVE  /\ LocalsKept(b)
           /\ \A w \in Wallets : walletLock[w] = b => walletLock'[w] = b
  BY DEF TypeOK, Restart, LocalsKept, ReleaseLocks, ForgetAttempt

-----------------------------------------------------------------------------
\* A step of actor a that leaves the locals and the locked wallets of the others
\* alone keeps the invariant if it keeps a's part and the tables' part of it.
LEMMA ActorStep ==
    ASSUME SafetyInv, NEW a \in Actors,
           TypeOK', TablesInv', LedgerContinuity', TablesGrow, ActorInv(a)',
           \A b \in Actors : b # a => LocalsKept(b) /\ TablesKept(b)
    PROVE  SafetyInv'
  <1>1. ASSUME NEW b \in Actors PROVE ActorInv(b)'
    <2>1. CASE b = a BY <2>1
    <2>2. CASE b # a BY <2>2, OthersKeep DEF SafetyInv
    <2> QED BY <2>1, <2>2
  <1> QED BY <1>1 DEF SafetyInv

\* The same for a step that writes no table.
LEMMA LocalStep ==
    ASSUME SafetyInv, NEW a \in Actors, UNCHANGED tables, TypeOK', ActorInv(a)',
           \A b \in Actors : b # a => LocalsKept(b),
           \A b \in Actors, w \in Wallets :
              b # a /\ walletLock[w] = b => walletLock'[w] = b
    PROVE  SafetyInv'
  <1>1. TablesGrow
    BY DEF tables, TablesGrow
  <1>2. \A b \in Actors : b # a => TablesKept(b)
    BY DEF tables, TablesKept, SafetyInv, TypeOK
  <1>3. TablesInv' /\ LedgerContinuity'
    BY DEF SafetyInv, TablesInv, LedgerContinuity, tables
  <1> QED BY <1>1, <1>2, <1>3, ActorStep

\* An error return keeps the invariant.
LEMMA FailKeeps ==
    ASSUME SafetyInv, NEW a \in Actors, NEW code \in Codes, InTransaction(a),
           Conclude(a, code, NoAnswer), UNCHANGED <<tables, req, raced>>,
           faults' \in 0 .. MaxFaults
    PROVE  SafetyInv'
  <1>1. TypeOK /\ ActorInv(a)
    BY DEF SafetyInv
  <1>2. TypeOK'
    BY <1>1, ConcludeTyped, ConstantsTyped DEF TypeOK, tables
  <1>3. ActorInv(a)'
    BY <1>1, ConcludeOwn
  <1>4. \A b \in Actors : b # a =>
           LocalsKept(b) /\ \A w \in Wallets : walletLock[w] = b => walletLock'[w] = b
    BY <1>1, ConcludeKeeps
  <1> QED BY <1>2, <1>3, <1>4, LocalStep

\* The types of the locals a statement may set.
LocalsTyped ==
    /\ walletLock \in [Wallets -> Actors \cup {None}]
    /\ seen \in [Actors -> Answer]
    /\ acct \in [Actors -> [balance : Money, version : Nat]]
    /\ ref \in [Actors -> TxIds \cup {NoTx}]
    /\ plan \in [Actors -> [op : Ops, answer : Answer, refTx : TxIds \cup {NoTx},
                            direction : {"DEBIT", "CREDIT", None}]]
    /\ late \in [Workers -> BOOLEAN]

\* A statement that only reads tables keeps the invariant if it sets well-typed
\* locals of its own actor and keeps that actor's part.
LEMMA GotoKeeps ==
    ASSUME SafetyInv, NEW a \in Actors, NEW label \in Labels, Goto(a, label),
           LocalsTyped', ActorInv(a)',
           \A b \in Actors : b # a =>
              /\ seen'[b] = seen[b] /\ acct'[b] = acct[b]
              /\ ref'[b] = ref[b] /\ plan'[b] = plan[b]
              /\ \A w \in Wallets : walletLock[w] = b => walletLock'[w] = b
    PROVE  SafetyInv'
  <1>1. TypeOK'
    BY DEF SafetyInv, TypeOK, Goto, tables, LocalsTyped
  <1>2. \A b \in Actors : b # a => LocalsKept(b)
    BY DEF SafetyInv, TypeOK, Goto, LocalsKept
  <1>3. UNCHANGED tables
    BY DEF Goto
  <1> QED BY <1>1, <1>2, <1>3, LocalStep

\* What a durable row answers with is a typed answer that names the row.
LEMMA AnswerOfTyped ==
    ASSUME TypeOK, NEW t \in DOMAIN wagers
    PROVE  AnswerOf(t) \in Answer /\ AnswerOf(t).tx = t
  BY DEF TypeOK, AnswerOf, Answer, Row

\* A request or a delivery reaching a session keeps the invariant.
LEMMA ReceiveKeeps ==
    ASSUME SafetyInv, NEW s \in Sessions, NEW r \in Offers[s], Receive(s, r)
    PROVE  SafetyInv'
  <1>0. /\ s \in Actors /\ r \in Request /\ TypeOK /\ ActorInv(s) /\ s \notin Workers
        /\ pc[s] = "new"
    BY InputsAssumption, ActorsAssumption DEF Actors, SafetyInv, Receive
  <1>1. FirstStatement(s) \in {"claim", "key1"}
    BY <1>0 DEF FirstStatement
  <1>2. TypeOK'
    BY <1>0, <1>1 DEF TypeOK, Receive, tables, locals, Labels
  <1>3. \A b \in Actors : b # s => LocalsKept(b)
    BY <1>0 DEF TypeOK, Receive, locals, LocalsKept
  <1>4. pc'[s] = FirstStatement(s) /\ req'[s] = r /\ seen'[s] = seen[s] /\ wagers' = wagers
    BY <1>0 DEF TypeOK, Receive, locals, tables
  <1>5. ~Holding(s)' /\ ~Decided(s)'
    BY <1>1, <1>4 DEF Holding, Decided
  <1>6. ActorInv(s)'
    BY <1>0, <1>1, <1>4, <1>5 DEF ActorInv, SessionLabels, Labels
  <1>7. UNCHANGED <<tables, walletLock>>
    BY DEF Receive
  <1> QED BY <1>0, <1>2, <1>3, <1>6, <1>7, LocalStep

\* Claiming the inbox row of a message keeps the invariant.
LEMMA ClaimMessageKeeps ==
    ASSUME SafetyInv, NEW s \in Sessions, ClaimMessage(s)
    PROVE  SafetyInv'
  <1>0. /\ s \in Actors /\ s \notin Workers /\ pc[s] = "claim" /\ req[s] \in Request
        /\ TypeOK /\ ActorInv(s) /\ TablesInv /\ InTransaction(s)
    BY ActorsAssumption DEF Actors, SafetyInv, ClaimMessage, ActorInv, InTransaction
  <1>1. CASE Goto(s, "key1") /\ UNCHANGED <<walletLock, locals>>
    <2>1. LocalsTyped' BY <1>0, <1>1 DEF TypeOK, LocalsTyped, locals
    <2>2. /\ pc'[s] = "key1" /\ req'[s] = req[s] /\ seen'[s] = seen[s]
          /\ wagers' = wagers
      BY <1>0, <1>1 DEF TypeOK, Goto, locals, tables
    <2>3. ActorInv(s)'
      BY <1>0, <2>2 DEF ActorInv, SessionLabels, Labels, Decided, Holding
    <2> QED BY <1>0, <1>1, <2>1, <2>3, GotoKeeps DEF locals, Labels
  <1>2. CASE Fail(s, "MESSAGE_CONFLICT")
    <2>1. faults' \in 0 .. MaxFaults BY <1>0, <1>2 DEF Fail, TypeOK
    <2> QED BY <1>0, <1>2, <2>1, FailKeeps DEF Fail, Codes
  <1>3. CASE /\ Message[s] \in DOMAIN inbox
             /\ plan' = [plan EXCEPT ![s] =
                   [NoPlan EXCEPT !.op = "duplicate",
                                  !.answer = AnswerOf(inbox[Message[s]].tx)]]
             /\ Goto(s, "commit")
             /\ UNCHANGED <<walletLock, seen, acct, ref, late>>
    <2> DEFINE t == inbox[Message[s]].tx
               p == [NoPlan EXCEPT !.op = "duplicate", !.answer = AnswerOf(t)]
    <2>1. t \in DOMAIN wagers /\ AnswerOf(t) \in Answer /\ AnswerOf(t).tx = t
      BY <1>0, <1>3, AnswerOfTyped DEF TablesInv
    <2>2. /\ p \in [op : Ops, answer : Answer, refTx : TxIds \cup {NoTx},
                    direction : {"DEBIT", "CREDIT", None}]
          /\ p.op = "duplicate" /\ p.answer = AnswerOf(t) /\ p.direction = None
      BY <2>1 DEF NoPlan, Ops, NoTx
    <2>3. LocalsTyped'
      BY <1>0, <1>3, <2>2 DEF TypeOK, LocalsTyped
    <2>4. /\ pc'[s] = "commit" /\ req'[s] = req[s] /\ seen'[s] = seen[s]
          /\ wagers' = wagers /\ plan'[s] = p
      BY <1>0, <1>3 DEF TypeOK, Goto, tables
    <2> HIDE DEF p
    <2>5. PlanInv(s)' /\ ~Holding(s)'
      BY <1>0, <2>1, <2>2, <2>4 DEF PlanInv, Holding
    <2>6. ActorInv(s)'
      BY <1>0, <2>4, <2>5 DEF ActorInv, SessionLabels, Labels
    <2>7. \A b \in Actors : b # s => plan'[b] = plan[b]
      BY <1>0, <1>3 DEF TypeOK
    <2> QED BY <1>0, <1>3, <2>3, <2>6, <2>7, GotoKeeps DEF Labels
  <1> QED BY <1>1, <1>2, <1>3 DEF ClaimMessage

\* The early returns of a session (invalid input, no wallet, wallet of another user) keep the invariant.
LEMMA RejectKeeps ==
    ASSUME SafetyInv, NEW s \in Sessions,
           RejectInput(s) \/ WalletNotFound(s) \/ WalletMismatch(s)
    PROVE  SafetyInv'
  <1>0. s \in Actors /\ TypeOK
    BY DEF Actors, SafetyInv
  <1>1. PICK code \in Codes : InTransaction(s) /\ Fail(s, code)
    BY DEF RejectInput, WalletNotFound, WalletMismatch, Codes, InTransaction
  <1>2. faults' \in 0 .. MaxFaults
    BY <1>0, <1>1 DEF Fail, TypeOK
  <1> QED BY <1>0, <1>1, <1>2, FailKeeps DEF Fail

\* The lookup by idempotency key keeps the invariant.
LEMMA LookupKeyKeeps ==
    ASSUME SafetyInv, NEW s \in Sessions, LookupKey(s)
    PROVE  SafetyInv'
  <1> DEFINE x == IF ByKey(req[s]) = {} THEN NoAnswer
                  ELSE AnswerOf(CHOOSE t \in ByKey(req[s]) : TRUE)
  <1>0. /\ s \in Actors /\ s \notin Workers /\ pc[s] \in {"key1", "key2"}
        /\ TypeOK /\ ActorInv(s) /\ req[s] \in Request
    BY ActorsAssumption DEF Actors, SafetyInv, LookupKey, ActorInv
  <1>1. x \in Answer /\ (x # NoAnswer => x.tx \in DOMAIN wagers)
    <2>1. CASE ByKey(req[s]) = {} BY <2>1, ConstantsTyped
    <2>2. CASE ByKey(req[s]) # {}
      <3>1. (CHOOSE t \in ByKey(req[s]) : TRUE) \in DOMAIN wagers
        BY <2>2 DEF ByKey
      <3> QED BY <1>0, <2>2, <3>1, AnswerOfTyped
    <2> QED BY <2>1, <2>2
  <1>2. seen' = [seen EXCEPT ![s] = x] /\ UNCHANGED <<walletLock, acct, ref, plan, late>>
    BY DEF LookupKey
  <1> HIDE DEF x
  <1>3. LocalsTyped'
    BY <1>0, <1>1, <1>2 DEF TypeOK, LocalsTyped
  <1>4. PICK label \in {"ext1", "ext2"} :
           /\ Goto(s, label)
           /\ label = "ext2" => pc[s] = "key2"
    BY DEF LookupKey
  <1>5. /\ pc'[s] = label /\ req' = req /\ seen'[s] = x /\ wagers' = wagers
        /\ wallets' = wallets /\ acct'[s] = acct[s] /\ walletLock' = walletLock
    BY <1>0, <1>2, <1>4 DEF TypeOK, Goto, tables
  <1>6. Holding(s)' => LockInv(s)'
    BY <1>0, <1>4, <1>5 DEF Holding, LockInv, ActorInv
  <1>7. ActorInv(s)'
    BY <1>0, <1>1, <1>4, <1>5, <1>6 DEF ActorInv, SessionLabels, Labels, Decided
  <1>8. \A b \in Actors : b # s => seen'[b] = seen[b]
    BY <1>0, <1>2 DEF TypeOK
  <1> QED BY <1>0, <1>2, <1>3, <1>4, <1>7, <1>8, GotoKeeps DEF Labels

\* A verdict is one of four codes; a replay answers with a row that was found.
LEMMA VerdictTyped ==
    ASSUME NEW r, NEW k \in Answer, NEW e \in Answer
    PROVE  LET v == EvaluateIdentities(r, k, e)
           IN  /\ v.code \in {"NEW", "REPLAY", "IDEMPOTENCY_CONFLICT", "EXTERNAL_ID_CONFLICT"}
               /\ v.code = "REPLAY" => (v.answer = k /\ k # NoAnswer)
                                       \/ (v.answer = e /\ e # NoAnswer)
               /\ v.code = "NEW" => k = NoAnswer /\ e = NoAnswer
  BY DEF EvaluateIdentities

\* The lookup by external transaction identity keeps the invariant.
LEMMA LookupExternalKeeps ==
    ASSUME SafetyInv, NEW s \in Sessions, LookupExternal(s)
    PROVE  SafetyInv'
  <1> DEFINE found == ByExternal(req[s].provider, req[s].ext)
             x == IF found = {} THEN NoAnswer ELSE AnswerOf(CHOOSE t \in found : TRUE)
             v == EvaluateIdentities(req[s], seen[s], x)
  <1>0. /\ s \in Actors /\ s \notin Workers /\ pc[s] \in {"ext1", "ext2"}
        /\ TypeOK /\ ActorInv(s) /\ req[s] \in Request /\ InTransaction(s)
        /\ seen[s] \in Answer
    BY ActorsAssumption
    DEF Actors, SafetyInv, LookupExternal, ActorInv, InTransaction, TypeOK
  <1>1. x \in Answer /\ (x # NoAnswer => x.tx \in DOMAIN wagers)
    <2>1. CASE found = {} BY <2>1, ConstantsTyped
    <2>2. CASE found # {}
      <3>1. (CHOOSE t \in found : TRUE) \in DOMAIN wagers
        BY <2>2 DEF ByExternal
      <3> QED BY <1>0, <2>2, <3>1, AnswerOfTyped
    <2> QED BY <2>1, <2>2
  <1>2. \/ /\ v.code \in {"IDEMPOTENCY_CONFLICT", "EXTERNAL_ID_CONFLICT"}
           /\ Fail(s, v.code)
        \/ /\ v.code = "REPLAY"
           /\ plan' = [plan EXCEPT ![s] = [NoPlan EXCEPT !.op = "replay",
                                                         !.answer = v.answer]]
           /\ Goto(s, "commit")
           /\ UNCHANGED <<walletLock, seen, acct, ref, late>>
        \/ /\ v.code = "NEW"
           /\ Goto(s, IF pc[s] = "ext1" THEN "lock" ELSE "resolve")
           /\ UNCHANGED <<walletLock, locals>>
    BY DEF LookupExternal
  <1> HIDE DEF x
  <1>3. v.code = "REPLAY" => (v.answer = seen[s] /\ seen[s] # NoAnswer)
                             \/ (v.answer = x /\ x # NoAnswer)
    BY <1>0, <1>1, VerdictTyped
  <1> HIDE DEF v
  <1>4. CASE v.code \in {"IDEMPOTENCY_CONFLICT", "EXTERNAL_ID_CONFLICT"} /\ Fail(s, v.code)
    <2>1. faults' \in 0 .. MaxFaults /\ v.code \in Codes
      BY <1>0, <1>4 DEF Fail, TypeOK, Codes
    <2> QED BY <1>0, <1>4, <2>1, FailKeeps DEF Fail
  <1>5. CASE /\ v.code = "REPLAY"
             /\ plan' = [plan EXCEPT ![s] = [NoPlan EXCEPT !.op = "replay",
                                                           !.answer = v.answer]]
             /\ Goto(s, "commit")
             /\ UNCHANGED <<walletLock, seen, acct, ref, late>>
    <2> DEFINE p == [NoPlan EXCEPT !.op = "replay", !.answer = v.answer]
    <2>1. v.answer \in Answer /\ v.answer.tx \in DOMAIN wagers
      BY <1>0, <1>1, <1>3, <1>5 DEF ActorInv
    <2>2. /\ p \in [op : Ops, answer : Answer, refTx : TxIds \cup {NoTx},
                    direction : {"DEBIT", "CREDIT", None}]
          /\ p.op = "replay" /\ p.answer = v.answer /\ p.direction = None
      BY <2>1 DEF NoPlan, Ops, NoTx
    <2>3. plan' = [plan EXCEPT ![s] = p] /\ UNCHANGED <<walletLock, seen, acct, ref, late>>
      BY <1>5
    <2> HIDE DEF p
    <2>4. LocalsTyped'
      BY <1>0, <2>2, <2>3 DEF TypeOK, LocalsTyped
    <2>5. /\ pc'[s] = "commit" /\ req'[s] = req[s] /\ seen'[s] = seen[s]
          /\ wagers' = wagers /\ plan'[s] = p
      BY <1>0, <1>5, <2>3 DEF TypeOK, Goto, tables
    <2>6. PlanInv(s)' /\ ~Holding(s)'
      BY <1>0, <2>1, <2>2, <2>5 DEF PlanInv, Holding
    <2>7. ActorInv(s)'
      BY <1>0, <2>5, <2>6 DEF ActorInv, SessionLabels, Labels
    <2>8. \A b \in Actors : b # s => plan'[b] = plan[b]
      BY <1>0, <2>3 DEF TypeOK
    <2> QED BY <1>0, <1>5, <2>4, <2>7, <2>8, GotoKeeps DEF Labels
  <1>6. CASE Goto(s, IF pc[s] = "ext1" THEN "lock" ELSE "resolve")
             /\ UNCHANGED <<walletLock, locals>>
    <2> DEFINE label == IF pc[s] = "ext1" THEN "lock" ELSE "resolve"
    <2>1. LocalsTyped' BY <1>0, <1>6 DEF TypeOK, LocalsTyped, locals
    <2>2. /\ pc'[s] = label /\ req' = req /\ seen' = seen /\ wagers' = wagers
          /\ wallets' = wallets /\ acct' = acct /\ walletLock' = walletLock
      BY <1>0, <1>6 DEF TypeOK, Goto, locals, tables
    <2>3. Holding(s)' => LockInv(s)'
      BY <1>0, <2>2 DEF Holding, LockInv, ActorInv
    <2>4. ActorInv(s)'
      BY <1>0, <2>2, <2>3 DEF ActorInv, SessionLabels, Labels, Decided
    <2> QED BY <1>0, <1>6, <2>1, <2>4, GotoKeeps DEF locals, Labels
  <1> QED BY <1>2, <1>4, <1>5, <1>6

\* Locking the wallet row FOR UPDATE keeps the invariant.
LEMMA LockWalletKeeps ==
    ASSUME SafetyInv, NEW a \in Actors, LockWallet(a)
    PROVE  SafetyInv'
  <1> DEFINE w == req[a].wallet
             x == [balance |-> wallets[w].balance, version |-> wallets[w].version]
             label == IF a \in Sessions THEN "key2" ELSE "pending"
  <1>0. /\ TypeOK /\ ActorInv(a) /\ pc[a] = "lock" /\ req[a] \in Request
        /\ w \in DOMAIN wallets /\ w \in Wallets /\ walletLock[w] = None
    BY DEF SafetyInv, LockWallet, ActorInv, TypeOK
  <1>1. /\ walletLock' = [walletLock EXCEPT ![w] = a]
        /\ acct' = [acct EXCEPT ![a] = x]
        /\ Goto(a, label)
        /\ UNCHANGED <<seen, ref, plan, late>>
    BY DEF LockWallet
  <1>2. x \in [balance : Money, version : Nat]
    BY <1>0 DEF TypeOK, Wallet
  <1>3. LocalsTyped'
    BY <1>0, <1>1, <1>2 DEF TypeOK, LocalsTyped
  <1>4. /\ pc'[a] = label /\ req' = req /\ seen' = seen /\ wagers' = wagers
        /\ claim' = claim /\ wallets' = wallets /\ acct'[a] = x /\ walletLock'[w] = a
    BY <1>0, <1>1 DEF TypeOK, Goto, tables
  <1>5. LockInv(a)'
    BY <1>0, <1>4 DEF LockInv
  <1>6. ActorInv(a)'
    BY <1>0, <1>4, <1>5
    DEF ActorInv, SessionLabels, WorkerLabels, Labels, Decided, Actors
  <1>7. \A b \in Actors : b # a =>
           /\ acct'[b] = acct[b]
           /\ \A y \in Wallets : walletLock[y] = b => walletLock'[y] = b
    BY <1>0, <1>1, ActorsAssumption DEF TypeOK, Actors
  <1> QED BY <1>0, <1>1, <1>3, <1>6, <1>7, GotoKeeps DEF Labels

\* Inserting the wager transaction row keeps the invariant.
LEMMA InsertTransactionKeeps ==
    ASSUME SafetyInv, NEW s \in Sessions, InsertTransaction(s)
    PROVE  SafetyInv'
  <1>0. /\ s \in Actors /\ s \notin Workers /\ pc[s] = "write" /\ TypeOK
        /\ ActorInv(s) /\ PlanInv(s) /\ LockInv(s) /\ req[s] \in Request
        /\ Goto(s, "commit") /\ UNCHANGED <<walletLock, locals>>
    BY ActorsAssumption
    DEF Actors, SafetyInv, InsertTransaction, ActorInv, Decided, Holding
  <1>1. LocalsTyped'
    BY <1>0 DEF TypeOK, LocalsTyped, locals
  <1>2. /\ pc'[s] = "commit" /\ req' = req /\ seen' = seen /\ wagers' = wagers
        /\ wallets' = wallets /\ acct' = acct /\ walletLock' = walletLock
        /\ plan' = plan
    BY <1>0 DEF TypeOK, Goto, locals, tables
  <1>3. PlanInv(s)' /\ LockInv(s)'
    BY <1>0, <1>2 DEF PlanInv, LockInv, TxOf
  <1>4. ActorInv(s)'
    BY <1>0, <1>2, <1>3 DEF ActorInv, SessionLabels, Labels
  <1> QED BY <1>0, <1>1, <1>4, GotoKeeps DEF locals, Labels

\* Losing the insert to a unique index, and starting over, keeps the invariant.
LEMMA IdentityRaceKeeps ==
    ASSUME SafetyInv, NEW s \in Sessions, IdentityRace(s)
    PROVE  SafetyInv'
  <1>0. /\ s \in Actors /\ TypeOK /\ ActorInv(s) /\ InTransaction(s)
        /\ UNCHANGED <<tables, req, faults>>
    BY DEF Actors, SafetyInv, IdentityRace, InTransaction
  <1>1. CASE Conclude(s, "IDENTITY_RACE", NoAnswer) /\ UNCHANGED raced
    <2>1. faults' \in 0 .. MaxFaults BY <1>0 DEF TypeOK
    <2> QED BY <1>0, <1>1, <2>1, FailKeeps DEF Codes
  <1>2. CASE /\ Restart(s)
             /\ raced' = [raced EXCEPT ![s] = TRUE]
             /\ tries' = [tries EXCEPT ![s] = 1]
             /\ UNCHANGED <<claim, result>>
    <2>1. raced' \in [Sessions -> BOOLEAN] /\ tries' \in [Actors -> 1 .. MaxTries]
      BY <1>0, <1>2, BoundsAssumption DEF TypeOK
    <2>2. TypeOK'
      BY <1>0, <1>2, <2>1, RestartTyped DEF TypeOK, tables
    <2>3. ActorInv(s)'
      BY <1>0, <1>2, RestartOwn DEF tables
    <2> QED BY <1>0, <1>2, <2>2, <2>3, RestartKeeps, LocalStep
  <1> QED BY <1>1, <1>2 DEF IdentityRace

\* An infrastructure failure that rolls the unit of work back keeps the invariant.
LEMMA AbortKeeps ==
    ASSUME SafetyInv, NEW a \in Actors, Abort(a) \/ RetryAbort(a)
    PROVE  SafetyInv'
  <1>0. /\ TypeOK /\ ActorInv(a) /\ InTransaction(a)
        /\ UNCHANGED <<tables, req, raced>>
    BY DEF SafetyInv, Abort, RetryAbort
  <1>1. faults' \in 0 .. MaxFaults
    BY <1>0, BoundsAssumption DEF TypeOK, Abort, RetryAbort
  <1>2. CASE Abort(a)
    BY <1>0, <1>1, <1>2, FailKeeps DEF Abort, Codes
  <1>3. CASE RetryAbort(a)
    <2>1. tries' \in [Actors -> 1 .. MaxTries]
      BY <1>0, <1>3, BoundsAssumption DEF TypeOK, RetryAbort
    <2>2. TypeOK'
      BY <1>0, <1>1, <1>3, <2>1, RestartTyped DEF TypeOK, tables, RetryAbort
    <2>3. ActorInv(a)'
      BY <1>0, <1>3, RestartOwn DEF tables, RetryAbort
    <2> QED BY <1>0, <1>3, <2>2, <2>3, RestartKeeps, LocalStep DEF RetryAbort
  <1> QED BY <1>2, <1>3

\* A worker locking the pending transaction it claimed keeps the invariant.
LEMMA LockPendingKeeps ==
    ASSUME SafetyInv, NEW r \in Workers, LockPending(r)
    PROVE  SafetyInv'
  <1>0. /\ r \in Actors /\ r \notin Sessions /\ pc[r] = "pending" /\ TypeOK
        /\ ActorInv(r) /\ LockInv(r) /\ req[r] \in Request
        /\ claim[r] \in DOMAIN wagers /\ wagers[claim[r]].req = req[r]
        /\ InTransaction(r)
    BY ActorsAssumption
    DEF Actors, SafetyInv, LockPending, ActorInv, Holding, InTransaction
  <1>1. CASE /\ late' = [late EXCEPT ![r] = wagers[claim[r]].expired]
             /\ Goto(r, "resolve")
             /\ UNCHANGED <<walletLock, seen, acct, ref, plan>>
    <2>1. wagers[claim[r]].expired \in BOOLEAN
      BY <1>0 DEF TypeOK, Row
    <2>2. LocalsTyped'
      BY <1>0, <1>1, <2>1 DEF TypeOK, LocalsTyped
    <2>3. /\ pc'[r] = "resolve" /\ req' = req /\ seen' = seen /\ wagers' = wagers
          /\ wallets' = wallets /\ acct' = acct /\ walletLock' = walletLock
          /\ claim' = claim
      BY <1>0, <1>1 DEF TypeOK, Goto, tables
    <2>4. LockInv(r)'
      BY <1>0, <2>3 DEF LockInv
    <2>5. ActorInv(r)'
      BY <1>0, <2>3, <2>4 DEF ActorInv, WorkerLabels, Decided
    <2> QED BY <1>0, <1>1, <2>2, <2>5, GotoKeeps DEF Labels
  <1>2. CASE Fail(r, "STALE")
    <2>1. faults' \in 0 .. MaxFaults BY <1>0, <1>2 DEF Fail, TypeOK
    <2> QED BY <1>0, <1>2, <2>1, FailKeeps DEF Fail, Codes
  <1> QED BY <1>1, <1>2 DEF LockPending

-----------------------------------------------------------------------------
PlanType == [op : Ops, answer : Answer, refTx : TxIds \cup {NoTx},
             direction : {"DEBIT", "CREDIT", None}]

\* A decision that may be stored by the actor: typed, its own, and one whose
\* movement follows from the balance under the lock.
GoodPlan(a, p) ==
    /\ p \in PlanType
    /\ p.op \in IF a \in Sessions THEN {"insert"} ELSE {"complete", "reschedule"}
    /\ p.answer.status \in Statuses
    /\ p.answer.tx = TxOf(a)
    /\ p.direction # None =>
          p.answer.balance = Moved(p.direction, acct[a].balance, req[a].amount)

\* A movement that is not refused leaves a representable balance.
LEMMA MovedInMoney ==
    ASSUME NEW kind, NEW direction \in {"DEBIT", "CREDIT"},
           NEW balance \in Money, NEW amount \in Money,
           MovementFailure(kind, direction, balance, amount) = None
    PROVE  Moved(direction, balance, amount) \in Money
  BY MaxMoneyAssumption, NoneAssumption DEF MovementFailure, Moved, Money, FailureCodes

\* The transaction an actor works on is one of the identifiers.
LEMMA TxOfTyped ==
    ASSUME TypeOK, NEW a \in Actors, ActorInv(a), pc[a] # "poll"
    PROVE  TxOf(a) \in TxIds
  BY DEF TypeOK, ActorInv, TxOf, TxIds, Actors

\* finish decides well, whatever failure was found before the movement.
LEMMA FinishPlanGood ==
    ASSUME TypeOK, NEW a \in Actors, ActorInv(a), pc[a] \notin {"new", "poll"},
           NEW refTx \in TxIds \cup {NoTx}, NEW failure \in FailureCodes \cup {None}
    PROVE  GoodPlan(a, FinishPlan(a, refTx, failure, acct[a].balance))
  <1> DEFINE r == req[a]
             balance == acct[a].balance
             direction == Direction(r.kind, IF refTx = NoTx THEN None
                                            ELSE wagers[refTx].req.kind)
             code == IF failure # None \/ r.kind = "LOSS" THEN failure
                     ELSE MovementFailure(r.kind, direction, balance, r.amount)
             moved == code = None /\ r.kind # "LOSS"
             p == FinishPlan(a, refTx, failure, acct[a].balance)
  <1>1. /\ r \in Request /\ r.amount \in Money /\ balance \in Money
        /\ TxOf(a) \in TxIds
    BY TxOfTyped DEF ActorInv, TypeOK, Request
  <1>2. direction \in {"DEBIT", "CREDIT"}
    BY DEF Direction
  <1>3. code \in FailureCodes \cup {None}
    BY DEF MovementFailure, FailureCodes
  <1>4. moved => Moved(direction, balance, r.amount) \in Money
    BY <1>1, <1>2, MovedInMoney
  <1>5. p = [op |-> IF a \in Sessions THEN "insert" ELSE "complete",
             answer |-> [tx |-> TxOf(a),
                         status |-> IF code = None THEN "PROCESSED" ELSE "REJECTED",
                         failure |-> code,
                         balance |-> IF moved THEN Moved(direction, balance, r.amount)
                                              ELSE balance],
             refTx |-> refTx,
             direction |-> IF moved THEN direction ELSE None]
    BY DEF FinishPlan
  <1> HIDE DEF p, direction, code
  <1>6. p \in PlanType
    BY <1>1, <1>2, <1>3, <1>4, <1>5
    DEF PlanType, Ops, Answer, Statuses, Terminal
  <1>7. p.direction # None => p.answer.balance = Moved(p.direction, balance, r.amount)
    BY <1>5
  <1>8. p.answer.status \in Statuses /\ p.answer.tx = TxOf(a)
        /\ p.op = IF a \in Sessions THEN "insert" ELSE "complete"
    BY <1>5 DEF Statuses, Terminal
  <1>9. GoodPlan(a, p)
    BY <1>6, <1>7, <1>8 DEF GoodPlan
  <1> QED BY <1>9 DEF p

\* Recording a transaction as pending, or rescheduling it, is a good plan: it moves no money.
LEMMA WaitPlanGood ==
    ASSUME TypeOK, NEW a \in Actors, ActorInv(a), pc[a] \notin {"new", "poll"}
    PROVE  /\ a \in Sessions => GoodPlan(a, PendingPlan(a))
           /\ a \notin Sessions => GoodPlan(a, ReschedulePlan(a))
  <1>1. TxOf(a) \in TxIds
    BY TxOfTyped
  <1>2. NoAnswer \in Answer
    BY ConstantsTyped
  <1>3. \A op \in {"insert", "reschedule"} :
           LET p == [NoPlan EXCEPT !.op = op,
                                   !.answer = [NoAnswer EXCEPT !.tx = TxOf(a),
                                                  !.status = "PENDING_REFERENCE"]]
           IN  /\ p \in PlanType /\ p.op = op /\ p.direction = None
               /\ p.answer.status = "PENDING_REFERENCE" /\ p.answer.tx = TxOf(a)
    BY <1>1, <1>2 DEF PlanType, NoPlan, NoAnswer, Answer, Ops, Statuses, NoTx, Money
  <1> QED BY <1>3 DEF GoodPlan, PendingPlan, ReschedulePlan, Statuses

\* Storing a good decision keeps the invariant.
LEMMA DecideKeeps ==
    ASSUME SafetyInv, NEW a \in Actors, pc[a] \in {"resolve", "reversal"},
           NEW p, GoodPlan(a, p), Decide(a, p),
           UNCHANGED <<walletLock, seen, acct, ref, late>>
    PROVE  SafetyInv'
  <1> DEFINE label == IF a \in Sessions THEN "write" ELSE "commit"
  <1>0. /\ TypeOK /\ ActorInv(a) /\ LockInv(a) /\ req[a] \in Request
        /\ plan' = [plan EXCEPT ![a] = p] /\ Goto(a, label) /\ p \in PlanType
    BY DEF SafetyInv, ActorInv, Holding, Decide, GoodPlan
  <1>1. LocalsTyped'
    BY <1>0 DEF TypeOK, LocalsTyped, PlanType
  <1>2. /\ pc'[a] = label /\ req' = req /\ seen' = seen /\ wagers' = wagers
        /\ wallets' = wallets /\ acct' = acct /\ walletLock' = walletLock
        /\ claim' = claim /\ plan'[a] = p
    BY <1>0 DEF TypeOK, Goto, tables
  <1>3. LockInv(a)'
    BY <1>0, <1>2 DEF LockInv
  <1>4. PlanInv(a)'
    BY <1>0, <1>2, ActorsAssumption DEF PlanInv, GoodPlan, TxOf, Actors
  <1>5. ActorInv(a)'
    BY <1>0, <1>2, <1>3, <1>4, ActorsAssumption
    DEF ActorInv, SessionLabels, WorkerLabels, Labels, Actors
  <1>6. \A b \in Actors : b # a => plan'[b] = plan[b]
    BY <1>0 DEF TypeOK
  <1> QED BY <1>0, <1>1, <1>5, <1>6, GotoKeeps DEF Labels

\* Looking for an earlier reversal of the reference keeps the invariant.
LEMMA CheckReversalKeeps ==
    ASSUME SafetyInv, NEW a \in Actors, CheckReversal(a)
    PROVE  SafetyInv'
  <1>1. TypeOK /\ ActorInv(a) /\ pc[a] = "reversal" /\ ref[a] \in TxIds \cup {NoTx}
    BY DEF SafetyInv, CheckReversal, TypeOK
  <1>2. (IF HasProcessedReversal(ref[a]) THEN "ALREADY_REVERSED" ELSE None)
           \in FailureCodes \cup {None}
    BY DEF FailureCodes
  <1> QED BY <1>1, <1>2, FinishPlanGood, DecideKeeps DEF CheckReversal

\* A reference that is not pending names an existing row, or nothing.
LEMMA ReferenceExists ==
    ASSUME NEW r, ~ReferencePending(r), r.ref # None
    PROVE  Reference(r) \in DOMAIN wagers
  BY DEF ReferencePending, Reference, ByExternal

\* Resolving the reference of a refund or a rollback keeps the invariant.
LEMMA ResolveReferenceKeeps ==
    ASSUME SafetyInv, NEW a \in Actors, ResolveReference(a)
    PROVE  SafetyInv'
  <1> DEFINE r == req[a]
  <1>0. /\ TypeOK /\ ActorInv(a) /\ pc[a] = "resolve" /\ LockInv(a) /\ r \in Request
        /\ UNCHANGED <<walletLock, seen, acct, late>>
    BY DEF SafetyInv, ResolveReference, ActorInv, Holding
  <1>1. NoTx \in TxIds \cup {NoTx} /\ DOMAIN wagers \subseteq TxIds
    BY <1>0 DEF TypeOK
  <1>2. CASE a \in Sessions /\ Decide(a, PendingPlan(a)) /\ UNCHANGED ref
    BY <1>0, <1>2, WaitPlanGood, DecideKeeps
  <1>3. CASE a \in Workers /\ Decide(a, ReschedulePlan(a)) /\ UNCHANGED ref
    BY <1>0, <1>3, WaitPlanGood, DecideKeeps, ActorsAssumption
  <1>4. CASE /\ Decide(a, FinishPlan(a, NoTx, "REFERENCE_NOT_FOUND", acct[a].balance))
             /\ UNCHANGED ref
    <2>1. "REFERENCE_NOT_FOUND" \in FailureCodes \cup {None} BY DEF FailureCodes
    <2> QED BY <1>0, <1>1, <1>4, <2>1, FinishPlanGood, DecideKeeps
  <1>5. CASE /\ Decide(a, FinishPlan(a, NoTx, ResolvedFailure(r), acct[a].balance))
             /\ UNCHANGED ref
    <2>1. ResolvedFailure(r) \in FailureCodes \cup {None}
      BY DEF ResolvedFailure, ReferenceFailure, FailureCodes
    <2> QED BY <1>0, <1>1, <1>5, <2>1, FinishPlanGood, DecideKeeps
  <1>6. CASE /\ ~ReferencePending(r)
             /\ ref' = [ref EXCEPT ![a] = Reference(r)]
             /\ Goto(a, "reversal")
             /\ UNCHANGED plan
    <2>1. Reference(r) \in TxIds \cup {NoTx}
      BY <1>1, <1>6, ReferenceExists DEF Reference
    <2>2. LocalsTyped'
      BY <1>0, <1>1, <1>6, <2>1 DEF TypeOK, LocalsTyped
    <2>3. /\ pc'[a] = "reversal" /\ req' = req /\ seen' = seen /\ wagers' = wagers
          /\ wallets' = wallets /\ acct' = acct /\ walletLock' = walletLock
          /\ claim' = claim
      BY <1>0, <1>6 DEF TypeOK, Goto, tables
    <2>4. LockInv(a)'
      BY <1>0, <2>3 DEF LockInv
    <2>5. ActorInv(a)'
      BY <1>0, <2>3, <2>4, ActorsAssumption
      DEF ActorInv, SessionLabels, WorkerLabels, Labels, Actors, Decided
    <2>6. \A b \in Actors : b # a => ref'[b] = ref[b]
      BY <1>0, <1>6 DEF TypeOK
    <2> QED BY <1>0, <1>6, <2>2, <2>5, <2>6, GotoKeeps DEF Labels
  <1>7. CASE /\ ~ReferencePending(r)
             /\ Decide(a, FinishPlan(a, Reference(r), None, acct[a].balance))
             /\ UNCHANGED ref
    <2>1. Reference(r) \in TxIds \cup {NoTx}
      BY <1>1, <1>7, ReferenceExists DEF Reference
    <2> QED BY <1>0, <1>7, <2>1, FinishPlanGood, DecideKeeps
  <1> QED BY <1>2, <1>3, <1>4, <1>5, <1>6, <1>7 DEF ResolveReference

-----------------------------------------------------------------------------
(* COMMIT                                                                   *)

\* An entry that continues the last one, or the first of a wallet, keeps a
\* ledger an unbroken chain.
Chain(L) ==
    \A i \in DOMAIN L :
        /\ L[i].after = Moved(L[i].direction, L[i].before, L[i].amount)
        /\ L[i].before \in Money /\ L[i].after \in Money
        /\ i = 1 => L[i].before = 0 /\ L[i].version \in {1, 2}
        /\ i > 1 => /\ L[i].before = L[i - 1].after
                    /\ L[i].version = L[i - 1].version + 1

\* Appending an entry that starts at the last balance extends a continuous ledger.
LEMMA ChainAppend ==
    ASSUME NEW L \in Seq(Entry), Chain(L), NEW e \in Entry,
           e.after = Moved(e.direction, e.before, e.amount),
           L = <<>> => e.before = 0 /\ e.version \in {1, 2},
           L # <<>> => /\ e.before = L[Len(L)].after
                       /\ e.version = L[Len(L)].version + 1
    PROVE  LET M == Append(L, e)
           IN  /\ M \in Seq(Entry) /\ Chain(M) /\ M # <<>>
               /\ M[Len(M)] = e
  <1> DEFINE M == Append(L, e)
  <1>1. /\ M \in Seq(Entry) /\ Len(M) = Len(L) + 1 /\ M[Len(L) + 1] = e
        /\ \A i \in 1 .. Len(L) : M[i] = L[i]
        /\ DOMAIN M = 1 .. Len(L) + 1 /\ DOMAIN L = 1 .. Len(L) /\ Len(L) \in Nat
    OBVIOUS
  <1>2. e.before \in Money /\ e.after \in Money
    BY DEF Entry
  <1>3. L = <<>> <=> Len(L) = 0
    OBVIOUS
  <1> HIDE DEF M
  <1>4. ASSUME NEW i \in DOMAIN M
        PROVE  /\ M[i].after = Moved(M[i].direction, M[i].before, M[i].amount)
               /\ M[i].before \in Money /\ M[i].after \in Money
               /\ i = 1 => M[i].before = 0 /\ M[i].version \in {1, 2}
               /\ i > 1 => /\ M[i].before = M[i - 1].after
                           /\ M[i].version = M[i - 1].version + 1
    <2>1. CASE i \in 1 .. Len(L)
      <3>1. i > 1 => i - 1 \in 1 .. Len(L)
        BY <1>1, <2>1
      <3> QED BY <1>1, <2>1, <3>1 DEF Chain
    <2>2. CASE i = Len(L) + 1
      <3>1. i = 1 => L = <<>>
        BY <1>1, <1>3, <2>2
      <3>2. i > 1 => L # <<>> /\ M[i - 1] = L[Len(L)]
        BY <1>1, <1>3, <2>2
      <3> QED BY <1>1, <1>2, <2>2, <3>1, <3>2
    <2> QED BY <1>1, <2>1, <2>2
  <1>5. M # <<>> /\ M[Len(M)] = e /\ Chain(M)
    BY <1>1, <1>4 DEF Chain
  <1> QED BY <1>1, <1>5 DEF M

\* What LedgerContinuity says of one wallet.
Continuous(w) ==
    /\ w \notin DOMAIN wallets => ledger[w] = <<>>
    /\ Chain(ledger[w])
    /\ w \in DOMAIN wallets =>
          IF ledger[w] = <<>> THEN wallets[w].balance = 0 /\ wallets[w].version = 1
          ELSE /\ wallets[w].balance = ledger[w][Len(ledger[w])].after
               /\ wallets[w].version = ledger[w][Len(ledger[w])].version

\* LedgerContinuity, wallet by wallet.
LEMMA ContinuityIs == LedgerContinuity <=> \A w \in Wallets : Continuous(w)
  BY DEF LedgerContinuity, Continuous, Chain

\* The rows a commit leaves are typed and keep their requests.
LEMMA WrittenWagersGood ==
    ASSUME SafetyInv, NEW a \in Actors, pc[a] = "commit"
    PROVE  LET W == WrittenWagers(a)
           IN  /\ DOMAIN wagers \subseteq DOMAIN W
               /\ W \in [DOMAIN W -> Row]
               /\ \A t \in DOMAIN wagers : W[t].req = wagers[t].req
               /\ \A t \in DOMAIN W : t \in DOMAIN wagers \/ (t = a /\ a \in Sessions)
               /\ plan[a].op \in {"insert", "replay", "duplicate"} =>
                     plan[a].answer.tx \in DOMAIN W
  <1> DEFINE W == WrittenWagers(a)
             p == plan[a]
  <1>0. /\ TypeOK /\ ActorInv(a) /\ PlanInv(a) /\ req[a] \in Request
        /\ a \in Workers => claim[a] \in DOMAIN wagers
        /\ a \in Sessions => a \notin DOMAIN wagers /\ a \notin Workers
        /\ a \in Sessions \/ a \in Workers
        /\ p \in PlanType
    BY ActorsAssumption DEF SafetyInv, ActorInv, Decided, Actors, TypeOK, PlanType
  <1>1. CASE p.op = "insert"
    <2>1. a \in Sessions /\ p.answer.tx = a /\ p.answer.status \in Statuses
      BY <1>0, <1>1 DEF PlanInv, TxOf
    <2>2. InsertedRow(a) \in Row
      BY <1>0, <2>1 DEF InsertedRow, Row, PlanType, Answer
    <2>3. InsertedRow(a).req = req[a]
      BY DEF InsertedRow
    <2>4. W = Extend(wagers, a, InsertedRow(a))
      BY <1>1 DEF WrittenWagers
    <2>5. W = [y \in DOMAIN wagers \cup {a} |-> IF y = a THEN InsertedRow(a) ELSE wagers[y]]
      BY <2>4 DEF Extend
    <2> HIDE DEF W
    <2> QED BY <1>0, <2>1, <2>2, <2>5 DEF TypeOK, W
  <1>2. CASE p.op = "complete"
    <2>1. a \in Workers /\ p.answer.status \in Statuses
      BY <1>0, <1>2 DEF PlanInv
    <2>2. wagers[claim[a]] \in Row
      BY <1>0, <2>1 DEF TypeOK
    <2>3. CompletedRow(a) \in Row /\ CompletedRow(a).req = wagers[claim[a]].req
      BY <1>0, <2>1, <2>2 DEF CompletedRow, Row, PlanType, Answer
    <2>4. W = [wagers EXCEPT ![claim[a]] = CompletedRow(a)]
      BY <1>2 DEF WrittenWagers
    <2> HIDE DEF W
    <2>5. /\ DOMAIN W = DOMAIN wagers /\ W \in [DOMAIN W -> Row]
          /\ \A t \in DOMAIN wagers : W[t].req = wagers[t].req
      BY <1>0, <2>1, <2>3, <2>4 DEF TypeOK
    <2> QED BY <1>2, <2>5 DEF W
  <1>3. CASE p.op = "reschedule"
    <2>1. a \in Workers
      BY <1>0, <1>3 DEF PlanInv
    <2>2. wagers[claim[a]] \in Row
      BY <1>0, <2>1 DEF TypeOK
    <2>3. RescheduledRow(a) \in Row /\ RescheduledRow(a).req = wagers[claim[a]].req
      BY <1>0, <2>1, <2>2 DEF RescheduledRow, Row
    <2>4. W = [wagers EXCEPT ![claim[a]] = RescheduledRow(a)]
      BY <1>3 DEF WrittenWagers
    <2> HIDE DEF W
    <2>5. /\ DOMAIN W = DOMAIN wagers /\ W \in [DOMAIN W -> Row]
          /\ \A t \in DOMAIN wagers : W[t].req = wagers[t].req
      BY <1>0, <2>1, <2>3, <2>4 DEF TypeOK
    <2> QED BY <1>3, <2>5 DEF W
  <1>4. CASE p.op \in {"replay", "duplicate", "none"}
    <2>1. W = wagers
      BY <1>4 DEF WrittenWagers
    <2> HIDE DEF W
    <2>2. p.op \in {"replay", "duplicate"} => p.answer.tx \in DOMAIN wagers
      BY <1>0 DEF PlanInv
    <2> QED BY <1>0, <1>4, <2>1, <2>2 DEF TypeOK, W
  <1> QED BY <1>0, <1>1, <1>2, <1>3, <1>4 DEF PlanType, Ops

\* The entry of a movement is typed and continues the wallet it was read from.
LEMMA WrittenEntryGood ==
    ASSUME SafetyInv, NEW a \in Actors, pc[a] = "commit", Moves(plan[a])
    PROVE  LET w == req[a].wallet
               e == WrittenEntry(a)
           IN  /\ w \in DOMAIN wallets /\ w \in Wallets /\ walletLock[w] = a
               /\ e \in Entry
               /\ e.after = Moved(e.direction, e.before, e.amount)
               /\ e.before = wallets[w].balance
               /\ e.version = wallets[w].version + 1
               /\ e.after = plan[a].answer.balance
               /\ e.version = acct[a].version + 1
  <1> DEFINE w == req[a].wallet
             e == WrittenEntry(a)
  <1>0. /\ TypeOK /\ ActorInv(a) /\ PlanInv(a) /\ LockInv(a) /\ req[a] \in Request
        /\ plan[a] \in PlanType /\ plan[a].direction # None
        /\ plan[a].direction \in {"DEBIT", "CREDIT"}
    BY DEF SafetyInv, ActorInv, Decided, Holding, TypeOK, PlanType, Moves, Writes
  <1>1. w \in DOMAIN wallets /\ w \in Wallets /\ walletLock[w] = a
    BY <1>0 DEF LockInv, TypeOK
  <1>2. wallets[w] \in Wallet /\ acct[a] \in [balance : Money, version : Nat]
    BY <1>0, <1>1 DEF TypeOK
  <1>3. TxOf(a) \in TxIds
    BY <1>0, TxOfTyped
  <1>4. /\ req[a].amount \in Money /\ acct[a].balance \in Money
        /\ acct[a].version + 1 \in Nat \ {0} /\ plan[a].answer.balance \in Money
    BY <1>0, <1>2 DEF Request, PlanType, Answer
  <1>5. e \in Entry
    BY <1>0, <1>3, <1>4 DEF WrittenEntry, Entry
  <1>6. /\ e.before = acct[a].balance /\ e.after = plan[a].answer.balance
        /\ e.version = acct[a].version + 1 /\ e.direction = plan[a].direction
        /\ e.amount = req[a].amount
    BY DEF WrittenEntry
  <1>7. e.after = Moved(e.direction, e.before, e.amount)
    BY <1>0, <1>6 DEF PlanInv
  <1> QED BY <1>0, <1>1, <1>5, <1>6, <1>7 DEF LockInv

\* Everything a commit writes keeps the tables' part of the invariant.
LEMMA ApplyWritesGood ==
    ASSUME SafetyInv, NEW a \in Actors, pc[a] = "commit", ApplyWrites(a)
    PROVE  /\ DOMAIN wallets' \subseteq Wallets
           /\ wallets' \in [DOMAIN wallets' -> Wallet]
           /\ DOMAIN wagers' \subseteq TxIds /\ wagers' \in [DOMAIN wagers' -> Row]
           /\ ledger' \in [Wallets -> Seq(Entry)]
           /\ DOMAIN outbox' = TxIds
           /\ DOMAIN inbox' \subseteq Messages
           /\ inbox' \in [DOMAIN inbox' -> [content : Request, tx : TxIds]]
           /\ TablesInv' /\ TablesGrow /\ LedgerContinuity'
           /\ \A w \in DOMAIN wallets : walletLock[w] # a => wallets'[w] = wallets[w]
           /\ \A b \in Sessions : b # a /\ b \in DOMAIN wagers' => b \in DOMAIN wagers
  <1> DEFINE w == req[a].wallet
             e == WrittenEntry(a)
             p == plan[a]
  <1>0. /\ TypeOK /\ ActorInv(a) /\ PlanInv(a) /\ TablesInv /\ LedgerContinuity
        /\ req[a] \in Request
    BY DEF SafetyInv, ActorInv, Decided
  <1>1. wagers' = WrittenWagers(a) /\ inbox' = WrittenInbox(a)
    BY DEF ApplyWrites
  <1>2. /\ DOMAIN wagers \subseteq DOMAIN wagers' /\ wagers' \in [DOMAIN wagers' -> Row]
        /\ \A t \in DOMAIN wagers : wagers'[t].req = wagers[t].req
        /\ \A t \in DOMAIN wagers' : t \in DOMAIN wagers \/ (t = a /\ a \in Sessions)
        /\ p.op \in {"insert", "replay", "duplicate"} => p.answer.tx \in DOMAIN wagers'
    BY <1>1, WrittenWagersGood
  <1>3. DOMAIN wagers' \subseteq TxIds
    BY <1>0, <1>2 DEF TypeOK, TxIds
  <1>4. DOMAIN outbox' = TxIds
    BY <1>0 DEF ApplyWrites, TypeOK
  <1>5. /\ DOMAIN inbox' \subseteq Messages
        /\ inbox' \in [DOMAIN inbox' -> [content : Request, tx : TxIds]]
        /\ \A m \in DOMAIN inbox' : inbox'[m].tx \in DOMAIN wagers'
    <2>1. CASE inbox' = inbox
      BY <1>0, <1>2, <2>1 DEF TypeOK, TablesInv
    <2>2. CASE inbox' # inbox
      <3> DEFINE x == [content |-> req[a], tx |-> p.answer.tx]
      <3>1. /\ a \in Sessions /\ Message[a] # None /\ p.op \in {"insert", "replay"}
            /\ inbox' = Extend(inbox, Message[a], x)
        BY <1>1, <2>2 DEF WrittenInbox
      <3>2. Message[a] \in Messages
        BY <3>1, InputsAssumption
      <3>3. p.answer.tx \in DOMAIN wagers' /\ p.answer.tx \in TxIds
        BY <1>2, <1>3, <3>1
      <3>4. x \in [content : Request, tx : TxIds] /\ x.tx \in DOMAIN wagers'
        BY <1>0, <3>3
      <3> HIDE DEF x
      <3>5. inbox' = [y \in DOMAIN inbox \cup {Message[a]} |->
                         IF y = Message[a] THEN x ELSE inbox[y]]
        BY <3>1 DEF Extend
      <3> QED BY <1>0, <1>2, <3>2, <3>4, <3>5 DEF TypeOK, TablesInv
    <2> QED BY <2>1, <2>2
  <1>6. CASE ~Moves(p)
    <2>1. wallets' = wallets /\ ledger' = ledger
      BY <1>6 DEF ApplyWrites
    <2>2. LedgerContinuity'
      BY <1>0, <2>1 DEF LedgerContinuity
    <2>3. TablesInv'
      BY <1>0, <1>2, <1>5, <2>1 DEF TablesInv
    <2> QED BY <1>0, <1>2, <1>3, <1>4, <1>5, <2>1, <2>2, <2>3 DEF TypeOK, TablesGrow
  <1>7. CASE Moves(p)
    <2>1. /\ w \in DOMAIN wallets /\ w \in Wallets /\ walletLock[w] = a
          /\ e \in Entry /\ e.after = Moved(e.direction, e.before, e.amount)
          /\ e.before = wallets[w].balance /\ e.version = wallets[w].version + 1
          /\ e.after = p.answer.balance /\ e.version = acct[a].version + 1
      BY <1>7, WrittenEntryGood
    <2>2. /\ wallets' = [wallets EXCEPT ![w].balance = p.answer.balance,
                                        ![w].version = acct[a].version + 1]
          /\ ledger' = [ledger EXCEPT ![w] = Append(ledger[w], e)]
      BY <1>7 DEF ApplyWrites
    <2> HIDE DEF e, p
    <2>3. /\ DOMAIN wallets' = DOMAIN wallets
          /\ wallets'[w].balance = e.after /\ wallets'[w].version = e.version
          /\ \A x \in DOMAIN wallets : x # w => wallets'[x] = wallets[x]
          /\ wallets' \in [DOMAIN wallets -> Wallet]
      <3> DEFINE v == [wallets[w] EXCEPT !.balance = e.after, !.version = e.version]
      <3>1. wallets' = [wallets EXCEPT ![w] = v]
        BY <2>1, <2>2
      <3>2. wallets[w] \in Wallet /\ e.after \in Money /\ e.version \in Nat \ {0}
        BY <1>0, <2>1 DEF TypeOK, Entry
      <3>3. v \in Wallet /\ v.balance = e.after /\ v.version = e.version
        BY <3>2 DEF Wallet
      <3> HIDE DEF v
      <3> QED BY <1>0, <2>1, <3>1, <3>3 DEF TypeOK
    <2>4. /\ Continuous(w) /\ ledger[w] \in Seq(Entry)
          /\ \A x \in Wallets : Continuous(x)
      BY <1>0, <2>1, ContinuityIs DEF TypeOK
    <2>5. /\ ledger[w] = <<>> => e.before = 0 /\ e.version \in {1, 2}
          /\ ledger[w] # <<>> => /\ e.before = ledger[w][Len(ledger[w])].after
                                 /\ e.version = ledger[w][Len(ledger[w])].version + 1
      BY <2>1, <2>4 DEF Continuous
    <2>6. LET M == Append(ledger[w], e)
          IN  M \in Seq(Entry) /\ Chain(M) /\ M # <<>> /\ M[Len(M)] = e
      BY <2>1, <2>4, <2>5, ChainAppend DEF Continuous
    <2>7. /\ ledger' \in [Wallets -> Seq(Entry)]
          /\ ledger'[w] = Append(ledger[w], e)
          /\ \A x \in Wallets : x # w => ledger'[x] = ledger[x]
      BY <1>0, <2>1, <2>2, <2>6 DEF TypeOK
    <2>8. ASSUME NEW x \in Wallets PROVE Continuous(x)'
      <3>1. CASE x = w
        <4>1. /\ Chain(ledger'[x]) /\ ledger'[x] # <<>>
              /\ ledger'[x][Len(ledger'[x])] = e /\ x \in DOMAIN wallets'
              /\ wallets'[x].balance = e.after /\ wallets'[x].version = e.version
          BY <2>1, <2>3, <2>6, <2>7, <3>1
        <4> QED BY <4>1 DEF Continuous
      <3>2. CASE x # w
        <4>1. /\ ledger'[x] = ledger[x] /\ (x \in DOMAIN wallets' <=> x \in DOMAIN wallets)
              /\ x \in DOMAIN wallets => wallets'[x] = wallets[x]
          BY <2>3, <2>7, <3>2
        <4>2. Continuous(x)
          BY <2>4
        <4> QED BY <4>1, <4>2 DEF Continuous
      <3> QED BY <3>1, <3>2
    <2>9. LedgerContinuity'
      BY <2>8 DEF LedgerContinuity, Continuous, Chain
    <2>10. TablesInv' /\ TablesGrow
      BY <1>0, <1>2, <1>5, <2>3 DEF TablesInv, TablesGrow
    <2> QED BY <1>0, <1>2, <1>3, <1>4, <1>5, <2>1, <2>3, <2>7, <2>9, <2>10 DEF TypeOK
  <1> QED BY <1>6, <1>7

\* Committing a unit of work (balance, ledger, outbox, status together) keeps the invariant.
LEMMA CommitKeeps ==
    ASSUME SafetyInv, NEW a \in Actors, Commit(a) \/ CommitReplyLost(a)
    PROVE  SafetyInv'
  <1>0. /\ TypeOK /\ ActorInv(a) /\ pc[a] = "commit" /\ ApplyWrites(a)
        /\ InTransaction(a) /\ UNCHANGED <<req, raced>>
        /\ faults' \in 0 .. MaxFaults
    BY BoundsAssumption DEF SafetyInv, Commit, CommitReplyLost, InTransaction, TypeOK
  <1>1. PICK code \in Codes, answer \in Answer : Conclude(a, code, answer)
    BY <1>0, ConstantsTyped DEF Commit, CommitReplyLost, Codes, TypeOK
  <1>2. TypeOK'
    BY <1>0, <1>1, ConcludeTyped, ApplyWritesGood DEF TypeOK
  <1>3. ActorInv(a)'
    BY <1>0, <1>1, ConcludeOwn
  <1>4. \A b \in Actors : b # a =>
           LocalsKept(b) /\ \A w \in Wallets : walletLock[w] = b => walletLock'[w] = b
    BY <1>0, <1>1, ConcludeKeeps
  <1>5. \A b \in Actors : b # a => TablesKept(b)
    BY <1>0, <1>4, ApplyWritesGood DEF TablesKept, TypeOK
  <1> QED BY <1>0, <1>2, <1>3, <1>4, <1>5, ApplyWritesGood, ActorStep

-----------------------------------------------------------------------------
(* THE OTHER WRITERS                                                        *)

\* A step that is no transaction of an actor keeps every actor's part if it
\* keeps the locals and the locked wallets of all of them.
LEMMA EnvironmentStep ==
    ASSUME SafetyInv, TypeOK', TablesInv', LedgerContinuity', TablesGrow,
           \A b \in Actors : LocalsKept(b) /\ TablesKept(b)
    PROVE  SafetyInv'
  BY OthersKeep DEF SafetyInv

\* Opening a wallet with its initial balance keeps the invariant.
LEMMA OpenWalletKeeps ==
    ASSUME SafetyInv, NEW o \in Openings, OpenWallet(o)
    PROVE  SafetyInv'
  <1> DEFINE w == o.wallet
             v == [player |-> o.player, currency |-> o.currency,
                   balance |-> o.balance, version |-> 1]
             e == [tx |-> w, direction |-> "CREDIT", amount |-> o.balance,
                   before |-> 0, after |-> o.balance, version |-> 1]
  <1>0. /\ TypeOK /\ TablesInv /\ LedgerContinuity
        /\ w \in Wallets /\ w \notin DOMAIN wallets /\ w \in TxIds
        /\ o.player \in Players /\ o.currency \in Currencies /\ o.balance \in Money
        /\ w \notin Sessions
    BY InputsAssumption, ActorsAssumption DEF SafetyInv, OpenWallet, TxIds
  <1>1. v \in Wallet /\ e \in Entry /\ OpeningRow(o) \in Row
    BY <1>0, MaxMoneyAssumption
    DEF Wallet, Entry, OpeningRow, Row, Request, Kinds, Statuses, Terminal, Money, NoTx
  <1>2. wallets' = [x \in DOMAIN wallets \cup {w} |-> IF x = w THEN v ELSE wallets[x]]
    BY DEF OpenWallet, Extend
  <1>3. v.balance = o.balance /\ v.version = 1
    OBVIOUS
  <1>4. UNCHANGED <<inbox, walletLock, pc, req, locals, claim, tries, raced, result, faults>>
    BY DEF OpenWallet
  <1>5. w \notin DOMAIN wagers
    BY <1>0 DEF TablesInv
  <1> HIDE DEF v
  <1>6. /\ DOMAIN wagers \subseteq DOMAIN wagers' /\ DOMAIN wagers' \subseteq DOMAIN wagers \cup {w}
        /\ wagers' \in [DOMAIN wagers' -> Row]
        /\ \A t \in DOMAIN wagers : wagers'[t] = wagers[t]
        /\ DOMAIN outbox' = TxIds
    <2>1. CASE wagers' = wagers /\ outbox' = outbox
      BY <1>0, <2>1 DEF TypeOK
    <2>2. CASE /\ wagers' = Extend(wagers, w, OpeningRow(o))
               /\ DOMAIN outbox' = DOMAIN outbox
      <3>1. wagers' = [x \in DOMAIN wagers \cup {w} |->
                          IF x = w THEN OpeningRow(o) ELSE wagers[x]]
        BY <2>2 DEF Extend
      <3> QED BY <1>0, <1>1, <1>5, <2>2, <3>1 DEF TypeOK
    <2> QED BY <2>1, <2>2 DEF OpenWallet
  <1>7. ledger[w] = <<>> /\ Chain(ledger[w]) /\ \A x \in Wallets : Continuous(x)
    BY <1>0, ContinuityIs DEF Continuous
  <1>8. LET M == Append(ledger[w], e)
        IN  o.balance > 0 => M \in Seq(Entry) /\ Chain(M) /\ M # <<>> /\ M[Len(M)] = e
    <2>1. e.after = Moved(e.direction, e.before, e.amount) /\ e.before = 0 /\ e.version = 1
      BY <1>0 DEF Moved, Money
    <2>2. ledger[w] \in Seq(Entry)
      BY <1>0 DEF TypeOK
    <2> QED BY <1>1, <1>7, <2>1, <2>2, ChainAppend
  <1>9. /\ o.balance > 0 => ledger' = [ledger EXCEPT ![w] = Append(ledger[w], e)]
        /\ ~(o.balance > 0) => ledger' = ledger
    BY DEF OpenWallet
  <1>10. e.after = o.balance /\ e.version = 1
    OBVIOUS
  <1> HIDE DEF e
  <1>11. /\ ledger' \in [Wallets -> Seq(Entry)]
         /\ \A x \in Wallets : x # w => ledger'[x] = ledger[x]
         /\ o.balance > 0 => ledger'[w] = Append(ledger[w], e)
         /\ ~(o.balance > 0) => ledger'[w] = <<>>
    <2>1. ledger \in [Wallets -> Seq(Entry)] /\ w \in Wallets /\ ledger[w] = <<>>
      BY <1>0, <1>7 DEF TypeOK
    <2>2. CASE o.balance > 0
      <3>1. Append(ledger[w], e) \in Seq(Entry) BY <1>8, <2>2
      <3>2. ledger' = [ledger EXCEPT ![w] = Append(ledger[w], e)] BY <1>9, <2>2
      <3> QED BY <2>1, <2>2, <3>1, <3>2
    <2>3. CASE ~(o.balance > 0)
      BY <1>9, <2>1, <2>3
    <2> QED BY <2>2, <2>3
  <1>12. ASSUME NEW x \in Wallets PROVE Continuous(x)'
    <2>1. CASE x = w
      <3>1. wallets'[x].balance = o.balance /\ wallets'[x].version = 1 /\ x \in DOMAIN wallets'
        BY <1>2, <1>3, <2>1
      <3>2. CASE o.balance > 0
        BY <1>8, <1>10, <1>11, <2>1, <3>1, <3>2 DEF Continuous
      <3>3. CASE ~(o.balance > 0)
        <4>1. o.balance = 0
          BY <1>0, <3>3, MaxMoneyAssumption DEF Money
        <4>2. ledger'[x] = <<>> /\ Chain(ledger'[x])
          BY <1>7, <1>11, <2>1, <3>3
        <4> QED BY <3>1, <4>1, <4>2 DEF Continuous
      <3> QED BY <3>2, <3>3
    <2>2. CASE x # w
      <3>1. /\ ledger'[x] = ledger[x] /\ (x \in DOMAIN wallets' <=> x \in DOMAIN wallets)
            /\ x \in DOMAIN wallets => wallets'[x] = wallets[x]
        BY <1>2, <1>11, <2>2
      <3>2. Continuous(x)
        BY <1>7
      <3> QED BY <3>1, <3>2 DEF Continuous
    <2> QED BY <2>1, <2>2
  <1>13. LedgerContinuity'
    BY <1>12 DEF LedgerContinuity, Continuous, Chain
  <1>14. TypeOK'
    BY <1>0, <1>1, <1>2, <1>4, <1>6, <1>11 DEF TypeOK, locals
  <1>15. TablesInv' /\ TablesGrow
    BY <1>0, <1>2, <1>4, <1>6 DEF TablesInv, TablesGrow
  <1>16. \A b \in Actors : LocalsKept(b) /\ TablesKept(b)
    BY <1>0, <1>2, <1>4, <1>6 DEF LocalsKept, TablesKept, locals
  <1> QED BY <1>13, <1>14, <1>15, <1>16, EnvironmentStep

\* A change of a row's schedule keeps the tables' part.
LEMMA ScheduleKeeps ==
    ASSUME SafetyInv, NEW t \in DOMAIN wagers, NEW row \in Row,
           row.req = wagers[t].req, wagers' = [wagers EXCEPT ![t] = row],
           UNCHANGED <<wallets, ledger, outbox, inbox, walletLock>>
    PROVE  /\ TablesInv' /\ TablesGrow /\ LedgerContinuity'
           /\ DOMAIN wagers' = DOMAIN wagers /\ wagers' \in [DOMAIN wagers -> Row]
           /\ wagers'[t] = row
           /\ \A b \in Actors : TablesKept(b)
  <1>1. /\ DOMAIN wagers' = DOMAIN wagers /\ wagers' \in [DOMAIN wagers -> Row]
        /\ \A u \in DOMAIN wagers : wagers'[u].req = wagers[u].req
        /\ wagers'[t] = row
    BY DEF SafetyInv, TypeOK
  <1>2. LedgerContinuity'
    BY DEF SafetyInv, LedgerContinuity
  <1>3. TablesInv' /\ TablesGrow
    BY <1>1 DEF SafetyInv, TablesInv, TablesGrow
  <1>4. \A b \in Actors : TablesKept(b)
    BY <1>1 DEF TablesKept
  <1> QED BY <1>1, <1>2, <1>3, <1>4

\* Two rows that differ in their schedule at most.
SameButSchedule(row, old) ==
    /\ row.req = old.req /\ row.status = old.status /\ row.refTx = old.refTx
    /\ row.failure = old.failure /\ row.balance = old.balance

\* A claim and the passing of time change the schedule of one pending row.
LEMMA ClaimRow ==
    ASSUME SafetyInv, NEW r \in Workers, NEW t \in TxIds, Claim(r, t)
    PROVE  /\ t \in DOMAIN wagers /\ DOMAIN wagers' = DOMAIN wagers
           /\ wagers[t].status = "PENDING_REFERENCE"
           /\ SameButSchedule(wagers'[t], wagers[t]) /\ wagers'[t].token = r
           /\ \A u \in DOMAIN wagers : u # t => wagers'[u] = wagers[u]
  <1>1. wagers[t] \in Row /\ t \in DOMAIN wagers /\ TypeOK
    BY DEF SafetyInv, TypeOK, Claim
  <1> DEFINE x == [wagers[t] EXCEPT !.token = r, !.lease = "live", !.due = wagers[t].expired]
  <1>2. SameButSchedule(x, wagers[t]) /\ x.token = r
    BY <1>1 DEF Row, SameButSchedule
  <1>3. wagers' = [wagers EXCEPT ![t] = x]
    BY DEF Claim
  <1> HIDE DEF x
  <1> QED BY <1>1, <1>2, <1>3 DEF TypeOK, Claim

\* The passing of time changes only the schedule of a transaction row.
LEMMA TimeRow ==
    ASSUME SafetyInv, NEW t \in TxIds, TimePasses(t)
    PROVE  /\ t \in DOMAIN wagers /\ DOMAIN wagers' = DOMAIN wagers
           /\ wagers[t].status = "PENDING_REFERENCE"
           /\ SameButSchedule(wagers'[t], wagers[t])
           /\ wagers'[t].token = wagers[t].token
           /\ \A u \in DOMAIN wagers : u # t => wagers'[u] = wagers[u]
  <1>1. /\ wagers[t] \in Row /\ t \in DOMAIN wagers /\ TypeOK
        /\ wagers[t].status = "PENDING_REFERENCE"
    BY DEF SafetyInv, TypeOK, TimePasses, BecomeDue, LeaseExpires, TTLPasses, Scheduled
  <1>2. PICK x : /\ SameButSchedule(x, wagers[t]) /\ x.token = wagers[t].token
                 /\ wagers' = [wagers EXCEPT ![t] = x]
    <2>1. CASE BecomeDue(t)
      <3> DEFINE x == [wagers[t] EXCEPT !.due = TRUE]
      <3>1. SameButSchedule(x, wagers[t]) /\ x.token = wagers[t].token
        BY <1>1 DEF Row, SameButSchedule
      <3>2. wagers' = [wagers EXCEPT ![t] = x] BY <1>1, <2>1 DEF BecomeDue, TypeOK
      <3> QED BY <3>1, <3>2
    <2>2. CASE LeaseExpires(t)
      <3> DEFINE x == [wagers[t] EXCEPT !.lease = "over", !.due = TRUE]
      <3>1. SameButSchedule(x, wagers[t]) /\ x.token = wagers[t].token
        BY <1>1 DEF Row, SameButSchedule
      <3>2. wagers' = [wagers EXCEPT ![t] = x] BY <1>1, <2>2 DEF LeaseExpires, TypeOK
      <3> QED BY <3>1, <3>2
    <2>3. CASE TTLPasses(t)
      <3> DEFINE x == [wagers[t] EXCEPT !.expired = TRUE, !.due = TRUE]
      <3>1. SameButSchedule(x, wagers[t]) /\ x.token = wagers[t].token
        BY <1>1 DEF Row, SameButSchedule
      <3>2. wagers' = [wagers EXCEPT ![t] = x] BY <1>1, <2>3 DEF TTLPasses, TypeOK
      <3> QED BY <3>1, <3>2
    <2> QED BY <2>1, <2>2, <2>3 DEF TimePasses
  <1> QED BY <1>1, <1>2 DEF TypeOK

\* A worker claiming due pending transactions keeps the invariant.
LEMMA ClaimKeeps ==
    ASSUME SafetyInv, NEW r \in Workers, NEW t \in TxIds, Claim(r, t)
    PROVE  SafetyInv'
  <1> DEFINE row == [wagers[t] EXCEPT !.token = r, !.lease = "live",
                                      !.due = wagers[t].expired]
  <1>0. /\ r \in Actors /\ r \notin Sessions /\ TypeOK /\ t \in DOMAIN wagers
        /\ wagers[t] \in Row /\ ActorInv(r)
    BY ActorsAssumption DEF Actors, SafetyInv, Claim, TypeOK
  <1>1. row \in Row /\ row.req = wagers[t].req
    BY <1>0 DEF Row
  <1>2. /\ wagers' = [wagers EXCEPT ![t] = row]
        /\ claim' = [claim EXCEPT ![r] = t]
        /\ req' = [req EXCEPT ![r] = wagers[t].req]
        /\ pc' = [pc EXCEPT ![r] = "lock"]
        /\ UNCHANGED <<wallets, ledger, outbox, inbox, walletLock, locals, tries,
                       raced, result, faults>>
    BY DEF Claim
  <1> HIDE DEF row
  <1>3. /\ TablesInv' /\ TablesGrow /\ LedgerContinuity'
        /\ DOMAIN wagers' = DOMAIN wagers /\ wagers' \in [DOMAIN wagers -> Row]
        /\ wagers'[t] = row
        /\ \A b \in Actors : TablesKept(b)
    BY <1>0, <1>1, <1>2, ScheduleKeeps
  <1>4. wagers[t].req \in Request
    BY <1>0 DEF Row
  <1>5. TypeOK'
    <2>1. /\ claim' \in [Workers -> TxIds \cup {NoTx}]
          /\ req' \in [Actors -> Request \cup {None}]
          /\ pc' \in [Actors -> Labels]
      BY <1>0, <1>2, <1>4 DEF TypeOK, Labels
    <2> QED BY <1>0, <1>2, <1>3, <2>1 DEF TypeOK, locals
  <1>6. \A b \in Actors : b # r => LocalsKept(b)
    BY <1>0, <1>2 DEF LocalsKept, TypeOK, locals
  <1>7. /\ pc'[r] = "lock" /\ req'[r] = wagers[t].req /\ claim'[r] = t
        /\ seen'[r] = seen[r]
    BY <1>0, <1>2 DEF TypeOK, locals
  <1>8. ActorInv(r)'
    BY <1>0, <1>1, <1>3, <1>4, <1>7 DEF ActorInv, WorkerLabels, Decided, Holding
  <1> QED BY <1>0, <1>3, <1>5, <1>6, <1>8, ActorStep

\* The passing of time keeps the invariant.
LEMMA TimePassesKeeps ==
    ASSUME SafetyInv, NEW t \in TxIds, TimePasses(t)
    PROVE  SafetyInv'
  <1>0. /\ TypeOK /\ t \in DOMAIN wagers /\ wagers[t] \in Row
        /\ UNCHANGED <<wallets, ledger, outbox, inbox, walletLock, pc, req, locals,
                       claim, tries, raced, result, faults>>
    BY DEF SafetyInv, TimePasses, BecomeDue, LeaseExpires, TTLPasses, Scheduled, TypeOK
  <1>1. PICK row \in Row : row.req = wagers[t].req /\ wagers' = [wagers EXCEPT ![t] = row]
    <2>1. CASE wagers' = [wagers EXCEPT ![t].due = TRUE]
      <3> DEFINE x == [wagers[t] EXCEPT !.due = TRUE]
      <3>1. x \in Row /\ x.req = wagers[t].req BY <1>0 DEF Row
      <3> QED BY <2>1, <3>1
    <2>2. CASE wagers' = [wagers EXCEPT ![t].lease = "over", ![t].due = TRUE]
      <3> DEFINE x == [wagers[t] EXCEPT !.lease = "over", !.due = TRUE]
      <3>1. x \in Row /\ x.req = wagers[t].req BY <1>0 DEF Row
      <3>2. wagers' = [wagers EXCEPT ![t] = x] BY <1>0, <2>2 DEF TypeOK
      <3> QED BY <3>1, <3>2
    <2>3. CASE wagers' = [wagers EXCEPT ![t].expired = TRUE, ![t].due = TRUE]
      <3> DEFINE x == [wagers[t] EXCEPT !.expired = TRUE, !.due = TRUE]
      <3>1. x \in Row /\ x.req = wagers[t].req BY <1>0 DEF Row
      <3>2. wagers' = [wagers EXCEPT ![t] = x] BY <1>0, <2>3 DEF TypeOK
      <3> QED BY <3>1, <3>2
    <2> QED BY <2>1, <2>2, <2>3 DEF TimePasses, BecomeDue, LeaseExpires, TTLPasses
  <1>2. /\ TablesInv' /\ TablesGrow /\ LedgerContinuity'
        /\ DOMAIN wagers' = DOMAIN wagers /\ wagers' \in [DOMAIN wagers -> Row]
        /\ \A b \in Actors : TablesKept(b)
    BY <1>0, <1>1, ScheduleKeeps
  <1>3. TypeOK'
    BY <1>0, <1>2 DEF TypeOK, locals
  <1>4. \A b \in Actors : LocalsKept(b)
    BY <1>0 DEF LocalsKept, locals
  <1> QED BY <1>2, <1>3, <1>4, EnvironmentStep

-----------------------------------------------------------------------------
\* Empty tables and idle actors satisfy the invariant.
LEMMA InitSafe == Init => SafetyInv
  <1> SUFFICES ASSUME Init PROVE SafetyInv OBVIOUS
  <1>1. TypeOK
    <2>1. /\ pc \in [Actors -> Labels] /\ tries \in [Actors -> 1 .. MaxTries]
          /\ faults \in 0 .. MaxFaults
      BY BoundsAssumption DEF Init, Labels
    <2>2. NoResult \in [code : Codes \cup {None}, answer : Answer]
      BY ConstantsTyped DEF NoResult
    <2>3. /\ DOMAIN wallets = {} /\ DOMAIN wagers = {} /\ DOMAIN inbox = {}
          /\ wallets \in [DOMAIN wallets -> Wallet]
          /\ wagers \in [DOMAIN wagers -> Row]
          /\ inbox \in [DOMAIN inbox -> [content : Request, tx : TxIds]]
      BY DEF Init
    <2>4. ledger \in [Wallets -> Seq(Entry)]
      <3>1. <<>> \in Seq(Entry) OBVIOUS
      <3> QED BY <3>1 DEF Init
    <2> QED BY <2>1, <2>2, <2>3, <2>4, ConstantsTyped DEF Init, TypeOK
  <1>2. TablesInv /\ DOMAIN wallets = {} /\ DOMAIN wagers = {}
    BY DEF Init, TablesInv
  <1>3. ASSUME NEW a \in Actors PROVE ActorInv(a)
    BY <1>2, ActorsAssumption
    DEF Init, ActorInv, SessionLabels, WorkerLabels, Labels, Actors, Decided, Holding
  <1>4. LedgerContinuity
    BY <1>2 DEF LedgerContinuity, Init
  <1> QED BY <1>1, <1>2, <1>3, <1>4 DEF SafetyInv

\* Every step, and every stutter, keeps the invariant.
LEMMA NextSafe == SafetyInv /\ [Next]_vars => SafetyInv'
  <1> SUFFICES ASSUME SafetyInv, [Next]_vars PROVE SafetyInv' OBVIOUS
  <1>1. ASSUME NEW o \in Openings, OpenWallet(o) PROVE SafetyInv'
    BY <1>1, OpenWalletKeeps
  <1>2. ASSUME NEW s \in Sessions, NEW r \in Offers[s], Receive(s, r) PROVE SafetyInv'
    BY <1>2, ReceiveKeeps
  <1>3. ASSUME NEW s \in Sessions, SessionStatement(s) \/ WalletMismatch(s)
        PROVE  SafetyInv'
    BY <1>3, ClaimMessageKeeps, RejectKeeps, LookupKeyKeeps, LookupExternalKeeps,
       InsertTransactionKeeps, IdentityRaceKeeps DEF SessionStatement
  <1>4. ASSUME NEW r \in Workers, NEW t \in TxIds, Claim(r, t) PROVE SafetyInv'
    BY <1>4, ClaimKeeps
  <1>5. ASSUME NEW r \in Workers, LockPending(r) PROVE SafetyInv'
    BY <1>5, LockPendingKeeps
  <1>6. ASSUME NEW a \in Actors, LockWallet(a) \/ LockedStatement(a) PROVE SafetyInv'
    BY <1>6, LockWalletKeeps, ResolveReferenceKeeps, CheckReversalKeeps, CommitKeeps
    DEF LockedStatement
  <1>7. ASSUME NEW a \in Actors, Failure(a) PROVE SafetyInv'
    BY <1>7, AbortKeeps, CommitKeeps DEF Failure
  <1>8. ASSUME NEW t \in TxIds, TimePasses(t) PROVE SafetyInv'
    BY <1>8, TimePassesKeeps
  <1>9. ASSUME UNCHANGED vars PROVE SafetyInv'
    BY <1>9
    DEF vars, tables, locals, SafetyInv, TypeOK, TablesInv, ActorInv, PlanInv, LockInv,
        Decided, Holding, TxOf, LedgerContinuity
  <1> QED BY <1>1, <1>2, <1>3, <1>4, <1>5, <1>6, <1>7, <1>8, <1>9 DEF Next, Quiescent

\* The inductive invariant: a transaction that decides from a wallet's balance
\* holds that wallet's row lock until it commits, so the balance is current.
THEOREM Safety == Spec => []SafetyInv
  BY InitSafe, NextSafe, PTL DEF Spec

\* Every reachable state is well typed: no balance leaves the range of int64, no
\* status, failure code or reference is stored that the domain does not know, at
\* whatever interleaving of submissions, deliveries, workers and failures.
THEOREM TypesHold == Spec => []TypeOK
  <1>1. SafetyInv => TypeOK BY DEF SafetyInv
  <1> QED BY <1>1, Safety, PTL

\* The ledger of every wallet is an unbroken chain from zero to the wallet's
\* current balance and version, for any number of concurrent transactions.
THEOREM LedgerIsContinuous == Spec => []LedgerContinuity
  <1>1. SafetyInv => LedgerContinuity BY DEF SafetyInv
  <1> QED BY <1>1, Safety, PTL

-----------------------------------------------------------------------------
(* IDENTITY: no two wagers share one, for every number of sessions.         *)

\* A step that adds no row and no uncommitted row keeps identities apart.
LEMMA QuietStep ==
    ASSUME IdentityInv, DOMAIN wagers' = DOMAIN wagers,
           \A t \in DOMAIN wagers : wagers'[t].req = wagers[t].req,
           \A s \in Sessions : Validated(s)' => ValidRequest(req'[s]),
           \A s \in Sessions : Inserted(s)' => Inserted(s) /\ req'[s] = req[s]
    PROVE  IdentityInv'
  <1>1. IdentityUnique'
    BY DEF IdentityInv, IdentityUnique, SameIdentity
  <1>2. \A t \in DOMAIN wagers' : IF wagers'[t].req.kind = "OPENING"
                                  THEN wagers'[t].req.provider = None
                                  ELSE ValidRequest(wagers'[t].req)
    BY DEF IdentityInv
  <1>3. ASSUME NEW s \in Sessions, Inserted(s)'
        PROVE  /\ \A t \in DOMAIN wagers' : ~SameIdentity(wagers'[t].req, req'[s])
               /\ \A u \in Sessions \ {s} :
                     Inserted(u)' => ~SameIdentity(req'[u], req'[s])
    BY <1>3 DEF IdentityInv, SameIdentity
  <1> HIDE DEF IdentityInv
  <1> QED BY <1>1, <1>2, <1>3 DEF IdentityInv

\* A step of one actor that does not insert.
LEMMA QuietActor ==
    ASSUME SafetyInv, IdentityInv, NEW a \in Actors,
           DOMAIN wagers' = DOMAIN wagers,
           \A t \in DOMAIN wagers : wagers'[t].req = wagers[t].req,
           \A b \in Actors : b # a =>
              pc'[b] = pc[b] /\ req'[b] = req[b] /\ plan'[b] = plan[b],
           a \in Sessions => ~Inserted(a)',
           a \in Sessions /\ Validated(a)' => ValidRequest(req'[a])
    PROVE  IdentityInv'
  <1>1. ASSUME NEW s \in Sessions
        PROVE  /\ Validated(s)' => ValidRequest(req'[s])
               /\ Inserted(s)' => Inserted(s) /\ req'[s] = req[s]
    <2>1. CASE s = a BY <2>1
    <2>2. CASE s # a
      <3>1. pc'[s] = pc[s] /\ req'[s] = req[s] /\ plan'[s] = plan[s]
        BY <2>2 DEF Actors
      <3>2. (Validated(s)' <=> Validated(s)) /\ (Inserted(s)' <=> Inserted(s))
        BY <3>1 DEF Validated, Inserted
      <3> QED BY <3>1, <3>2 DEF IdentityInv
    <2> QED BY <2>1, <2>2
  <1> QED BY <1>1, QuietStep

\* Ending an attempt inserts no transaction and changes no identity.
LEMMA ConcludeQuiet ==
    ASSUME SafetyInv, IdentityInv, NEW a \in Actors, NEW code, NEW answer,
           Conclude(a, code, answer), UNCHANGED req,
           DOMAIN wagers' = DOMAIN wagers,
           \A t \in DOMAIN wagers : wagers'[t].req = wagers[t].req
    PROVE  IdentityInv'
  <1>1. TypeOK BY DEF SafetyInv
  <1>2. a \in Sessions => pc'[a] = "done"
    BY <1>1 DEF TypeOK, Conclude
  <1>3. a \in Sessions => ~Inserted(a)' /\ ~Validated(a)'
    BY <1>2 DEF Inserted, Validated
  <1>4. \A b \in Actors : b # a =>
           pc'[b] = pc[b] /\ req'[b] = req[b] /\ plan'[b] = plan[b]
    BY <1>1, ConcludeKeeps DEF LocalsKept
  <1> QED BY <1>3, <1>4, QuietActor

\* A statement that reads: the request stays, and past the validation it is one
\* that was already validated.
LEMMA GotoQuiet ==
    ASSUME SafetyInv, IdentityInv, NEW a \in Actors, NEW label, Goto(a, label),
           \A b \in Actors : b # a => plan'[b] = plan[b],
           label = "commit" => plan'[a].op # "insert",
           a \in Sessions => Validated(a) \/ label \in {"key1", "commit"}
                             \/ ValidRequest(req[a])
    PROVE  IdentityInv'
  <1>1. TypeOK BY DEF SafetyInv
  <1>2. /\ pc' = [pc EXCEPT ![a] = label] /\ req' = req /\ wagers' = wagers
    BY DEF Goto, tables
  <1>3. pc'[a] = label /\ \A b \in Actors : b # a => pc'[b] = pc[b]
    BY <1>1, <1>2 DEF TypeOK
  <1>4. ~Inserted(a)'
    BY <1>3 DEF Inserted
  <1>5. a \in Sessions /\ Validated(a)' => ValidRequest(req'[a])
    BY <1>2, <1>3, <1>4 DEF Validated, IdentityInv
  <1> QED BY <1>2, <1>3, <1>4, <1>5, QuietActor

\* Every statement of a session before its insertion inserts nothing.
LEMMA SessionQuiet ==
    ASSUME SafetyInv, IdentityInv, NEW s \in Sessions,
           \/ ClaimMessage(s) \/ RejectInput(s) \/ LookupKey(s) \/ LookupExternal(s)
           \/ WalletNotFound(s) \/ WalletMismatch(s)
    PROVE  IdentityInv'
  <1>0. s \in Actors /\ TypeOK
    BY DEF Actors, SafetyInv
  <1>1. ASSUME NEW code, Fail(s, code) PROVE IdentityInv'
    BY <1>0, <1>1, ConcludeQuiet DEF Fail, tables
  <1>2. CASE ClaimMessage(s)
    <2>1. CASE Goto(s, "key1") /\ UNCHANGED <<walletLock, locals>>
      BY <1>0, <2>1, GotoQuiet DEF locals
    <2>2. CASE /\ plan' = [plan EXCEPT ![s] =
                     [NoPlan EXCEPT !.op = "duplicate",
                                    !.answer = AnswerOf(inbox[Message[s]].tx)]]
               /\ Goto(s, "commit")
      <3>1. plan'[s].op = "duplicate" /\ \A b \in Actors : b # s => plan'[b] = plan[b]
        BY <1>0, <2>2 DEF TypeOK, NoPlan
      <3> QED BY <1>0, <2>2, <3>1, GotoQuiet
    <2> QED BY <1>1, <1>2, <2>1, <2>2 DEF ClaimMessage
  <1>3. CASE RejectInput(s) \/ WalletNotFound(s) \/ WalletMismatch(s)
    BY <1>1, <1>3 DEF RejectInput, WalletNotFound, WalletMismatch
  <1>4. CASE LookupKey(s)
    <2>1. plan' = plan BY <1>4 DEF LookupKey
    <2>2. PICK label \in {"ext1", "ext2"} : Goto(s, label)
      BY <1>4 DEF LookupKey
    <2>3. Validated(s) \/ ValidRequest(req[s])
      BY <1>4 DEF LookupKey, Validated
    <2> QED BY <1>0, <2>1, <2>2, <2>3, GotoQuiet
  <1>5. CASE LookupExternal(s)
    <2>0. Validated(s) BY <1>5 DEF LookupExternal, Validated
    <2>1. CASE \E label \in {"lock", "resolve"} : Goto(s, label) /\ UNCHANGED <<walletLock, locals>>
      BY <1>0, <2>0, <2>1, GotoQuiet DEF locals
    <2>2. CASE \E x : /\ plan' = [plan EXCEPT ![s] = [NoPlan EXCEPT !.op = "replay",
                                                                    !.answer = x]]
                      /\ Goto(s, "commit")
      <3>1. plan'[s].op = "replay" /\ \A b \in Actors : b # s => plan'[b] = plan[b]
        BY <1>0, <2>2 DEF TypeOK, NoPlan
      <3> QED BY <1>0, <2>0, <2>2, <3>1, GotoQuiet
    <2>3. CASE \E code : Fail(s, code)
      BY <1>1, <2>3
    <2> QED
      <3> DEFINE found == ByExternal(req[s].provider, req[s].ext)
                 x == IF found = {} THEN NoAnswer ELSE AnswerOf(CHOOSE t \in found : TRUE)
                 v == EvaluateIdentities(req[s], seen[s], x)
      <3>1. \/ Fail(s, v.code)
            \/ /\ plan' = [plan EXCEPT ![s] = [NoPlan EXCEPT !.op = "replay",
                                                            !.answer = v.answer]]
               /\ Goto(s, "commit")
            \/ /\ Goto(s, IF pc[s] = "ext1" THEN "lock" ELSE "resolve")
               /\ UNCHANGED <<walletLock, locals>>
        BY <1>5 DEF LookupExternal
      <3> HIDE DEF v
      <3>2. CASE Fail(s, v.code) BY <2>3, <3>2
      <3>3. CASE /\ plan' = [plan EXCEPT ![s] = [NoPlan EXCEPT !.op = "replay",
                                                              !.answer = v.answer]]
                 /\ Goto(s, "commit")
        BY <2>2, <3>3
      <3>4. CASE /\ Goto(s, IF pc[s] = "ext1" THEN "lock" ELSE "resolve")
                 /\ UNCHANGED <<walletLock, locals>>
        BY <2>1, <3>4
      <3> QED BY <3>1, <3>2, <3>3, <3>4
  <1> QED BY <1>2, <1>3, <1>4, <1>5

\* The statements under the wallet lock decide but insert nothing yet.
LEMMA LockedQuiet ==
    ASSUME SafetyInv, IdentityInv, NEW a \in Actors,
           LockWallet(a) \/ ResolveReference(a) \/ CheckReversal(a)
    PROVE  IdentityInv'
  <1>0. TypeOK BY DEF SafetyInv
  <1>1. a \in Sessions => Validated(a)
    BY DEF LockWallet, ResolveReference, CheckReversal, Validated
  <1>2. ASSUME NEW p, Decide(a, p), a \notin Sessions => p.op # "insert"
        PROVE  IdentityInv'
    <2>1. plan'[a] = p /\ \A b \in Actors : b # a => plan'[b] = plan[b]
      BY <1>0, <1>2 DEF Decide, TypeOK
    <2> QED BY <1>1, <1>2, <2>1, GotoQuiet DEF Decide
  <1>3. ASSUME NEW label \in {"key2", "pending", "reversal"}, Goto(a, label), plan' = plan
        PROVE  IdentityInv'
    BY <1>1, <1>3, GotoQuiet
  <1>4. /\ a \notin Sessions => ReschedulePlan(a).op # "insert"
        /\ \A x, f, y : a \notin Sessions => FinishPlan(a, x, f, y).op # "insert"
    BY DEF ReschedulePlan, FinishPlan, NoPlan
  <1>5. CASE LockWallet(a)
    BY <1>3, <1>5 DEF LockWallet
  <1>6. CASE CheckReversal(a)
    BY <1>2, <1>4, <1>6 DEF CheckReversal
  <1>7. CASE ResolveReference(a)
    <2>1. CASE a \in Sessions /\ Decide(a, PendingPlan(a)) BY <1>2, <2>1
    <2>2. CASE Decide(a, ReschedulePlan(a)) BY <1>2, <1>4, <2>2
    <2>3. CASE \E x, f, y : Decide(a, FinishPlan(a, x, f, y)) BY <1>2, <1>4, <2>3
    <2>4. CASE Goto(a, "reversal") /\ UNCHANGED plan BY <1>3, <2>4
    <2> QED BY <1>7, <2>1, <2>2, <2>3, <2>4 DEF ResolveReference
  <1> QED BY <1>5, <1>6, <1>7

\* The reads and locks of a worker insert no transaction.
LEMMA WorkerQuiet ==
    ASSUME SafetyInv, IdentityInv, NEW r \in Workers,
           LockPending(r) \/ \E t \in TxIds : Claim(r, t)
    PROVE  IdentityInv'
  <1>0. TypeOK /\ r \in Actors /\ r \notin Sessions
    BY ActorsAssumption DEF SafetyInv, Actors
  <1>1. CASE LockPending(r)
    <2>1. CASE Goto(r, "resolve") /\ UNCHANGED plan
      BY <1>0, <2>1, GotoQuiet
    <2>2. CASE Fail(r, "STALE")
      BY <1>0, <2>2, ConcludeQuiet DEF Fail, tables
    <2> QED BY <1>1, <2>1, <2>2 DEF LockPending
  <1>2. CASE \E t \in TxIds : Claim(r, t)
    <2>1. PICK t \in TxIds : Claim(r, t) BY <1>2
    <2>2. /\ DOMAIN wagers' = DOMAIN wagers
          /\ \A u \in DOMAIN wagers : wagers'[u].req = wagers[u].req
      BY <2>1, ClaimRow DEF SameButSchedule
    <2>3. \A b \in Actors : b # r =>
             pc'[b] = pc[b] /\ req'[b] = req[b] /\ plan'[b] = plan[b]
      BY <1>0, <2>1 DEF Claim, TypeOK, locals
    <2> QED BY <1>0, <2>2, <2>3, QuietActor
  <1> QED BY <1>1, <1>2

\* The passing of time inserts no transaction.
LEMMA TimeQuiet ==
    ASSUME SafetyInv, IdentityInv, NEW t \in TxIds, TimePasses(t)
    PROVE  IdentityInv'
  <1>0. TypeOK /\ t \in DOMAIN wagers /\ pc' = pc /\ req' = req /\ plan' = plan
    BY DEF SafetyInv, TimePasses, BecomeDue, LeaseExpires, TTLPasses, Scheduled, locals
  <1>1. /\ DOMAIN wagers' = DOMAIN wagers
        /\ \A u \in DOMAIN wagers : wagers'[u].req = wagers[u].req
    BY TimeRow DEF SameButSchedule
  <1>2. \A s \in Sessions : /\ Validated(s)' <=> Validated(s)
                            /\ Inserted(s)' <=> Inserted(s)
    BY <1>0 DEF Validated, Inserted
  <1> QED BY <1>0, <1>1, <1>2, QuietStep DEF IdentityInv

\* Receiving a request inserts no transaction.
LEMMA ReceiveQuiet ==
    ASSUME SafetyInv, IdentityInv, NEW s \in Sessions, NEW r \in Offers[s], Receive(s, r)
    PROVE  IdentityInv'
  <1>0. TypeOK /\ s \in Actors /\ wagers' = wagers /\ s \notin Workers
    BY ActorsAssumption DEF SafetyInv, Actors, Receive, tables
  <1>1. pc'[s] \in {"claim", "key1"}
    BY <1>0 DEF Receive, FirstStatement, TypeOK
  <1>2. ~Inserted(s)' /\ ~Validated(s)'
    BY <1>1 DEF Inserted, Validated
  <1>3. \A b \in Actors : b # s =>
           pc'[b] = pc[b] /\ req'[b] = req[b] /\ plan'[b] = plan[b]
    BY <1>0 DEF Receive, locals, TypeOK
  <1> QED BY <1>0, <1>2, <1>3, QuietActor

\* A transaction that starts again has neither validated nor inserted anything.
LEMMA RestartQuiet ==
    ASSUME SafetyInv, IdentityInv, NEW a \in Actors, Restart(a),
           UNCHANGED <<tables, req, claim>>
    PROVE  IdentityInv'
  <1>0. TypeOK BY DEF SafetyInv
  <1>1. a \in Sessions => pc'[a] \in {"claim", "key1"}
    BY <1>0, ActorsAssumption DEF Restart, FirstStatement, TypeOK
  <1>2. a \in Sessions => ~Inserted(a)' /\ ~Validated(a)'
    BY <1>1 DEF Inserted, Validated
  <1>3. \A b \in Actors : b # a =>
           pc'[b] = pc[b] /\ req'[b] = req[b] /\ plan'[b] = plan[b]
    BY <1>0, RestartKeeps DEF LocalsKept
  <1> QED BY <1>2, <1>3, QuietActor DEF tables

\* A rolled-back unit of work inserts no transaction.
LEMMA FailureQuiet ==
    ASSUME SafetyInv, IdentityInv, NEW a \in Actors, Abort(a) \/ RetryAbort(a)
    PROVE  IdentityInv'
  <1>1. CASE Abort(a) BY <1>1, ConcludeQuiet DEF Abort, tables
  <1>2. CASE RetryAbort(a) BY <1>2, RestartQuiet DEF RetryAbort
  <1> QED BY <1>1, <1>2

\* The attempt that loses the race on a unique index inserts no transaction.
LEMMA IdentityRaceQuiet ==
    ASSUME SafetyInv, IdentityInv, NEW s \in Sessions, IdentityRace(s)
    PROVE  IdentityInv'
  <1>0. s \in Actors /\ UNCHANGED <<tables, req>> BY DEF Actors, IdentityRace
  <1>1. CASE Conclude(s, "IDENTITY_RACE", NoAnswer)
    BY <1>0, <1>1, ConcludeQuiet DEF tables
  <1>2. CASE Restart(s) /\ UNCHANGED claim
    BY <1>0, <1>2, RestartQuiet
  <1> QED BY <1>1, <1>2 DEF IdentityRace

\* Sharing an identity is symmetric.
LEMMA SameIdentitySymmetric ==
    ASSUME NEW r, NEW q PROVE SameIdentity(r, q) <=> SameIdentity(q, r)
  BY DEF SameIdentity

\* The unique indexes refuse an identity that is committed or about to be.
LEMMA InsertIdentity ==
    ASSUME SafetyInv, IdentityInv, NEW s \in Sessions, InsertTransaction(s)
    PROVE  IdentityInv'
  <1>0. TypeOK /\ s \in Actors /\ pc[s] = "write"
    BY DEF SafetyInv, Actors, InsertTransaction
  <1>1. /\ wagers' = wagers /\ req' = req /\ plan' = plan
        /\ \A u \in Sessions : u # s => pc'[u] = pc[u]
    BY <1>0 DEF InsertTransaction, Goto, tables, locals, TypeOK, Actors
  <1>2. \A u \in Sessions : Inserted(u)' => u = s \/ Inserted(u)
    BY <1>1 DEF Inserted
  <1>3. Validated(s) BY <1>0 DEF Validated
  <1>4. \A u \in Sessions : Validated(u)' => u = s \/ Validated(u)
    BY <1>1 DEF Validated, Inserted
  <1>5. \A u \in Sessions : Validated(u)' => ValidRequest(req'[u])
    BY <1>1, <1>3, <1>4 DEF IdentityInv
  <1>6. ASSUME NEW u \in Sessions, Inserted(u)',
               NEW t \in DOMAIN wagers, SameIdentity(wagers[t].req, req[u])
        PROVE  FALSE
    BY <1>2, <1>6 DEF IdentityInv, InsertTransaction
  <1>7. ASSUME NEW u \in Sessions, NEW v \in Sessions, u # v,
               Inserted(u)', Inserted(v)', SameIdentity(req[v], req[u])
        PROVE  FALSE
    <2>1. CASE u = s
      BY <1>2, <1>7, <2>1 DEF InsertTransaction
    <2>2. CASE v = s
      BY <1>2, <1>7, <2>2, SameIdentitySymmetric DEF InsertTransaction
    <2>3. CASE u # s /\ v # s
      BY <1>2, <1>7, <2>3 DEF IdentityInv
    <2> QED BY <2>1, <2>2, <2>3
  <1>8. IdentityUnique'
    BY <1>1 DEF IdentityInv, IdentityUnique, SameIdentity
  <1>9. \A t \in DOMAIN wagers' : IF wagers'[t].req.kind = "OPENING"
                                  THEN wagers'[t].req.provider = None
                                  ELSE ValidRequest(wagers'[t].req)
    BY <1>1 DEF IdentityInv
  <1> HIDE DEF IdentityInv
  <1>10. \A u \in Sessions : Inserted(u)' =>
            /\ \A t \in DOMAIN wagers' : ~SameIdentity(wagers'[t].req, req'[u])
            /\ \A v \in Sessions \ {u} : Inserted(v)' => ~SameIdentity(req'[v], req'[u])
    BY <1>1, <1>6, <1>7
  <1> QED BY <1>5, <1>8, <1>9, <1>10 DEF IdentityInv

\* A new row that no row and no uncommitted row shares an identity with.
LEMMA NewRowIdentity ==
    ASSUME IdentityInv, NEW t0, t0 \notin DOMAIN wagers,
           DOMAIN wagers' = DOMAIN wagers \cup {t0},
           \A t \in DOMAIN wagers : wagers'[t].req = wagers[t].req,
           IF wagers'[t0].req.kind = "OPENING" THEN wagers'[t0].req.provider = None
                                               ELSE ValidRequest(wagers'[t0].req),
           \A t \in DOMAIN wagers : wagers[t].req.kind # "OPENING" =>
              ~SameIdentity(wagers[t].req, wagers'[t0].req),
           wagers'[t0].req.kind # "OPENING" =>
              \A t \in DOMAIN wagers : ~SameIdentity(wagers[t].req, wagers'[t0].req),
           \A s \in Sessions : Validated(s)' => ValidRequest(req'[s]),
           \A s \in Sessions : Inserted(s)' =>
              /\ Inserted(s) /\ req'[s] = req[s]
              /\ ~SameIdentity(wagers'[t0].req, req[s])
    PROVE  IdentityInv'
  <1>1. IdentityUnique'
    <2> SUFFICES ASSUME NEW t \in DOMAIN wagers', NEW u \in DOMAIN wagers',
                        wagers'[t].req.kind # "OPENING",
                        SameIdentity(wagers'[t].req, wagers'[u].req)
                 PROVE  t = u
      BY DEF IdentityUnique, SameIdentity
    <2>1. CASE t # t0 /\ u # t0 BY <2>1 DEF IdentityInv, IdentityUnique
    <2>2. CASE t = t0 /\ u # t0 BY <2>2, SameIdentitySymmetric
    <2>3. CASE t # t0 /\ u = t0 BY <2>3
    <2> QED BY <2>1, <2>2, <2>3
  <1>2. \A t \in DOMAIN wagers' : IF wagers'[t].req.kind = "OPENING"
                                  THEN wagers'[t].req.provider = None
                                  ELSE ValidRequest(wagers'[t].req)
    BY DEF IdentityInv
  <1>3. \A s \in Sessions : Inserted(s)' =>
            /\ \A t \in DOMAIN wagers' : ~SameIdentity(wagers'[t].req, req'[s])
            /\ \A u \in Sessions \ {s} : Inserted(u)' => ~SameIdentity(req'[u], req'[s])
    BY DEF IdentityInv
  <1> HIDE DEF IdentityInv
  <1> QED BY <1>1, <1>2, <1>3 DEF IdentityInv

\* Opening a wallet keeps the identities unique.
LEMMA OpenWalletIdentity ==
    ASSUME SafetyInv, IdentityInv, NEW o \in Openings, OpenWallet(o)
    PROVE  IdentityInv'
  <1>0. /\ TypeOK /\ TablesInv /\ pc' = pc /\ req' = req /\ plan' = plan
        /\ o.wallet \in Wallets /\ o.wallet \notin DOMAIN wallets
    BY InputsAssumption DEF SafetyInv, OpenWallet, locals
  <1>1. o.wallet \notin DOMAIN wagers
    BY <1>0, ActorsAssumption DEF TablesInv
  <1>2. \A s \in Sessions : /\ Validated(s)' <=> Validated(s)
                            /\ Inserted(s)' <=> Inserted(s)
    BY <1>0 DEF Validated, Inserted
  <1>3. CASE wagers' = wagers
    BY <1>0, <1>2, <1>3, QuietStep DEF IdentityInv
  <1>4. CASE wagers' = Extend(wagers, o.wallet, OpeningRow(o))
    <2>1. /\ DOMAIN wagers' = DOMAIN wagers \cup {o.wallet}
          /\ \A t \in DOMAIN wagers : wagers'[t] = wagers[t]
          /\ wagers'[o.wallet] = OpeningRow(o)
      BY <1>1, <1>4 DEF Extend
    <2>2. OpeningRow(o).req.kind = "OPENING" /\ OpeningRow(o).req.provider = None
      BY DEF OpeningRow
    <2>3. \A s \in Sessions : Inserted(s) => req[s].provider # None
      BY DEF IdentityInv, Validated, ValidRequest
    <2>4. \A t \in DOMAIN wagers :
             wagers[t].req.kind # "OPENING" => wagers[t].req.provider # None
      BY DEF IdentityInv, ValidRequest
    <2>5. \A s \in Sessions : Validated(s)' => ValidRequest(req'[s])
      BY <1>0, <1>2 DEF IdentityInv
    <2>6. \A s \in Sessions : Inserted(s)' =>
             Inserted(s) /\ ~SameIdentity(wagers'[o.wallet].req, req[s])
      BY <1>2, <2>1, <2>2, <2>3 DEF SameIdentity
    <2>7. \A t \in DOMAIN wagers : wagers[t].req.kind # "OPENING" =>
             ~SameIdentity(wagers[t].req, wagers'[o.wallet].req)
      BY <2>1, <2>2, <2>4 DEF SameIdentity
    <2> HIDE DEF IdentityInv
    <2> QED BY <1>0, <1>1, <2>1, <2>2, <2>5, <2>6, <2>7, NewRowIdentity
  <1> QED BY <1>3, <1>4 DEF OpenWallet

\* A commit keeps the identities unique.
LEMMA CommitIdentity ==
    ASSUME SafetyInv, IdentityInv, NEW a \in Actors, Commit(a) \/ CommitReplyLost(a)
    PROVE  IdentityInv'
  <1>0. /\ TypeOK /\ ActorInv(a) /\ PlanInv(a) /\ pc[a] = "commit" /\ req' = req
        /\ wagers' = WrittenWagers(a)
        /\ plan[a].op = "insert" => a \in Sessions /\ a \notin DOMAIN wagers
    BY ActorsAssumption
    DEF SafetyInv, ActorInv, Decided, PlanInv, Commit, CommitReplyLost, ApplyWrites, Actors
  <1>1. PICK code, answer : Conclude(a, code, answer)
    BY DEF Commit, CommitReplyLost
  <1>2. CASE plan[a].op # "insert"
    <2>1. /\ DOMAIN wagers \subseteq DOMAIN wagers'
          /\ \A t \in DOMAIN wagers : wagers'[t].req = wagers[t].req
      BY <1>0, WrittenWagersGood
    <2>2. DOMAIN wagers' = DOMAIN wagers
      BY <1>0, <1>2 DEF WrittenWagers
    <2> QED BY <1>0, <1>1, <2>1, <2>2, ConcludeQuiet
  <1>3. CASE plan[a].op = "insert"
    <2>1. wagers' = Extend(wagers, a, InsertedRow(a))
      BY <1>0, <1>3 DEF WrittenWagers
    <2>2. /\ DOMAIN wagers' = DOMAIN wagers \cup {a}
          /\ \A t \in DOMAIN wagers : wagers'[t] = wagers[t]
          /\ wagers'[a].req = req[a]
      BY <1>0, <1>3, <2>1 DEF InsertedRow, Extend
    <2>3. a \in Sessions /\ Inserted(a) /\ Validated(a) /\ ValidRequest(req[a])
      BY <1>0, <1>3 DEF Inserted, Validated, IdentityInv
    <2>4. pc'[a] = "done"
      BY <1>0, <1>1, <2>3 DEF Conclude, TypeOK
    <2>5. \A s \in Sessions : s # a => pc'[s] = pc[s] /\ plan'[s] = plan[s]
      BY <1>0, <1>1, ConcludeKeeps DEF LocalsKept, Actors
    <2>6. \A s \in Sessions : (Inserted(s)' => Inserted(s) /\ s # a)
                              /\ (Validated(s)' => Validated(s))
      BY <2>4, <2>5 DEF Inserted, Validated
    <2>7. \A t \in DOMAIN wagers : ~SameIdentity(wagers[t].req, wagers'[a].req)
      BY <2>2, <2>3 DEF IdentityInv
    <2>8. \A s \in Sessions : Validated(s)' => ValidRequest(req'[s])
      BY <1>0, <2>6 DEF IdentityInv
    <2>9. \A s \in Sessions : Inserted(s)' => Inserted(s) /\ ~SameIdentity(wagers'[a].req, req[s])
      BY <2>2, <2>3, <2>6 DEF IdentityInv
    <2>10. wagers'[a].req.kind # "OPENING" /\ ValidRequest(wagers'[a].req)
      BY <2>2, <2>3 DEF ValidRequest, ExternalKinds
    <2> HIDE DEF IdentityInv
    <2> QED BY <1>0, <1>3, <2>2, <2>7, <2>8, <2>9, <2>10, NewRowIdentity
  <1> QED BY <1>2, <1>3

\* Every step, and every stutter, keeps the identities unique.
LEMMA NextIdentity == SafetyInv /\ IdentityInv /\ [Next]_vars => IdentityInv'
  <1> SUFFICES ASSUME SafetyInv, IdentityInv, [Next]_vars PROVE IdentityInv' OBVIOUS
  <1>1. ASSUME NEW o \in Openings, OpenWallet(o) PROVE IdentityInv'
    BY <1>1, OpenWalletIdentity
  <1>2. ASSUME NEW s \in Sessions, NEW r \in Offers[s], Receive(s, r) PROVE IdentityInv'
    BY <1>2, ReceiveQuiet
  <1>3. ASSUME NEW s \in Sessions, SessionStatement(s) \/ WalletMismatch(s)
        PROVE  IdentityInv'
    BY <1>3, SessionQuiet, InsertIdentity, IdentityRaceQuiet DEF SessionStatement
  <1>4. ASSUME NEW r \in Workers, LockPending(r) \/ \E t \in TxIds : Claim(r, t)
        PROVE  IdentityInv'
    BY <1>4, WorkerQuiet
  <1>5. ASSUME NEW a \in Actors, LockWallet(a) \/ LockedStatement(a) PROVE IdentityInv'
    BY <1>5, LockedQuiet, CommitIdentity DEF LockedStatement
  <1>6. ASSUME NEW a \in Actors, Failure(a) PROVE IdentityInv'
    BY <1>6, FailureQuiet, CommitIdentity DEF Failure
  <1>7. ASSUME NEW t \in TxIds, TimePasses(t) PROVE IdentityInv'
    BY <1>7, TimeQuiet
  <1>8. ASSUME UNCHANGED vars PROVE IdentityInv'
    BY <1>8 DEF vars, tables, locals, IdentityInv, IdentityUnique, SameIdentity,
                Validated, Inserted
  <1> QED BY <1>1, <1>2, <1>3, <1>4, <1>5, <1>6, <1>7, <1>8 DEF Next, Quiescent

\* Nobody has submitted anything before the first step.
LEMMA InitIdentity == Init => IdentityInv
  <1> SUFFICES ASSUME Init PROVE IdentityInv OBVIOUS
  <1>1. DOMAIN wagers = {} /\ \A s \in Sessions : pc[s] = "new"
    BY DEF Init, Actors
  <1>2. \A s \in Sessions : ~Validated(s) /\ ~Inserted(s)
    BY <1>1 DEF Validated, Inserted
  <1> QED BY <1>1, <1>2 DEF IdentityInv, IdentityUnique

\* An uncommitted row, like a committed one, shares its identity with no other.
THEOREM Identities == Spec => []IdentityInv
  BY InitIdentity, NextIdentity, Safety, PTL DEF Spec

\* No two durable wagers share (provider, idempotency key) or (provider, external
\* id), for any number of concurrent submissions over any wallets: the unique
\* indexes, and the order of INSERT and COMMIT, suffice without a global lock.
THEOREM IdentitiesAreUnique == Spec => []IdentityUnique
  <1>1. IdentityInv => IdentityUnique
    BY DEF IdentityInv
  <1> QED BY <1>1, Identities, PTL

-----------------------------------------------------------------------------
(* WAITING: no two transactions wait for each other.                        *)

\* A step of one actor, which holds no lock afterwards that it may not hold.
LEMMA HolderStep ==
    ASSUME TypeOK, HolderInv, NEW a \in Actors,
           \A b \in Actors : b # a => pc'[b] = pc[b],
           \A w \in Wallets : walletLock'[w] \in {walletLock[w], None, a},
           \A w \in Wallets : walletLock'[w] = a => pc'[a] \in UnderLock
    PROVE  HolderInv'
  <1> SUFFICES ASSUME NEW w \in Wallets, walletLock'[w] # None
               PROVE  pc'[walletLock'[w]] \in UnderLock
    BY DEF HolderInv
  <1>1. CASE walletLock'[w] = a
    BY <1>1
  <1>2. CASE walletLock'[w] # a
    <2>1. walletLock'[w] = walletLock[w] /\ walletLock[w] \in Actors
      BY <1>2 DEF TypeOK
    <2> QED BY <1>2, <2>1 DEF HolderInv
  <1> QED BY <1>1, <1>2

\* A transaction that has ended, or starts again, holds nothing.
LEMMA ReleaseHolder ==
    ASSUME TypeOK, HolderInv, NEW a \in Actors, ReleaseLocks(a),
           NEW label, pc' = [pc EXCEPT ![a] = label]
    PROVE  HolderInv'
  <1>1. \A b \in Actors : b # a => pc'[b] = pc[b]
    BY DEF TypeOK
  <1>2. a # None
    BY ActorsAssumption DEF Actors
  <1>3. \A w \in Wallets : /\ walletLock'[w] \in {walletLock[w], None, a}
                           /\ walletLock'[w] # a
    BY <1>2 DEF ReleaseLocks
  <1> QED BY <1>1, <1>3, HolderStep

\* A statement that takes no lock keeps the one its transaction has.
LEMMA GotoHolder ==
    ASSUME TypeOK, HolderInv, NEW a \in Actors, NEW label,
           pc' = [pc EXCEPT ![a] = label], UNCHANGED walletLock,
           pc[a] \in UnderLock => label \in UnderLock
    PROVE  HolderInv'
  <1>1. pc'[a] = label /\ \A b \in Actors : b # a => pc'[b] = pc[b]
    BY DEF TypeOK
  <1>2. \A w \in Wallets : walletLock'[w] = a => pc'[a] \in UnderLock
    BY <1>1, ActorsAssumption DEF HolderInv, Actors
  <1> QED BY <1>1, <1>2, HolderStep

\* The statements of a submission.
LEMMA SessionHolder ==
    ASSUME TypeOK, HolderInv, NEW s \in Sessions,
           SessionStatement(s) \/ WalletMismatch(s) \/ \E r \in Offers[s] : Receive(s, r)
    PROVE  HolderInv'
  <1>0. s \in Actors BY DEF Actors
  <1>1. ASSUME NEW code, NEW answer, Conclude(s, code, answer) PROVE HolderInv'
    BY <1>0, <1>1, ReleaseHolder DEF Conclude
  <1>2. CASE \E r \in Offers[s] : Receive(s, r)
    <2>1. pc[s] = "new" /\ UNCHANGED walletLock /\ pc' = [pc EXCEPT ![s] = FirstStatement(s)]
      BY <1>2 DEF Receive
    <2> QED BY <1>0, <2>1, GotoHolder DEF UnderLock
  <1>3. CASE ClaimMessage(s)
    <2>1. CASE Fail(s, "MESSAGE_CONFLICT") BY <1>1, <2>1 DEF Fail
    <2>2. CASE Goto(s, "key1") /\ UNCHANGED walletLock
      BY <1>0, <1>3, <2>2, GotoHolder DEF ClaimMessage, Goto, UnderLock
    <2>3. CASE Goto(s, "commit") /\ UNCHANGED walletLock
      BY <1>0, <1>3, <2>3, GotoHolder DEF ClaimMessage, Goto, UnderLock
    <2> QED BY <1>3, <2>1, <2>2, <2>3 DEF ClaimMessage
  <1>4. CASE RejectInput(s) \/ WalletNotFound(s) \/ WalletMismatch(s)
    BY <1>1, <1>4 DEF RejectInput, WalletNotFound, WalletMismatch, Fail
  <1>5. CASE LookupKey(s)
    <2>1. UNCHANGED walletLock BY <1>5 DEF LookupKey
    <2>2. CASE pc[s] = "key1" /\ Goto(s, "ext1")
      BY <1>0, <2>1, <2>2, GotoHolder DEF Goto, UnderLock
    <2>3. CASE pc[s] = "key2" /\ Goto(s, "ext2")
      BY <1>0, <2>1, <2>3, GotoHolder DEF Goto, UnderLock
    <2> QED BY <1>5, <2>2, <2>3 DEF LookupKey
  <1>6. CASE LookupExternal(s)
    <2>1. CASE \E code : Fail(s, code) BY <1>1, <2>1 DEF Fail
    <2>2. CASE Goto(s, "commit") /\ UNCHANGED walletLock
      BY <1>0, <2>2, GotoHolder DEF Goto, UnderLock
    <2>3. CASE /\ Goto(s, IF pc[s] = "ext1" THEN "lock" ELSE "resolve")
               /\ UNCHANGED walletLock /\ pc[s] \in {"ext1", "ext2"}
      <3>1. CASE pc[s] = "ext1"
        BY <1>0, <2>3, <3>1, GotoHolder DEF Goto, UnderLock
      <3>2. CASE pc[s] # "ext1"
        BY <1>0, <2>3, <3>2, GotoHolder DEF Goto, UnderLock
      <3> QED BY <3>1, <3>2
    <2> QED BY <1>6, <2>1, <2>2, <2>3 DEF LookupExternal
  <1>7. CASE InsertTransaction(s)
    BY <1>0, <1>7, GotoHolder DEF InsertTransaction, Goto, UnderLock
  <1>8. CASE IdentityRace(s)
    <2>1. CASE Restart(s) BY <1>0, <2>1, ReleaseHolder DEF Restart
    <2> QED BY <1>1, <1>8, <2>1 DEF IdentityRace
  <1> QED BY <1>2, <1>3, <1>4, <1>5, <1>6, <1>7, <1>8 DEF SessionStatement

\* The statements under the lock, the one that takes it, and failures.
LEMMA LockedHolder ==
    ASSUME TypeOK, HolderInv, NEW a \in Actors,
           LockWallet(a) \/ LockedStatement(a) \/ Failure(a)
    PROVE  HolderInv'
  <1>1. CASE LockWallet(a)
    <2>1. PICK label \in {"key2", "pending"} : pc' = [pc EXCEPT ![a] = label]
      BY <1>1 DEF LockWallet, Goto
    <2>2. pc'[a] \in UnderLock /\ \A b \in Actors : b # a => pc'[b] = pc[b]
      BY <2>1 DEF TypeOK, UnderLock
    <2>3. PICK v : walletLock' = [walletLock EXCEPT ![v] = a]
      BY <1>1 DEF LockWallet
    <2>4. \A w \in Wallets : walletLock'[w] \in {walletLock[w], None, a}
      BY <2>3 DEF TypeOK
    <2> QED BY <2>2, <2>4, HolderStep
  <1>2. ASSUME NEW p, Decide(a, p), UNCHANGED walletLock PROVE HolderInv'
    <2>1. PICK label \in {"write", "commit"} : pc' = [pc EXCEPT ![a] = label]
      BY <1>2 DEF Decide, Goto
    <2> QED BY <1>2, <2>1, GotoHolder DEF UnderLock
  <1>3. CASE ResolveReference(a)
    <2>1. UNCHANGED walletLock BY <1>3 DEF ResolveReference
    <2>2. CASE Goto(a, "reversal")
      BY <2>1, <2>2, GotoHolder DEF Goto, UnderLock
    <2> QED BY <1>2, <1>3, <2>1, <2>2 DEF ResolveReference
  <1>4. CASE CheckReversal(a)
    BY <1>2, <1>4 DEF CheckReversal
  <1>5. CASE Commit(a) \/ Abort(a) \/ CommitReplyLost(a)
    <2>1. PICK code, answer : Conclude(a, code, answer)
      BY <1>5 DEF Commit, Abort, CommitReplyLost
    <2> QED BY <2>1, ReleaseHolder DEF Conclude
  <1>6. CASE RetryAbort(a)
    BY <1>6, ReleaseHolder DEF RetryAbort, Restart
  <1> QED BY <1>1, <1>3, <1>4, <1>5, <1>6 DEF LockedStatement, Failure

\* Every step, and every stutter, keeps the lock with who may have it.
LEMMA NextHolder == TypeOK /\ HolderInv /\ [Next]_vars => HolderInv'
  <1> SUFFICES ASSUME TypeOK, HolderInv, [Next]_vars PROVE HolderInv' OBVIOUS
  <1>1. ASSUME UNCHANGED <<walletLock, pc>> PROVE HolderInv'
    BY <1>1 DEF HolderInv
  <1>2. ASSUME NEW o \in Openings, OpenWallet(o) PROVE HolderInv'
    BY <1>1, <1>2 DEF OpenWallet
  <1>3. ASSUME NEW t \in TxIds, TimePasses(t) PROVE HolderInv'
    BY <1>1, <1>3 DEF TimePasses, BecomeDue, LeaseExpires, TTLPasses, Scheduled
  <1>4. ASSUME NEW r \in Workers, NEW t \in TxIds, Claim(r, t) PROVE HolderInv'
    BY <1>4, GotoHolder DEF Claim, UnderLock, Actors
  <1>5. ASSUME NEW r \in Workers, LockPending(r) PROVE HolderInv'
    <2>0. r \in Actors BY DEF Actors
    <2>1. CASE Goto(r, "resolve") /\ UNCHANGED walletLock
      BY <2>0, <2>1, GotoHolder DEF Goto, UnderLock
    <2>2. CASE Fail(r, "STALE")
      BY <2>0, <2>2, ReleaseHolder DEF Fail, Conclude
    <2> QED BY <1>5, <2>1, <2>2 DEF LockPending
  <1>6. CASE UNCHANGED vars
    BY <1>1, <1>6 DEF vars
  <1> QED BY <1>2, <1>3, <1>4, <1>5, <1>6, SessionHolder, LockedHolder DEF Next, Quiescent

\* Submit, Consume and the workers take their locks in one order: whatever transactions
\* are open, of any number, one of them waits for no other of them.
THEOREM NobodyWaitsInACircle == Spec => []NoCircularWait
  <1>1. Init => HolderInv
    BY DEF Init, HolderInv
  <1>2. Spec => []HolderInv
    BY <1>1, NextHolder, TypesHold, PTL DEF Spec
  <1>3. ASSUME SafetyInv, HolderInv PROVE NoCircularWait
    <2> SUFFICES ASSUME NEW S \in (SUBSET Actors) \ {{}}
                 PROVE  \E a \in S : \A b \in S : ~WaitsFor(a, b)
      BY DEF NoCircularWait
    <2>0. TypeOK /\ S \subseteq Actors BY <1>3 DEF SafetyInv
    <2>1. CASE \E a \in S : pc[a] \notin {"claim", "lock", "write"}
      BY <2>1 DEF WaitsFor
    <2>2. CASE \A a \in S : pc[a] \in {"claim", "lock", "write"}
      <3>1. CASE \E a \in S : pc[a] = "write"
        <4>1. PICK a \in S : pc[a] = "write" BY <3>1
        <4>2. \A b \in S : ~WaitsFor(a, b)
          BY <2>2, <4>1 DEF WaitsFor, Inserted
        <4> QED BY <4>2
      <3>2. CASE (\E a \in S : pc[a] = "lock") /\ ~\E a \in S : pc[a] = "write"
        <4>1. PICK a \in S : pc[a] = "lock" BY <3>2
        <4>2. req[a].wallet \in Wallets
          BY <1>3, <2>0, <4>1 DEF SafetyInv, ActorInv, Request
        <4>3. ASSUME NEW b \in S, walletLock[req[a].wallet] = b PROVE FALSE
          <5>1. b # None BY <2>0, ActorsAssumption DEF Actors
          <5>2. pc[b] \in UnderLock BY <1>3, <4>2, <4>3, <5>1 DEF HolderInv
          <5> QED BY <2>2, <3>2, <5>2 DEF UnderLock
        <4>4. \A b \in S : ~WaitsFor(a, b)
          BY <4>1, <4>3 DEF WaitsFor
        <4> QED BY <4>4
      <3>3. CASE \A a \in S : pc[a] = "claim"
        BY <3>3 DEF WaitsFor
      <3> QED BY <2>2, <3>1, <3>2, <3>3
    <2> QED BY <2>1, <2>2
  <1> QED BY <1>2, <1>3, Safety, PTL
=============================================================================
