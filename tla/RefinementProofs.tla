--------------------------- MODULE RefinementProofs ---------------------------
(***************************************************************************)
(* What wager processing promises to the parts around it, for every number *)
(* of sessions, workers and wallets: over PostgreSQL it implements         *)
(* WalletLedger, every step being a step of the abstract ledger or nothing *)
(* it knows of; the domain accepts all that is decided and stored; and     *)
(* readers beside the writers see one consistent history.                  *)
(***************************************************************************)
EXTENDS AnswerProofs, LedgerRefinement, DomainContracts, WalletReads,
        WellFoundedInduction

\* The rules of the domain are the same on both levels.
LEMMA SameDomain ==
    /\ Promise!ReversalKinds = ReversalKinds /\ Promise!Terminal = Terminal
    /\ \A r : Promise!ValidRequest(r) <=> ValidRequest(r)
    /\ \A r, q : Promise!ReferenceFailure(r, q) = ReferenceFailure(r, q)
    /\ \A k, x : Promise!Direction(k, x) = Direction(k, x)
    /\ \A k, d, b, m : Promise!MovementFailure(k, d, b, m) = MovementFailure(k, d, b, m)
    /\ \A d, b, m : Promise!Moved(d, b, m) = Moved(d, b, m)
  BY DEF Promise!ReversalKinds, ReversalKinds, Promise!Terminal, Terminal, 
         Promise!ValidRequest, ValidRequest, Promise!ExternalKinds, ExternalKinds,
         Promise!ReferenceFailure, ReferenceFailure, 
         Promise!AllowedReferenceKinds, AllowedReferenceKinds, Promise!Kinds, Kinds,
         Promise!Direction, Direction, Promise!MovementFailure, MovementFailure,
         Promise!Moved, Moved

\* What the abstract ledger sees of a row.
View(row) == [req |-> row.req, status |-> row.status, failure |-> row.failure,
              refTx |-> IF row.status = "PROCESSED" THEN row.refTx ELSE None,
              balance |-> row.balance]
Accounts == [w \in DOMAIN wallets |-> wallets[w].balance]
Operations == [t \in DOMAIN wagers |-> View(wagers[t])]

\* The variables of the abstract ledger.
LEMMA PromiseVars == Promise!vars = <<Accounts, Operations>>
  BY DEF Promise!vars, Accounts, Operations, View

\* What may wait here may wait there.
LEMMA PromiseMayWait == ASSUME NEW r, MayWait(r) PROVE Promise!MayWait(r)
  BY DEF Promise!MayWait, MayWait, Promise!Named, ByExternal

-----------------------------------------------------------------------------
(* A submission works on a request of its own                               *)

\* Only its arrival gives a submission a request; a worker takes it from a row.
LEMMA NextOffered == SafetyInv /\ OfferedInv /\ [Next]_vars => OfferedInv'
  <1> SUFFICES ASSUME SafetyInv, OfferedInv, [Next]_vars, NEW s \in Sessions
               PROVE  (pc[s] # "new" => req[s] \in Offers[s])'
    BY DEF OfferedInv
  <1>0. TypeOK /\ s \in Actors BY DEF SafetyInv, Actors
  <1>1. CASE req'[s] = req[s] /\ (pc[s] = "new" => pc'[s] = "new")
    BY <1>1 DEF OfferedInv
  <1>2. ASSUME NEW a \in Actors, ReadStep(a), a # s PROVE req'[s] = req[s] /\ pc'[s] = pc[s]
    BY <1>0, <1>2, ReadStepFrame DEF LocalsKept
  <1>3. CASE \E r \in Offers[s] : Receive(s, r)
    BY <1>0, <1>3 DEF Receive, TypeOK
  <1>4. CASE ReadStep(s) /\ ~\E r \in Offers[s] : Receive(s, r)
    <2>1. pc[s] # "new"
      BY <1>4 DEF ReadStep, SessionStatement, ClaimMessage, RejectInput, LookupKey,
         LookupExternal, WalletNotFound, InsertTransaction, IdentityRace, WalletMismatch,
         LockPending, LockWallet, ResolveReference, CheckReversal, Abort, RetryAbort,
         InTransaction
    <2>2. UNCHANGED req
      BY <1>4 DEF ReadStep, SessionStatement, ClaimMessage, RejectInput, LookupKey,
         LookupExternal, WalletNotFound, InsertTransaction, IdentityRace, WalletMismatch,
         LockPending, LockWallet, ResolveReference, CheckReversal, Abort, RetryAbort,
         Fail, Goto, Decide
    <2> QED BY <1>1, <2>1, <2>2
  <1>5. ASSUME NEW a \in Actors, Commit(a) \/ CommitReplyLost(a)
        PROVE  req'[s] = req[s] /\ (pc[s] = "new" => pc'[s] = "new")
    BY <1>0, <1>5 DEF Commit, CommitReplyLost, Conclude, TypeOK
  <1>6. ASSUME NEW o \in Openings, OpenWallet(o) PROVE req'[s] = req[s] /\ pc'[s] = pc[s]
    BY <1>6 DEF OpenWallet
  <1>7. ASSUME NEW r \in Workers, NEW t \in TxIds, Claim(r, t)
        PROVE  req'[s] = req[s] /\ pc'[s] = pc[s]
    BY <1>0, <1>7, ActorsAssumption DEF Claim, TypeOK
  <1>8. ASSUME NEW t \in TxIds, TimePasses(t) PROVE req'[s] = req[s] /\ pc'[s] = pc[s]
    BY <1>8 DEF TimePasses, BecomeDue, LeaseExpires, TTLPasses, Scheduled
  <1>9. ASSUME UNCHANGED vars PROVE req'[s] = req[s] /\ pc'[s] = pc[s]
    BY <1>9 DEF vars
  <1>10. ASSUME NEW a \in Actors, ReadStep(a)
         PROVE  (pc[s] # "new" => req[s] \in Offers[s])'
    <2>1. CASE a # s BY <1>1, <1>2, <1>10, <2>1
    <2>2. CASE a = s BY <1>3, <1>4, <1>10, <2>2
    <2> QED BY <2>1, <2>2
  <1> QED BY <1>1, <1>5, <1>6, <1>7, <1>8, <1>9, <1>10, NextShape

-----------------------------------------------------------------------------
(* The same row on both levels                                              *)

\* The abstract verdict on a settled operation, in terms of its row.
LEMMA VerdictIs ==
    ASSUME NEW r, NEW u \in DOMAIN wagers, wagers[u].status \in Terminal
    PROVE  Promise!Verdict(r, u) =
              IF FailureFrom(r, u) # None THEN FailureFrom(r, u)
              ELSE IF r.kind \in ReversalKinds /\ HasProcessedReversal(u)
                   THEN "ALREADY_REVERSED" ELSE None
  <1>1. Promise!Reversed(u) <=> HasProcessedReversal(u)
    BY SameDomain DEF Promise!Reversed, HasProcessedReversal
  <1>2. None # "REFERENCE_NOT_PROCESSED"
    BY NoneAssumption DEF FailureCodes
  <1> QED BY <1>1, <1>2, SameDomain DEF Promise!Verdict, FailureFrom

\* The reference of a rejection is not recorded.
LEMMA RejectionsAlike ==
    ASSUME NEW r, NEW x, NEW y, NEW v, v # None
    PROVE  Promise!Settled(r, x, v) = Promise!Settled(r, y, v)
  BY DEF Promise!Settled

\* What finish plans under the wallet lock is what the abstract ledger settles.
LEMMA FinishView ==
    ASSUME NEW a \in Actors, LockInv(a), NEW t, t = NoTx \/ t \in DOMAIN wagers, NEW f,
           plan[a] = FinishPlan(a, t, f, acct[a].balance),
           NEW row, row.req = req[a], row.status = plan[a].answer.status,
           row.failure = plan[a].answer.failure, row.refTx = plan[a].refTx,
           row.balance = plan[a].answer.balance
    PROVE  View(row) = Promise!Settled(req[a], t, f)
  <1> DEFINE r == req[a]
             b == acct[a].balance
             direction == Direction(r.kind, IF t = NoTx THEN None ELSE wagers[t].req.kind)
             code == IF f # None \/ r.kind = "LOSS" THEN f
                     ELSE MovementFailure(r.kind, direction, b, r.amount)
             balance == IF code = None /\ r.kind # "LOSS"
                        THEN Moved(direction, b, r.amount) ELSE b
  <1>1. /\ row.status = IF code = None THEN "PROCESSED" ELSE "REJECTED"
        /\ row.failure = code /\ row.refTx = t /\ row.balance = balance
    BY DEF FinishPlan
  <1>2. Promise!Settled(r, t, f) =
           [req |-> r, status |-> IF code = None THEN "PROCESSED" ELSE "REJECTED",
            failure |-> code, refTx |-> IF code = None THEN t ELSE None,
            balance |-> balance]
    BY SameDomain DEF Promise!Settled, LockInv, NoTx
  <1> HIDE DEF code, balance
  <1> QED BY <1>1, <1>2 DEF View

-----------------------------------------------------------------------------
(* Every step is a step of the abstract ledger                              *)

\* A step changes nothing the abstract ledger knows of.
Silent == Accounts' = Accounts /\ Operations' = Operations

\* The schedule of a row is no part of the abstract ledger.
LEMMA ScheduleSilent ==
    ASSUME NEW t, DOMAIN wagers' = DOMAIN wagers, UNCHANGED wallets,
           SameButSchedule(wagers'[t], wagers[t]),
           \A u \in DOMAIN wagers : u # t => wagers'[u] = wagers[u]
    PROVE  Silent
  <1>1. \A u \in DOMAIN wagers : View(wagers'[u]) = View(wagers[u])
    BY DEF SameButSchedule, View
  <1> QED BY <1>1 DEF Silent, Accounts, Operations

\* A wallet that is opened is opened there, with the same credit.
LEMMA OpenSimulates ==
    ASSUME SafetyInv, NEW o \in Openings, OpenWallet(o)
    PROVE  Promise!Next
  <1>0. /\ o.wallet \in Wallets /\ o.wallet \in TxIds /\ o.balance \in Nat
        /\ o.wallet \notin DOMAIN wallets /\ o.wallet \notin DOMAIN wagers
    BY InputsAssumption, ActorsAssumption, MaxMoneyAssumption
    DEF SafetyInv, TablesInv, OpenWallet, TxIds, Money
  <1>1. Accounts' = Promise!With(Accounts, o.wallet, o.balance)
    BY DEF OpenWallet, Extend, Promise!With, Accounts
  <1>2. CASE o.balance = 0
    <2>1. Operations' = Operations
      BY <1>2 DEF OpenWallet, Operations
    <2> QED BY <1>0, <1>1, <1>2, <2>1 DEF Promise!Next, Promise!Open, Promise!vars, Accounts,
               Operations, View, Promise!With
  <1>3. CASE o.balance > 0
    <2>1. wagers' = Extend(wagers, o.wallet, OpeningRow(o))
      BY <1>3 DEF OpenWallet
    <2>2. View(OpeningRow(o)) = Promise!Credit(o)
      BY DEF View, OpeningRow, Promise!Credit, NoTx
    <2>3. Operations' = Promise!With(Operations, o.wallet, Promise!Credit(o))
      BY <2>1, <2>2 DEF Extend, Promise!With, Operations
    <2>4. Promise!Open(o)
      BY <1>0, <1>1, <1>3, <2>3 DEF Promise!Open, Accounts, Operations, View
    <2>5. Promise!vars' # Promise!vars
      BY <1>0, <1>1, PromiseVars DEF Promise!vars, Promise!With, Accounts
    <2> QED BY <2>4, <2>5 DEF Promise!Next
  <1> QED BY <1>0, <1>2, <1>3

\* The commit of a decision records its row there.
LEMMA CommitRecords ==
    ASSUME SafetyInv, DecisionInv, NEW a \in Actors, pc[a] = "commit", ApplyWrites(a),
           CommitsRow(a), NEW t, t = TxOf(a), NEW s, s = View(wagers'[t])
    PROVE  Promise!Record(t, s) /\ Promise!vars' # Promise!vars
  <1>0. TypeOK /\ LockInv(a) /\ req[a] \in Request
    BY DEF SafetyInv, ActorInv, Holding, CommitsRow, Writes
  <1>1. Operations' = Promise!With(Operations, t, s)
    BY DEF CommitsRow, Operations, Promise!With
  <1>2. /\ s.req = req[a] /\ s.status = plan[a].answer.status
        /\ s.balance = plan[a].answer.balance
    BY DEF CommitsRow, View
  <1>3. Accounts' = IF s.status = "PROCESSED" /\ s.req.kind # "LOSS"
                    THEN [Accounts EXCEPT ![s.req.wallet] = s.balance] ELSE Accounts
    <2>1. Moves(plan[a]) <=> s.status = "PROCESSED" /\ s.req.kind # "LOSS"
      BY <1>2, PlanMeans DEF CommitsRow
    <2>2. CASE Moves(plan[a])
      <3>1. PICK w : w = req[a].wallet OBVIOUS
      <3>2. w \in DOMAIN wallets /\ wallets[w] \in Wallet
        BY <1>0, <3>1 DEF LockInv, TypeOK
      <3>3. wallets' = [wallets EXCEPT ![w].balance = plan[a].answer.balance,
                                       ![w].version = acct[a].version + 1]
        BY <2>2, <3>1 DEF ApplyWrites
      <3>4. /\ DOMAIN wallets' = DOMAIN wallets
            /\ wallets'[w].balance = plan[a].answer.balance
            /\ \A v \in DOMAIN wallets : v # w => wallets'[v] = wallets[v]
        BY <1>0, <3>2, <3>3 DEF TypeOK, Wallet
      <3> QED BY <1>2, <2>1, <2>2, <3>1, <3>2, <3>4 DEF Accounts
    <2>3. CASE ~Moves(plan[a])
      BY <2>1, <2>3 DEF ApplyWrites, Accounts
    <2> QED BY <2>2, <2>3
  <1>4. Operations' # Operations
    <2>1. CASE t \notin DOMAIN wagers
      BY <1>1, <2>1 DEF Operations, Promise!With
    <2>2. CASE t \in DOMAIN wagers
      <3>1. wagers[t].status = "PENDING_REFERENCE" /\ a \notin Sessions
        BY <2>2 DEF CommitsRow
      <3>2. s.status # "PENDING_REFERENCE"
        BY <1>2, <3>1, PlanMeans DEF CommitsRow
      <3>3. Operations[t].status = "PENDING_REFERENCE" /\ Operations'[t] = s
        BY <1>1, <2>2, <3>1 DEF Operations, View, Promise!With
      <3> QED BY <3>2, <3>3
    <2> QED BY <2>1, <2>2
  <1>5. Promise!Record(t, s)
    BY <1>1, <1>3 DEF Promise!Record, Accounts, Operations, View
  <1> QED BY <1>4, <1>5, PromiseVars DEF Promise!vars, Operations, View

\* A settlement that the tables justify is one the abstract ledger offers, unless a
\* worker gives up waiting.
LEMMA JustifiedSettles ==
    ASSUME SafetyInv, NEW a \in Actors, LockInv(a), NEW t, NEW f,
           Justified(req[a], t, f), plan[a] = FinishPlan(a, t, f, acct[a].balance),
           NEW row, row.req = req[a], row.status = plan[a].answer.status,
           row.failure = plan[a].answer.failure, row.refTx = plan[a].refTx,
           row.balance = plan[a].answer.balance
    PROVE  \/ View(row) \in Promise!Settlements(req[a])
           \/ /\ f = "REFERENCE_NOT_FOUND" /\ Promise!MayWait(req[a])
              /\ View(row) = Promise!Settled(req[a], None, "REFERENCE_NOT_FOUND")
  <1>0. t = NoTx \/ t \in DOMAIN wagers
    BY DEF Justified, Accepted, ByExternal
  <1>1. View(row) = Promise!Settled(req[a], t, f)
    BY <1>0, FinishView
  <1>2. ASSUME NEW u \in ByExternal(req[a].provider, req[a].ref),
               req[a].ref # None, wagers[u].status \in Terminal
        PROVE  Promise!Settled(req[a], u, Promise!Verdict(req[a], u))
                  \in Promise!Settlements(req[a])
    BY <1>2, SameDomain DEF Promise!Settlements, Promise!Named, ByExternal
  <1>3. CASE req[a].ref = None /\ t = NoTx /\ f = None
    BY <1>1, <1>3 DEF Promise!Settlements, NoTx
  <1>4. CASE MayWait(req[a]) /\ t = NoTx /\ f = "REFERENCE_NOT_FOUND"
    BY <1>1, <1>4, PromiseMayWait DEF NoTx
  <1>5. CASE /\ req[a].ref # None /\ t = NoTx /\ f # None
             /\ \E u \in ByExternal(req[a].provider, req[a].ref) :
                   wagers[u].status \in Terminal /\ f = FailureFrom(req[a], u)
    <2>1. PICK u \in ByExternal(req[a].provider, req[a].ref) :
             wagers[u].status \in Terminal /\ f = FailureFrom(req[a], u)
      BY <1>5
    <2>2. Promise!Verdict(req[a], u) = f
      BY <1>5, <2>1, VerdictIs DEF ByExternal
    <2> QED BY <1>1, <1>2, <1>5, <2>1, <2>2, RejectionsAlike
  <1>6. CASE /\ Accepted(req[a], t)
             /\ f = IF req[a].kind \in ReversalKinds /\ HasProcessedReversal(t)
                    THEN "ALREADY_REVERSED" ELSE None
    <2>1. /\ t \in ByExternal(req[a].provider, req[a].ref) /\ req[a].ref # None
          /\ wagers[t].status \in Terminal /\ FailureFrom(req[a], t) = None
      BY <1>6 DEF Accepted, FailureFrom, Terminal
    <2>2. Promise!Verdict(req[a], t) = f
      BY <1>6, <2>1, VerdictIs DEF ByExternal
    <2> QED BY <1>1, <1>2, <2>1, <2>2
  <1> QED BY <1>3, <1>4, <1>5, <1>6 DEF Justified

\* A commit that settles or stores an operation accepts or resumes it there.
LEMMA CommitSimulates ==
    ASSUME SafetyInv, IdentityInv, DecisionInv, OfferedInv, NEW a \in Actors,
           pc[a] = "commit", ApplyWrites(a), CommitsRow(a)
    PROVE  Promise!Next
  <1>0. PICK t, s : t = TxOf(a) /\ s = View(wagers'[t]) OBVIOUS
  <1>1. Promise!Record(t, s) /\ Promise!vars' # Promise!vars
    BY <1>0, CommitRecords
  <1>2. /\ TypeOK /\ LockInv(a) /\ Writes(plan[a]) /\ JudgeInv(a) /\ Decided(a)
    BY DEF SafetyInv, ActorInv, Holding, CommitsRow, Writes, DecisionInv, Decided
  <1>3. /\ wagers'[t].req = req[a] /\ wagers'[t].refTx = plan[a].refTx
        /\ wagers'[t].status = plan[a].answer.status
        /\ wagers'[t].failure = plan[a].answer.failure
        /\ wagers'[t].balance = plan[a].answer.balance
    BY <1>0 DEF CommitsRow
  <1>4. \/ a \in Sessions /\ MayWait(req[a]) /\ plan[a] = PendingPlan(a)
        \/ s \in Promise!Settlements(req[a])
        \/ /\ a \notin Sessions /\ Promise!MayWait(req[a])
           /\ s = Promise!Settled(req[a], None, "REFERENCE_NOT_FOUND")
    <2>1. CASE a \in Sessions /\ MayWait(req[a]) /\ plan[a] = PendingPlan(a)
      BY <2>1
    <2>2. ASSUME NEW x \in TxIds \cup {NoTx}, NEW f \in FailureCodes \cup {None},
                 Justified(req[a], x, f), a \in Sessions => f # "REFERENCE_NOT_FOUND",
                 plan[a] = FinishPlan(a, x, f, acct[a].balance)
          PROVE  \/ s \in Promise!Settlements(req[a])
                 \/ /\ a \notin Sessions /\ Promise!MayWait(req[a])
                    /\ s = Promise!Settled(req[a], None, "REFERENCE_NOT_FOUND")
      <3>1. PICK row : row = wagers'[t] OBVIOUS
      <3>2. /\ row.req = req[a] /\ row.status = plan[a].answer.status
            /\ row.failure = plan[a].answer.failure /\ row.refTx = plan[a].refTx
            /\ row.balance = plan[a].answer.balance /\ s = View(row)
        BY <1>0, <1>3, <3>1
      <3> HIDE <3>1
      <3> QED BY <1>2, <2>2, <3>2, JustifiedSettles
    <2> QED BY <1>2, <2>1, <2>2 DEF JudgeInv
  <1>5. CASE a \in Sessions
    <2>1. t = a /\ t \in TxIds /\ t \notin DOMAIN wagers /\ Inserted(a)
      BY <1>0, <1>2, <1>5 DEF TxOf, CommitsRow, TxIds, Inserted, SafetyInv, ActorInv,
         PlanInv, Writes
    <2>2. Promise!Acceptable(req[a])
      <3>1. ValidRequest(req[a]) /\ req[a].wallet \in DOMAIN wallets
        BY <1>2, <1>5, <2>1 DEF IdentityInv, Validated, LockInv
      <3>2. \A u \in DOMAIN wagers : ~SameIdentity(wagers[u].req, req[a])
        BY <1>5, <2>1 DEF IdentityInv
      <3> QED BY <3>1, <3>2, SameDomain DEF Promise!Acceptable, SameIdentity
    <2>3. req[a] \in UNION {Offers[u] : u \in Sessions}
      BY <1>5 DEF OfferedInv
    <2>4. a \in Sessions /\ MayWait(req[a]) /\ plan[a] = PendingPlan(a) =>
             s = Promise!Waiting(req[a])
      BY <1>0, <1>3 DEF PendingPlan, NoPlan, NoAnswer, View, Promise!Waiting
    <2>5. \/ s \in Promise!Settlements(req[a])
          \/ Promise!MayWait(req[a]) /\ s = Promise!Waiting(req[a])
      BY <1>4, <1>5, <2>4, PromiseMayWait
    <2>6. PICK r : r = req[a] OBVIOUS
    <2>7. /\ t \in TxIds \ DOMAIN Operations /\ Promise!Acceptable(r)
          /\ r \in UNION {Offers[u] : u \in Sessions}
          /\ s \in Promise!Settlements(r) \/ (Promise!MayWait(r) /\ s = Promise!Waiting(r))
      BY <2>1, <2>2, <2>3, <2>5, <2>6 DEF Operations
    <2>8. Promise!Accept(r)
      BY <1>1, <2>7 DEF Promise!Accept, Operations
    <2> QED BY <1>1, <2>7, <2>8 DEF Promise!Next
  <1>6. CASE a \notin Sessions
    <2>1. /\ t = claim[a] /\ t \in DOMAIN wagers /\ t \in TxIds
          /\ wagers[t].status = "PENDING_REFERENCE" /\ wagers[t].req = req[a]
      BY <1>0, <1>2, <1>6 DEF CommitsRow, TypeOK, SafetyInv, ActorInv, Actors
    <2>2. \/ s \in Promise!Settlements(req[a])
          \/ /\ Promise!MayWait(req[a])
             /\ s = Promise!Settled(req[a], None, "REFERENCE_NOT_FOUND")
      BY <1>4, <1>6
    <2>3. PICK r : r = req[a] OBVIOUS
    <2>4. \/ \E x \in Promise!Settlements(r) : Promise!Record(t, x)
          \/ /\ Promise!MayWait(r)
             /\ Promise!Record(t, Promise!Settled(r, None, "REFERENCE_NOT_FOUND"))
      BY <1>1, <2>2, <2>3 DEF Promise!Record
    <2>5. Promise!Resume(t)
      BY <2>1, <2>3, <2>4 DEF Promise!Resume, Promise!Record
    <2> QED BY <1>1, <2>1, <2>5 DEF Promise!Next
  <1> QED BY <1>5, <1>6

\* Every step of wager processing is one step of the abstract ledger, or none.
LEMMA NextSimulates ==
    SafetyInv /\ IdentityInv /\ DecisionInv /\ OfferedInv /\ [Next]_vars
        => [Promise!Next]_(Promise!vars)
  <1> SUFFICES ASSUME SafetyInv, IdentityInv, DecisionInv, OfferedInv, [Next]_vars
               PROVE  [Promise!Next]_(Promise!vars)
    OBVIOUS
  <1>0. TypeOK BY DEF SafetyInv
  <1>1. Silent => UNCHANGED Promise!vars
    BY PromiseVars DEF Silent, Promise!vars, Accounts, Operations, View
  <1>2. UNCHANGED <<wallets, wagers>> => Silent
    BY DEF Silent, Accounts, Operations
  <1>3. ASSUME NEW a \in Actors, ReadStep(a) PROVE Silent
    BY <1>0, <1>2, <1>3, ReadStepFrame DEF tables
  <1>4. ASSUME NEW a \in Actors, pc[a] = "commit", ApplyWrites(a)
        PROVE  Silent \/ Promise!Next
    <2>1. CASE CommitsNothing(a)
      BY <1>2, <1>4, <2>1 DEF CommitsNothing, ApplyWrites, Moves, Writes
    <2>2. CASE CommitsSchedule(a)
      <3>1. UNCHANGED wallets
        BY <1>4, <2>2 DEF CommitsSchedule, ApplyWrites, Moves, Writes
      <3> QED BY <2>2, <3>1, ScheduleSilent DEF CommitsSchedule
    <2>3. CASE CommitsRow(a)
      BY <1>4, <2>3, CommitSimulates
    <2> QED BY <1>4, <2>1, <2>2, <2>3, CommitRows
  <1>5. ASSUME NEW r \in Workers, NEW t \in TxIds, Claim(r, t) PROVE Silent
    BY <1>5, ClaimRow, ScheduleSilent DEF Claim
  <1>6. ASSUME NEW t \in TxIds, TimePasses(t) PROVE Silent
    BY <1>6, TimeRow, ScheduleSilent
    DEF TimePasses, BecomeDue, LeaseExpires, TTLPasses, Scheduled
  <1>7. ASSUME UNCHANGED vars PROVE Silent
    BY <1>2, <1>7 DEF vars, tables
  <1> QED BY <1>1, <1>3, <1>4, <1>5, <1>6, <1>7, NextShape, OpenSimulates
          DEF Commit, CommitReplyLost

\* The empty tables are the empty abstract ledger.
LEMMA InitSimulates == Init => Promise!Init /\ OfferedInv
  BY DEF Init, Promise!Init, OfferedInv, Actors, Accounts

\* Submissions and reference workers, interleaved statement by statement under READ
\* COMMITTED, failing and retried anywhere, in any number and over any number of
\* wallets, are operations that are judged and applied one at a time, each once.
THEOREM WageringImplementsLedger == Spec => ImplementsWalletLedger
  <1>1. Spec => []OfferedInv
    BY Safety, InitSimulates, NextOffered, PTL DEF Spec
  <1> QED BY <1>1, Decisions, InitSimulates, NextSimulates, PTL
          DEF Spec, ImplementsWalletLedger, Promise!Spec

-----------------------------------------------------------------------------
(* The contracts of the domain                                              *)

\* A decision names a failure exactly when it rejects, and waits only for a
\* reference that was asked for.
LEMMA PlanVerdict ==
    ASSUME DecisionInv, NEW a \in Actors, pc[a] = "commit", Writes(plan[a])
    PROVE  /\ plan[a].answer.status = "REJECTED" <=> plan[a].answer.failure \in FailureCodes
           /\ plan[a].answer.status = "PENDING_REFERENCE" =>
                 req[a].ref # None /\ plan[a].refTx = NoTx
  <1>1. CASE MayWait(req[a]) /\ plan[a] = PendingPlan(a)
    BY <1>1, NoneAssumption DEF PendingPlan, NoPlan, NoAnswer, MayWait
  <1>2. CASE \E t \in TxIds \cup {NoTx}, f \in FailureCodes \cup {None} :
                plan[a] = FinishPlan(a, t, f, acct[a].balance)
    <2>1. PICK t \in TxIds \cup {NoTx}, f \in FailureCodes \cup {None} :
             plan[a] = FinishPlan(a, t, f, acct[a].balance)
      BY <1>2
    <2>2. \A k, d, b, m : MovementFailure(k, d, b, m) \in FailureCodes \cup {None}
      BY DEF MovementFailure, FailureCodes
    <2>3. \E code \in FailureCodes \cup {None} :
             /\ plan[a].answer.failure = code
             /\ plan[a].answer.status = IF code = None THEN "PROCESSED" ELSE "REJECTED"
      BY <2>1, <2>2 DEF FinishPlan
    <2> QED BY <2>3, NoneAssumption
  <1> QED BY <1>1, <1>2 DEF DecisionInv, JudgeInv, Decided

\* What ResolveReference is given: the reference asked for, and for a processed
\* operation always.
LEMMA PlanReference ==
    ASSUME SafetyInv, IdentityInv, DecisionInv, NEW a \in Actors, pc[a] = "commit",
           Writes(plan[a])
    PROVE  /\ plan[a].refTx # NoTx => req[a].ref # None
           /\ plan[a].answer.status = "PROCESSED" /\ req[a].ref # None =>
                 plan[a].refTx # NoTx
  <1>1. NoTx \notin DOMAIN wagers
    BY NoNullRow DEF SafetyInv
  <1>2. plan[a].refTx # NoTx => req[a].ref # None
    BY PlannedReference DEF Accepted
  <1>3. plan[a].answer.status = "PROCESSED" /\ req[a].ref # None => plan[a].refTx # NoTx
    BY <1>1, ProcessedPlan, AcceptedMeans
  <1> QED BY <1>2, <1>3

\* The row a decision leads to can be read back.
LEMMA PlannedRowRehydrates ==
    ASSUME SafetyInv, IdentityInv, DecisionInv, NEW a \in Actors, pc[a] = "commit",
           Writes(plan[a]), NEW row, row.req = req[a], row.refTx = plan[a].refTx,
           row.status = plan[a].answer.status, row.failure = plan[a].answer.failure,
           row.balance = plan[a].answer.balance
    PROVE  Rehydrates(row)
  <1>1. ValidRequest(req[a]) BY ProcessedIsValid DEF Writes
  <1>2. plan[a].answer.balance \in Money BY DEF SafetyInv, TypeOK, Answer
  <1>3. OriginAccepted(row.req, row.status)
    BY <1>1 DEF OriginAccepted, ValidRequest, ExternalKinds
  <1>4. KindAccepted(row.req, row.status, row.refTx)
    BY <1>1, PlanVerdict, PlanReference DEF KindAccepted, ValidRequest, ExternalKinds
  <1>5. ResultAccepted(row.req, row.status, row.refTx, row.failure, row.balance)
    <2>1. row.balance >= 0
      BY <1>2, MaxMoneyAssumption DEF Money
    <2>2. row.req.kind # "OPENING"
      BY <1>1 DEF ValidRequest, ExternalKinds
    <2> QED BY <2>1, <2>2, PlanVerdict, PlanReference DEF ResultAccepted
  <1> QED BY <1>3, <1>4, <1>5 DEF Rehydrates

\* Every stored row can be read back.
Readable == \A t \in DOMAIN wagers : Rehydrates(wagers[t])

\* Every step keeps the rows readable.
LEMMA NextReadable ==
    SafetyInv /\ IdentityInv /\ DecisionInv /\ Readable /\ [Next]_vars => Readable'
  <1> SUFFICES ASSUME SafetyInv, IdentityInv, DecisionInv, Readable, [Next]_vars,
                      NEW t \in DOMAIN wagers'
               PROVE  Rehydrates(wagers'[t])
    BY DEF Readable, Rehydrates
  <1>0. TypeOK BY DEF SafetyInv
  <1>1. t \in DOMAIN wagers /\ SameButSchedule(wagers'[t], wagers[t]) => Rehydrates(wagers'[t])
    BY DEF Readable, Rehydrates, SameButSchedule
  <1>2. t \in DOMAIN wagers /\ wagers'[t] = wagers[t] => Rehydrates(wagers'[t])
    BY <1>1 DEF SameButSchedule
  <1>3. ASSUME NEW a \in Actors, ReadStep(a) PROVE wagers' = wagers
    BY <1>0, <1>3, ReadStepFrame DEF tables
  <1>4. ASSUME NEW a \in Actors, pc[a] = "commit", ApplyWrites(a)
        PROVE  Rehydrates(wagers'[t])
    <2>1. CASE CommitsNothing(a)
      BY <1>2, <2>1 DEF CommitsNothing
    <2>2. CASE CommitsSchedule(a)
      BY <1>1, <1>2, <2>2 DEF CommitsSchedule
    <2>3. CASE CommitsRow(a)
      <3>1. CASE t = TxOf(a)
        BY <1>4, <2>3, <3>1, PlannedRowRehydrates DEF CommitsRow
      <3>2. CASE t # TxOf(a)
        BY <1>2, <2>3, <3>2 DEF CommitsRow
      <3> QED BY <3>1, <3>2
    <2> QED BY <1>4, <2>1, <2>2, <2>3, CommitRows
  <1>5. ASSUME NEW o \in Openings, OpenWallet(o) PROVE Rehydrates(wagers'[t])
    <2>1. \/ wagers' = wagers
          \/ o.balance > 0 /\ wagers' = Extend(wagers, o.wallet, OpeningRow(o))
      BY <1>5 DEF OpenWallet
    <2>2. o.balance > 0 => Rehydrates(OpeningRow(o))
      <3> SUFFICES ASSUME o.balance > 0 PROVE Rehydrates(OpeningRow(o)) OBVIOUS
      <3>1. o.balance \in Nat
        BY InputsAssumption, MaxMoneyAssumption DEF Money
      <3> QED BY <3>1, NoneAssumption
        DEF OpeningRow, Rehydrates, OriginAccepted, KindAccepted, ResultAccepted,
            ReversalKinds, Terminal
    <2>3. CASE o.balance > 0 /\ wagers' = Extend(wagers, o.wallet, OpeningRow(o))
      BY <1>2, <2>2, <2>3 DEF Extend
    <2> QED BY <1>2, <2>1, <2>3
  <1>6. ASSUME NEW r \in Workers, NEW x \in TxIds, Claim(r, x)
        PROVE  Rehydrates(wagers'[t])
    BY <1>1, <1>2, <1>6, ClaimRow
  <1>7. ASSUME NEW x \in TxIds, TimePasses(x) PROVE Rehydrates(wagers'[t])
    BY <1>1, <1>2, <1>7, TimeRow
  <1>8. ASSUME UNCHANGED vars PROVE wagers' = wagers
    BY <1>8 DEF vars, tables
  <1> QED BY <1>2, <1>3, <1>4, <1>5, <1>6, <1>7, <1>8, NextShape
          DEF Commit, CommitReplyLost

\* The transitions accept every decision.
LEMMA TransitionsAccept ==
    ASSUME SafetyInv, IdentityInv, DecisionInv, AnswerInv, NEW a \in Actors,
           pc[a] = "commit", Writes(plan[a])
    PROVE  TransitionAccepted(a)
  <1>1. /\ a \in Sessions => StatusBefore(a) = "PENDING"
        /\ a \notin Sessions => /\ a \in Workers
                                /\ StatusBefore(a) = "PENDING_REFERENCE"
                                /\ claim[a] \in DOMAIN wagers
                                /\ wagers[claim[a]].refTx = NoTx
                                /\ wagers[claim[a]].req = req[a]
    BY DEF StatusBefore, DecisionInv, ClaimInv, RowInv, Actors, SafetyInv, ActorInv
  <1>2. StatusBefore(a) \notin Terminal
    BY <1>1 DEF Terminal
  <1>3. plan[a].answer.status = "PENDING_REFERENCE" => a \in Sessions /\ req[a].ref # None
    BY PlanMeans, PlanVerdict
  <1>4. plan[a].answer.balance \in Nat
    BY MaxMoneyAssumption DEF SafetyInv, TypeOK, Answer, Money
  <1>5. wallets[req[a].wallet].currency = req[a].currency
    <2>1. CASE a \in Sessions
      BY <2>1 DEF AnswerInv, OwnerInv, Holding, Writes, Owned
    <2>2. CASE a \notin Sessions
      BY <1>1, <2>2 DEF AnswerInv, OwnerInv, Owned
    <2> QED BY <2>1, <2>2
  <1>6. a \in Workers => wagers[claim[a]].refTx \in {NoTx, plan[a].refTx}
    BY <1>1, ActorsAssumption
  <1> QED BY <1>1, <1>2, <1>3, <1>4, <1>5, <1>6, PlanVerdict, PlanReference
          DEF TransitionAccepted

\* An entry that continues the ledger is one the domain accepts.
LEMMA EntryIsAccepted ==
    ASSUME NEW e \in Entry, e.amount > 0, e.after = Moved(e.direction, e.before, e.amount)
    PROVE  EntryAccepted(e)
  BY MaxMoneyAssumption DEF Entry, EntryAccepted, Moved, Money

\* The constructors of the events accept every decision.
LEMMA EventConstructorsAccept ==
    ASSUME SafetyInv, IdentityInv, DecisionInv, NEW a \in Actors,
           pc[a] = "commit", Writes(plan[a])
    PROVE  EventsAccepted(a)
  <1>1. ValidRequest(req[a]) BY ProcessedIsValid DEF Writes
  <1>2. plan[a].answer.balance \in Nat
    BY MaxMoneyAssumption DEF SafetyInv, TypeOK, Answer, Money
  <1>3. TransactionEventAccepted(req[a], plan[a].answer.balance) /\ req[a].kind # "OPENING"
    BY <1>1, <1>2 DEF TransactionEventAccepted, ValidRequest, ExternalKinds
  <1>4. plan[a].answer.status = "PENDING_REFERENCE" =>
           /\ req[a].kind \in {"WIN", "REFUND", "ROLLBACK"}
           /\ None \notin {req[a].provider, req[a].ref}
    BY <1>1, PlanVerdict DEF ValidRequest, ExternalKinds
  <1>5. Moves(plan[a]) => EntryAccepted(WrittenEntry(a))
    <2> SUFFICES ASSUME Moves(plan[a]) PROVE EntryAccepted(WrittenEntry(a)) OBVIOUS
    <2>1. req[a].kind # "LOSS" BY PlanMeans
    <2>2. WrittenEntry(a).amount > 0
      BY <1>1, <2>1 DEF ValidRequest, WrittenEntry
    <2> QED BY <2>2, WrittenEntryGood, EntryIsAccepted
  <1> QED BY <1>3, <1>4, <1>5, PlanVerdict DEF EventsAccepted

\* Every stored entry can be read back.
LEMMA EntriesRehydrate ==
    ASSUME SafetyInv, EffectInv, Readable, NEW w \in Wallets, NEW i \in DOMAIN ledger[w]
    PROVE  EntryAccepted(ledger[w][i])
  <1>1. PICK e : e = ledger[w][i] OBVIOUS
  <1>2. e \in Entry
    BY <1>1 DEF SafetyInv, TypeOK
  <1>3. e.after = Moved(e.direction, e.before, e.amount)
    BY <1>1 DEF SafetyInv, LedgerContinuity
  <1>4. PICK row : row = wagers[e.tx] OBVIOUS
  <1>5. Rehydrates(row) /\ e.amount = row.req.amount /\ row.req.kind # "LOSS"
    BY <1>1, <1>4 DEF EffectInv, EntryInv, Readable
  <1>6. e.amount > 0
    BY <1>5 DEF Rehydrates, KindAccepted
  <1> QED BY <1>1, <1>2, <1>3, <1>6, EntryIsAccepted

\* The domain, which judges again in its constructors and transitions, never refuses
\* what SubmitInSession or ResumePendingInSession has decided, and whatever is stored
\* can be rebuilt by scanWager and the ledger pages.
THEOREM DomainNeverRefuses == Spec => []DomainAccepts
  <1>1. Init => Readable
    BY DEF Init, Readable
  <1>2. Spec => []Readable
    BY <1>1, Decisions, NextReadable, PTL DEF Spec
  <1>3. ASSUME SafetyInv, IdentityInv, DecisionInv, EffectInv, AnswerInv, Readable
        PROVE  DomainAccepts
    <2>1. ConstructorsAccept
      BY <1>3, TransitionsAccept, EventConstructorsAccept DEF ConstructorsAccept
    <2>2. RecordsRehydrate
      BY <1>3, EntriesRehydrate DEF RecordsRehydrate, Readable
    <2> QED BY <2>1, <2>2 DEF DomainAccepts
  <1> QED BY <1>2, <1>3, Effects, Answers, PTL

-----------------------------------------------------------------------------
(* What readers see beside the writers                                      *)

\* Every set of naturals has a least one: induction over data is by the least
\* counterexample.
LEMMA LeastNumber ==
    ASSUME NEW T, T \subseteq Nat, T # {}
    PROVE  \E m \in T : \A n \in T : m <= n
  <1> DEFINE R == OpToRel(<, Nat)
  <1>1. IsWellFoundedOn(R, Nat) BY NatLessThanWellFounded
  <1>2. \A m, n \in Nat : <<m, n>> \in R <=> m < n
    BY DEF OpToRel
  <1> HIDE DEF R
  <1>3. PICK x \in T : \A y \in T : ~(<<y, x>> \in R)
    BY <1>1, WFMin
  <1>4. ASSUME NEW y \in T PROVE x <= y
    <2>1. x \in Nat /\ y \in Nat OBVIOUS
    <2>2. ~(y < x) BY <1>2, <1>3, <2>1
    <2> QED BY <2>1, <2>2
  <1> QED BY <1>4

\* The places a .. b of L hold the members of S, each once.
Lists(L, a, b, S) == /\ \A i \in a .. b : L[i] \in S
                     /\ \A e \in S : \E i \in a .. b : e = L[i]
                     /\ \A i, j \in a .. b : L[i] = L[j] => i = j

\* A set has as many members as it takes to list it.
LEMMA ListedSize ==
    ASSUME NEW L, NEW S, NEW a \in Int, NEW b \in Int, Lists(L, a, b, S)
    PROVE  IsFiniteSet(S) /\ Cardinality(S) = IF a > b THEN 0 ELSE b - a + 1
  <1> DEFINE f == [i \in a .. b |-> L[i]]
  <1>1. f \in Bijection(a .. b, S)
    BY DEF Lists, Bijection, Injection, IsInjective, Surjection
  <1>2. ExistsBijection(a .. b, S)
    BY <1>1 DEF ExistsBijection
  <1> QED BY <1>2, FS_Interval, FS_Bijection

\* The versions of the first p rows grow.
Growing(L, p) == /\ \A i \in 1 .. p : L[i].version \in Int
                 /\ \A i, j \in 1 .. p : i < j => L[i].version < L[j].version

\* Of rows with growing versions, the newest are the last ones in reverse.
LEMMA NewestAreLast ==
    ASSUME NEW L, NEW p \in Nat, NEW limit \in Nat, Growing(L, p)
    PROVE  Newest({L[i] : i \in 1 .. p}, limit)
             = [k \in 1 .. (IF limit < p THEN limit ELSE p) |-> L[p + 1 - k]]
  <1> DEFINE rows == {L[i] : i \in 1 .. p}
             above(e) == {d \in rows : d.version >= e.version}
             m == IF limit < p THEN limit ELSE p
  <1>1. \A i, j \in 1 .. p : L[i].version >= L[j].version <=> i >= j
    <2> SUFFICES ASSUME NEW i \in 1 .. p, NEW j \in 1 .. p
                 PROVE  L[i].version >= L[j].version <=> i >= j
      OBVIOUS
    <2>1. PICK x \in Int, y \in Int : x = L[i].version /\ y = L[j].version
      BY DEF Growing
    <2>2. (i < j => x < y) /\ (j < i => y < x) BY <2>1 DEF Growing
    <2>3. i = j => x = y BY <2>1
    <2> QED BY <2>1, <2>2, <2>3
  <1>2. \A i, j \in 1 .. p : L[i] = L[j] => i = j
    <2> SUFFICES ASSUME NEW i \in 1 .. p, NEW j \in 1 .. p, L[i] = L[j] PROVE i = j
      OBVIOUS
    <2>1. L[i].version >= L[j].version /\ L[j].version >= L[i].version
      BY DEF Growing
    <2>2. i >= j /\ j >= i BY <1>1, <2>1
    <2> QED BY <2>2
  <1>3. Cardinality(rows) = p
    <2>1. Lists(L, 1, p, rows) /\ 1 \in Int /\ p \in Int
      BY <1>2 DEF Lists
    <2> HIDE DEF rows
    <2>2. Cardinality(rows) = IF 1 > p THEN 0 ELSE p - 1 + 1
      BY <2>1, ListedSize
    <2> QED BY <2>2
  <1>4. ASSUME NEW j \in 1 .. p PROVE Cardinality(above(L[j])) = p + 1 - j
    <2>1. PICK S : S = above(L[j]) OBVIOUS
    <2>2. \A i \in j .. p : L[i] \in S
      BY <1>1, <2>1
    <2>3. \A e \in S : \E i \in j .. p : e = L[i]
      BY <1>1, <2>1
    <2>4. \A i, h \in j .. p : L[i] = L[h] => i = h
      BY <1>2
    <2>5. Lists(L, j, p, S) /\ j \in Int /\ p \in Int
      BY <2>2, <2>3, <2>4 DEF Lists
    <2>6. Cardinality(S) = IF j > p THEN 0 ELSE p - j + 1
      BY <2>5, ListedSize
    <2> QED BY <2>1, <2>6
  <1>5. ASSUME NEW k \in 1 .. m
        PROVE  (CHOOSE e \in rows : Cardinality(above(e)) = k) = L[p + 1 - k]
    <2>1. p + 1 - k \in 1 .. p
      OBVIOUS
    <2>2. L[p + 1 - k] \in rows /\ Cardinality(above(L[p + 1 - k])) = k
      BY <1>4, <2>1
    <2>3. ASSUME NEW e \in rows, Cardinality(above(e)) = k PROVE e = L[p + 1 - k]
      <3>1. PICK j \in 1 .. p : e = L[j] OBVIOUS
      <3>2. p + 1 - j = k BY <1>4, <2>3, <3>1
      <3>3. j = p + 1 - k BY <3>2
      <3> QED BY <3>1, <3>3
    <2> QED BY <2>2, <2>3
  <1>6. Newest(rows, limit) = [k \in 1 .. m |-> CHOOSE e \in rows : Cardinality(above(e)) = k]
    BY <1>3 DEF Newest
  <1> QED BY <1>5, <1>6

\* The balances h follow from each other by the movements in L.
RunningSum(h, L, n) == /\ h = [i \in 0 .. n |-> h[i]] /\ h[0] = 0
                       /\ \A i \in 1 .. n : h[i] = Moved(L[i].direction, h[i - 1], L[i].amount)

\* The sum of a chain of entries is what the last one left.
LEMMA SumOfChain ==
    ASSUME NEW L, NEW n \in Nat, n = Len(L), NEW h, RunningSum(h, L, n)
    PROVE  Sum(L) = h[n]
  <1> DEFINE step(g) == [i \in 0 .. n |-> IF i = 0 THEN 0
                             ELSE Moved(L[i].direction, g[i - 1], L[i].amount)]
             upTo == CHOOSE g : g = step(g)
  <1>1. h = step(h)
    <2>1. ASSUME NEW i \in 0 .. n PROVE h[i] = step(h)[i]
      <3>1. CASE i = 0 BY <3>1 DEF RunningSum
      <3>2. CASE i # 0
        <4>1. i \in 1 .. n BY <3>2
        <4> QED BY <3>2, <4>1 DEF RunningSum
      <3> QED BY <3>1, <3>2
    <2> HIDE DEF step
    <2>2. step(h) = [i \in 0 .. n |-> step(h)[i]]
      BY DEF step
    <2> QED BY <2>1, <2>2 DEF RunningSum
  <1>2. upTo = step(upTo)
    BY <1>1
  <1>3. Sum(L) = upTo[n]
    BY DEF Sum
  <1> HIDE DEF upTo
  <1>4. \A i \in 1 .. n : upTo[i] = Moved(L[i].direction, upTo[i - 1], L[i].amount)
    BY <1>2
  <1>5. upTo[0] = 0
    BY <1>2
  <1>6. \A i \in 0 .. n : upTo[i] = h[i]
    <2> DEFINE T == {i \in 0 .. n : upTo[i] # h[i]}
    <2>1. SUFFICES ASSUME T # {} PROVE FALSE OBVIOUS
    <2>2. T \subseteq Nat OBVIOUS
    <2>3. PICK m \in T : \A j \in T : m <= j
      <3> HIDE DEF T
      <3> QED BY <2>1, <2>2, LeastNumber
    <2>4. m \in 1 .. n /\ upTo[m] # h[m]
      BY <1>5, <2>3 DEF RunningSum
    <2>5. m - 1 \in 0 .. n /\ m - 1 \notin T
      BY <2>3, <2>4
    <2>6. upTo[m - 1] = h[m - 1]
      BY <2>5
    <2> QED BY <1>4, <2>4, <2>6 DEF RunningSum
  <1> QED BY <1>3, <1>6

\* The m newest of the first p entries, newest first.
Backwards(L, p, m) == [k \in 1 .. m |-> L[p + 1 - k]]

\* The number of rows that a limit leaves of n.
Capped(limit, n) == IF limit < n THEN limit ELSE n

\* Entries read backwards are a sequence of that length.
LEMMA BackwardsIs ==
    ASSUME NEW S, NEW L \in Seq(S), NEW p \in 0 .. Len(L), NEW m \in 0 .. p
    PROVE  /\ Backwards(L, p, m) \in Seq(S) /\ Len(Backwards(L, p, m)) = m
           /\ \A k \in 1 .. m : Backwards(L, p, m)[k] = L[p + 1 - k]
  <1>1. \A k \in 1 .. m : p + 1 - k \in 1 .. Len(L)
    OBVIOUS
  <1>2. \A k \in 1 .. m : L[p + 1 - k] \in S
    BY <1>1, ElementOfSeq
  <1>3. PICK B : B = Backwards(L, p, m) OBVIOUS
  <1>4. B \in [1 .. m -> S] /\ m \in Nat /\ \A k \in 1 .. m : B[k] = L[p + 1 - k]
    BY <1>2, <1>3 DEF Backwards
  <1>5. B \in Seq(S)
    BY <1>4, SeqDef
  <1>6. Len(B) = m
    BY <1>4, <1>5
  <1> QED BY <1>3, <1>4, <1>5, <1>6

\* The beginning of entries read backwards.
LEMMA BackwardsPrefix ==
    ASSUME NEW S, NEW L \in Seq(S), NEW p \in 0 .. Len(L), NEW m \in 0 .. p, NEW h \in 0 .. m
    PROVE  SubSeq(Backwards(L, p, m), 1, h) = Backwards(L, p, h)
  <1>0. h \in 0 .. p OBVIOUS
  <1>1. PICK B, C : B = Backwards(L, p, m) /\ C = Backwards(L, p, h) OBVIOUS
  <1>2. B \in Seq(S) /\ Len(B) = m /\ \A k \in 1 .. m : B[k] = L[p + 1 - k]
    BY <1>1, BackwardsIs
  <1>3. C \in Seq(S) /\ Len(C) = h /\ \A k \in 1 .. h : C[k] = L[p + 1 - k]
    BY <1>0, <1>1, BackwardsIs
  <1>4. PICK D : D = SubSeq(B, 1, h) OBVIOUS
  <1>5. D \in Seq(S)
    BY <1>2, <1>4
  <1>6. Len(D) = h
    BY <1>2, <1>4
  <1>7. \A i \in 1 .. h : D[i] = B[i]
    BY <1>2, <1>4
  <1>8. \A i \in 1 .. h : D[i] = C[i]
    BY <1>2, <1>3, <1>7
  <1>9. D = C BY <1>3, <1>5, <1>6, <1>8, SeqEqual
  <1> QED BY <1>1, <1>4, <1>9

\* Reading on where one stopped.
LEMMA BackwardsJoin ==
    ASSUME NEW S, NEW L \in Seq(S), NEW p \in 0 .. Len(L), NEW g \in 0 .. p,
           NEW m \in 0 .. p - g
    PROVE  Backwards(L, p, g) \o Backwards(L, p - g, m) = Backwards(L, p, g + m)
  <1>1. PICK B, C, D : /\ B = Backwards(L, p, g) /\ C = Backwards(L, p - g, m)
                       /\ D = Backwards(L, p, g + m)
    OBVIOUS
  <1>2. B \in Seq(S) /\ Len(B) = g /\ \A k \in 1 .. g : B[k] = L[p + 1 - k]
    BY <1>1, BackwardsIs
  <1>3. C \in Seq(S) /\ Len(C) = m /\ \A k \in 1 .. m : C[k] = L[p - g + 1 - k]
    <2>1. p - g \in 0 .. Len(L) OBVIOUS
    <2> QED BY <1>1, <2>1, BackwardsIs
  <1>4. D \in Seq(S) /\ Len(D) = g + m /\ \A k \in 1 .. g + m : D[k] = L[p + 1 - k]
    <2>1. g + m \in 0 .. p OBVIOUS
    <2> QED BY <1>1, <2>1, BackwardsIs
  <1>5. PICK E : E = B \o C OBVIOUS
  <1>6. /\ E \in Seq(S) /\ Len(E) = g + m
        /\ \A i \in 1 .. g + m : E[i] = IF i <= g THEN B[i] ELSE C[i - g]
    <2>1. /\ E \in Seq(S) /\ Len(E) = Len(B) + Len(C)
          /\ \A i \in 1 .. Len(B) + Len(C) :
                E[i] = IF i <= Len(B) THEN B[i] ELSE C[i - Len(B)]
      BY <1>2, <1>3, <1>5, ConcatProperties
    <2> QED BY <1>2, <1>3, <2>1
  <1>7. ASSUME NEW i \in 1 .. g + m PROVE E[i] = D[i]
    <2>1. CASE i <= g
      BY <1>2, <1>4, <1>6, <2>1
    <2>2. CASE ~(i <= g)
      <3>1. i - g \in 1 .. m /\ p - g + 1 - (i - g) = p + 1 - i
        BY <2>2
      <3>2. C[i - g] = L[p - g + 1 - (i - g)]
        BY <1>3, <3>1
      <3>3. E[i] = C[i - g] BY <1>6, <2>2
      <3> QED BY <1>4, <3>1, <3>2, <3>3
    <2> QED BY <2>1, <2>2
  <1>8. E = D BY <1>4, <1>6, <1>7, SeqEqual
  <1> QED BY <1>1, <1>5, <1>8

\* What is left of p rows that were asked for with one more than the limit.
LEMMA PageIs ==
    ASSUME NEW S, NEW L \in Seq(S), NEW p \in 0 .. Len(L), NEW limit \in Nat \ {0}, NEW w,
           NEW rows, rows = Backwards(L, p, Capped(limit + 1, p))
    PROVE  /\ PageOf(rows, limit) = Backwards(L, p, Capped(limit, p))
           /\ NextCursor(w, rows, limit) =
                 IF p > limit THEN [wallet |-> w, version |-> L[p + 1 - limit].version]
                 ELSE None
  <1>0. PICK m : m = Capped(limit + 1, p) OBVIOUS
  <1>1. m \in 0 .. p /\ (p > limit => m = limit + 1) /\ (~(p > limit) => m = p)
    BY <1>0 DEF Capped
  <1>2. /\ Len(rows) = m /\ \A k \in 1 .. m : rows[k] = L[p + 1 - k]
    BY <1>0, <1>1, BackwardsIs
  <1>3. Len(rows) > limit <=> p > limit
    BY <1>1, <1>2
  <1>4. p > limit => rows[limit] = L[p + 1 - limit]
    BY <1>1, <1>2
  <1>5. PICK h : h = Capped(limit, p) OBVIOUS
  <1>6. h \in 0 .. m /\ h = IF limit < Len(rows) THEN limit ELSE Len(rows)
    BY <1>1, <1>2, <1>5 DEF Capped
  <1>7. PageOf(rows, limit) = Backwards(L, p, h)
    BY <1>0, <1>1, <1>6, BackwardsPrefix DEF PageOf
  <1> QED BY <1>3, <1>4, <1>5, <1>7 DEF NextCursor

-----------------------------------------------------------------------------
\* What a reader holds.
ReaderView ==
    [wallet : Wallets \cup {None}, limit : Nat, cursor : Cursor \cup {None},
     given : Seq(Entry), first : Seq(Entry) \cup {None}, known : Known \cup {None},
     stored : Money \cup {None}, checked : Nat,
     verdict : {"consistent", "mismatch", "overflow", "not found", None}]

\* A page is asked for with a wallet and a limit, a reconciliation with a wallet.
Asked(v, at) == /\ at \in {"wallet", "entries", "snapshot"} => v.wallet \in Wallets
                /\ at \in {"wallet", "entries"} => v.limit # 0

\* The pages given are the g newest of the n entries that were there when the first
\* page was read, and the cursor stands at the last of them.
PagedTo(v, at, L, n, g) ==
    /\ v.wallet \in Wallets
    /\ v.first = Backwards(L, n, n) /\ v.given = Backwards(L, n, g)
    /\ v.cursor = None => g = n /\ at = "end"
    /\ v.cursor # None => /\ 0 < g /\ g < n
                          /\ v.cursor = [wallet |-> v.wallet, version |-> L[n + 1 - g].version]
                          /\ at \in {"gap", "wallet", "entries"}

Paged(v, at, L) ==
    IF v.first = None THEN v.given = <<>> /\ v.cursor = None /\ at # "gap"
    ELSE \E n \in 0 .. Len(L) : \E g \in 0 .. n : PagedTo(v, at, L, n, g)

\* The entry that left the balance which a reader knows is in the listing it reads.
Informed(v, L) ==
    v.known # None =>
        /\ v.wallet \in Wallets
        /\ \/ v.known = [version |-> 1, balance |-> 0]
           \/ \E i \in 1 .. Len(L) : /\ L[i].version = v.known.version
                                     /\ L[i].after = v.known.balance
                                     /\ v.first # None => i <= Len(v.first)

\* A reconciliation has found the balance that the entries it counted left.
Judged(v, at, L) ==
    /\ v.verdict # None => at = "end"
    /\ v.verdict \notin {None, "not found"} =>
          /\ v.wallet \in Wallets /\ v.verdict = "consistent" /\ v.checked \in 0 .. Len(L)
          /\ v.stored = IF v.checked = 0 THEN 0 ELSE L[v.checked].after

ReaderInv(v, at, L) == Asked(v, at) /\ Paged(v, at, L) /\ Informed(v, L) /\ Judged(v, at, L)

\* The strengthening of ReadsAgree and ReconciliationFindsNoFault.
ReadInv == /\ call = [c \in Readers |-> call[c]] /\ view \in [Readers -> ReaderView]
           /\ \A c \in Readers : ReaderInv(view[c], call[c], ledger[view[c].wallet])

-----------------------------------------------------------------------------
\* The versions of a ledger grow, entry by entry.
LEMMA VersionsGrow ==
    ASSUME SafetyInv, EffectInv, NEW w \in Wallets, NEW L, L = ledger[w]
    PROVE  /\ L \in Seq(Entry) /\ Len(L) \in Nat /\ DOMAIN L = 1 .. Len(L)
           /\ \A i \in 1 .. Len(L) : L[i] \in Entry /\ L[i].version \in Nat
           /\ \A i, j \in 1 .. Len(L) : i < j => L[i].version < L[j].version
  <1>1. L \in Seq(Entry) /\ Len(L) \in Nat /\ DOMAIN L = 1 .. Len(L)
    BY DEF SafetyInv, TypeOK
  <1>2. \A i \in 1 .. Len(L) : L[i] \in Entry /\ L[i].version \in Nat
    <2>1. \A e \in Entry : e.version \in Nat BY DEF Entry
    <2>2. \A i \in 1 .. Len(L) : L[i] \in Entry BY <1>1, ElementOfSeq
    <2> QED BY <2>1, <2>2
  <1>3. ASSUME NEW i \in 1 .. Len(L), NEW j \in 1 .. Len(L), i < j
        PROVE  L[i].version < L[j].version
    <2>1. w \in DOMAIN wallets
      <3>1. L # <<>> BY <1>1, <1>3
      <3> QED BY <3>1 DEF SafetyInv, LedgerContinuity
    <2>2. wallets[w].version \in Nat
      BY <2>1 DEF SafetyInv, TypeOK, Wallet
    <2>3. /\ L[i].version + Len(L) = wallets[w].version + i
          /\ L[j].version + Len(L) = wallets[w].version + j
      BY <1>1 DEF EffectInv, EntryInv
    <2>4. PICK x \in Nat, y \in Nat, z \in Nat, n \in Nat :
             x = L[i].version /\ y = L[j].version /\ z = wallets[w].version /\ n = Len(L)
      BY <1>1, <1>2, <2>2
    <2>5. x + n = z + i /\ y + n = z + j /\ i \in Int /\ j \in Int
      BY <2>3, <2>4
    <2>6. x < y BY <1>3, <2>5
    <2> QED BY <2>4, <2>6
  <1> QED BY <1>1, <1>2, <1>3

\* ListByWallet reads backwards from the newest entry, or from the one before the cursor.
LEMMA ListingIs ==
    ASSUME SafetyInv, EffectInv, NEW w \in Wallets, NEW L, L = ledger[w],
           NEW p \in 0 .. Len(L), NEW limit \in Nat, NEW cursor,
           \/ cursor = None /\ p = Len(L)
           \/ cursor # None /\ p < Len(L) /\ cursor.version = L[p + 1].version
    PROVE  ListByWallet(w, cursor, limit) = Backwards(L, p, Capped(limit, p))
  <1>1. /\ L \in Seq(Entry) /\ Len(L) \in Nat /\ DOMAIN L = 1 .. Len(L)
        /\ \A i \in 1 .. Len(L) : L[i].version \in Nat
        /\ \A i, j \in 1 .. Len(L) : i < j => L[i].version < L[j].version
    BY VersionsGrow
  <1>2. ASSUME NEW i \in 1 .. Len(L)
        PROVE  cursor = None \/ L[i].version < cursor.version <=> i <= p
    <2>1. CASE cursor = None BY <1>1, <2>1
    <2>2. CASE cursor # None
      <3>1. p + 1 \in 1 .. Len(L) BY <1>1, <2>2
      <3>2. PICK x \in Nat, y \in Nat : x = L[i].version /\ y = L[p + 1].version
        BY <1>1, <3>1
      <3>3. i < p + 1 => x < y BY <1>1, <3>1, <3>2
      <3>4. p + 1 < i => y < x BY <1>1, <3>1, <3>2
      <3>5. i = p + 1 => x = y BY <3>2
      <3>6. x < y <=> i <= p BY <3>1, <3>2, <3>3, <3>4, <3>5
      <3> QED BY <2>2, <3>2, <3>6
    <2> QED BY <2>1, <2>2
  <1>3. {j \in DOMAIN L : cursor = None \/ L[j].version < cursor.version} = 1 .. p
    BY <1>1, <1>2
  <1>4. ListByWallet(w, cursor, limit) = Newest({L[i] : i \in 1 .. p}, limit)
    BY <1>3 DEF ListByWallet
  <1>5. p \in Nat /\ Growing(L, p)
    BY <1>1 DEF Growing
  <1>6. Newest({L[i] : i \in 1 .. p}, limit)
          = [k \in 1 .. (IF limit < p THEN limit ELSE p) |-> L[p + 1 - k]]
    BY <1>5, NewestAreLast
  <1> QED BY <1>4, <1>6 DEF Backwards, Capped

\* The sum of a wallet's entries is its balance.
LEMMA SumIsBalance ==
    ASSUME SafetyInv, NEW w \in Wallets, w \in DOMAIN wallets
    PROVE  /\ Sum(ledger[w]) = wallets[w].balance /\ wallets[w].balance \in Money
           /\ Len(ledger[w]) \in Nat
           /\ wallets[w].balance = IF Len(ledger[w]) = 0 THEN 0
                                   ELSE ledger[w][Len(ledger[w])].after
  <1>1. PICK L, n : L = ledger[w] /\ n = Len(L) OBVIOUS
  <1>2. L \in Seq(Entry) /\ n \in Nat /\ DOMAIN L = 1 .. n
    BY <1>1 DEF SafetyInv, TypeOK
  <1>3. wallets[w].balance \in Money
    BY DEF SafetyInv, TypeOK, Wallet
  <1>4. \A i \in 1 .. n :
           /\ L[i].after = Moved(L[i].direction, L[i].before, L[i].amount)
           /\ i = 1 => L[i].before = 0
           /\ i > 1 => L[i].before = L[i - 1].after
    BY <1>1, <1>2 DEF SafetyInv, LedgerContinuity
  <1>5. IF L = <<>> THEN wallets[w].balance = 0 ELSE wallets[w].balance = L[Len(L)].after
    BY <1>1 DEF SafetyInv, LedgerContinuity
  <1>6. PICK h : h = [i \in 0 .. n |-> IF i = 0 THEN 0 ELSE L[i].after] OBVIOUS
  <1>7. h = [i \in 0 .. n |-> h[i]] /\ h[0] = 0
    BY <1>2, <1>6
  <1>8. ASSUME NEW i \in 1 .. n PROVE h[i] = Moved(L[i].direction, h[i - 1], L[i].amount)
    <2>1. i \in 0 .. n /\ i # 0 /\ i - 1 \in 0 .. n
      BY <1>2
    <2>2. h[i] = L[i].after
      BY <1>6, <2>1
    <2>3. h[i - 1] = L[i].before
      <3>1. CASE i = 1 BY <1>4, <1>7, <3>1
      <3>2. CASE i # 1
        <4>1. i > 1 /\ i - 1 # 0 BY <3>2
        <4> QED BY <1>4, <1>6, <2>1, <4>1
      <3> QED BY <3>1, <3>2
    <2> QED BY <1>4, <2>2, <2>3
  <1>9. Sum(L) = h[n]
    <2>1. RunningSum(h, L, n) BY <1>7, <1>8 DEF RunningSum
    <2> QED BY <1>1, <1>2, <2>1, SumOfChain
  <1>10. L = <<>> <=> n = 0
    BY <1>1, <1>2
  <1>11. h[n] = IF n = 0 THEN 0 ELSE L[n].after
    BY <1>2, <1>6
  <1> QED BY <1>1, <1>2, <1>3, <1>5, <1>9, <1>10, <1>11

-----------------------------------------------------------------------------
\* M is L with entries appended.
Grown(L, M) == Len(L) <= Len(M) /\ \A i \in 1 .. Len(L) : M[i] = L[i]

\* What a reader holds stays true while entries are appended.
LEMMA ReaderKeeps ==
    ASSUME NEW v \in ReaderView, NEW at, NEW L \in Seq(Entry), NEW M \in Seq(Entry),
           Grown(L, M), ReaderInv(v, at, L)
    PROVE  ReaderInv(v, at, M)
  <1>0. PICK a \in Nat, b \in Nat : a = Len(L) /\ b = Len(M) OBVIOUS
  <1>1. a <= b /\ \A i \in 1 .. a : M[i] = L[i]
    BY <1>0 DEF Grown
  <1>2. Paged(v, at, M)
    <2>1. CASE v.first = None BY <2>1 DEF ReaderInv, Paged
    <2>2. CASE v.first # None
      <3>0. PICK n \in 0 .. a : \E g \in 0 .. n : PagedTo(v, at, L, n, g)
        BY <1>0, <2>2 DEF ReaderInv, Paged
      <3>1. PICK g \in 0 .. n : PagedTo(v, at, L, n, g) BY <3>0
      <3>2. \A m \in 0 .. n : Backwards(M, n, m) = Backwards(L, n, m)
        <4> SUFFICES ASSUME NEW m \in 0 .. n PROVE Backwards(M, n, m) = Backwards(L, n, m)
          OBVIOUS
        <4>1. \A k \in 1 .. m : n + 1 - k \in 1 .. a OBVIOUS
        <4>2. \A k \in 1 .. m : M[n + 1 - k] = L[n + 1 - k] BY <1>1, <4>1
        <4> QED BY <4>2 DEF Backwards
      <3>3. 0 < g => M[n + 1 - g] = L[n + 1 - g]
        <4>1. 0 < g => n + 1 - g \in 1 .. a OBVIOUS
        <4> QED BY <1>1, <4>1
      <3>4. n \in 0 .. n /\ n \in 0 .. Len(M) BY <1>0, <1>1
      <3>5. PagedTo(v, at, M, n, g)
        BY <3>1, <3>2, <3>3, <3>4 DEF PagedTo
      <3> QED BY <2>2, <3>4, <3>5 DEF Paged
    <2> QED BY <2>1, <2>2
  <1>3. Informed(v, M)
    <2>1. \A i \in 1 .. a : i \in 1 .. b BY <1>1
    <2> QED BY <1>0, <1>1, <2>1 DEF ReaderInv, Informed
  <1>4. Judged(v, at, M)
    <2>1. \A i \in 0 .. a : i \in 0 .. b /\ (i # 0 => M[i] = L[i]) BY <1>1
    <2> QED BY <1>0, <2>1 DEF ReaderInv, Judged
  <1> QED BY <1>2, <1>3, <1>4 DEF ReaderInv

\* Without a wallet a reader holds nothing that depends on a ledger.
LEMMA ReaderOfNone ==
    ASSUME NEW v \in ReaderView, v.wallet \notin Wallets, NEW at, NEW L, NEW M,
           ReaderInv(v, at, L)
    PROVE  ReaderInv(v, at, M)
  BY DEF ReaderInv, Paged, PagedTo, Informed, Judged

\* The writers leave every reader with what it holds.
LEMMA WritersKeepReads ==
    ASSUME SafetyInv, TypeOK', ReadInv, [Next]_vars, UNCHANGED readVars
    PROVE  ReadInv'
  <1>1. view' = view /\ call' = call BY DEF readVars
  <1>2. ASSUME NEW c \in Readers PROVE ReaderInv(view[c], call[c], ledger'[view[c].wallet])
    <2>1. PICK v \in ReaderView : v = view[c] /\ ReaderInv(v, call[c], ledger[v.wallet])
      BY DEF ReadInv
    <2>2. CASE v.wallet \in Wallets
      <3>1. PICK L \in Seq(Entry), M \in Seq(Entry) :
               L = ledger[v.wallet] /\ M = ledger'[v.wallet]
        BY <2>2 DEF SafetyInv, TypeOK
      <3>2. \A i \in 1 .. Len(L) : i \in 1 .. Len(M) /\ M[i] = L[i]
        BY <2>2, <3>1, LedgerGrows
      <3>3. Len(L) <= Len(M)
        <4>1. PICK a \in Nat, b \in Nat : a = Len(L) /\ b = Len(M) OBVIOUS
        <4>2. a # 0 => a \in 1 .. b BY <3>2, <4>1
        <4> QED BY <4>1, <4>2
      <3>4. Grown(L, M) BY <3>2, <3>3 DEF Grown
      <3> QED BY <2>1, <3>1, <3>4, ReaderKeeps
    <2>3. CASE v.wallet \notin Wallets
      BY <2>1, <2>3, ReaderOfNone
    <2> QED BY <2>2, <2>3
  <1> QED BY <1>1, <1>2 DEF ReadInv

\* A step of one reader concerns this reader.
LEMMA OneReads ==
    ASSUME ReadInv, UNCHANGED vars, NEW c \in Readers, NEW x \in ReaderView, NEW l,
           view' = [view EXCEPT ![c] = x], call' = [call EXCEPT ![c] = l],
           ReaderInv(x, l, ledger[x.wallet])
    PROVE  ReadInv'
  <1>1. ledger' = ledger BY DEF vars, tables
  <1>2. view' \in [Readers -> ReaderView] /\ call' = [d \in Readers |-> call'[d]]
    BY DEF ReadInv
  <1>3. ASSUME NEW d \in Readers PROVE ReaderInv(view'[d], call'[d], ledger'[view'[d].wallet])
    <2>1. CASE d = c
      <3>1. view'[d] = x /\ call'[d] = l BY <2>1 DEF ReadInv
      <3> QED BY <1>1, <3>1
    <2>2. CASE d # c
      <3>1. view'[d] = view[d] /\ call'[d] = call[d] BY <2>2 DEF ReadInv
      <3>2. ReaderInv(view[d], call[d], ledger[view[d].wallet]) BY DEF ReadInv
      <3> QED BY <1>1, <3>1, <3>2
    <2> QED BY <2>1, <2>2
  <1> QED BY <1>2, <1>3 DEF ReadInv

\* A page or a reconciliation that is asked for changes nothing that is held.
LEMMA AskKeepsReads ==
    ASSUME ReadInv, NEW c \in Readers, NEW w \in Wallets,
           (\E limit \in Limits : AskPage(c, w, limit)) \/ AskReconciliation(c, w)
    PROVE  ReadInv'
  <1>0. PICK v, at : /\ v = view[c] /\ at = call[c] /\ v \in ReaderView
                     /\ ReaderInv(v, at, ledger[v.wallet])
    BY DEF ReadInv
  <1>1. CASE \E limit \in Limits : AskPage(c, w, limit)
    <2>1. PICK limit \in Limits : AskPage(c, w, limit) BY <1>1
    <2>2. limit \in Nat /\ limit # 0 BY ReadersAssumption
    <2>3. PICK x : x = [v EXCEPT !.wallet = w, !.limit = limit] OBVIOUS
    <2>4. /\ x \in ReaderView /\ x.wallet = w /\ x.limit = limit
          /\ x.cursor = v.cursor /\ x.given = v.given /\ x.first = v.first
          /\ x.known = v.known /\ x.verdict = v.verdict /\ x.checked = v.checked
          /\ x.stored = v.stored
      BY <1>0, <2>2, <2>3 DEF ReaderView
    <2>5. /\ view' = [view EXCEPT ![c] = x] /\ call' = [call EXCEPT ![c] = "wallet"]
          /\ UNCHANGED vars
      <3>1. view' = [view EXCEPT ![c].wallet = w, ![c].limit = limit]
        BY <2>1 DEF AskPage
      <3>2. view' = [view EXCEPT ![c] = [view[c] EXCEPT !.wallet = w, !.limit = limit]]
        BY <3>1
      <3> QED BY <1>0, <2>1, <2>3, <3>2 DEF AskPage
    <2>6. /\ at \in {"idle", "gap"}
          /\ v.cursor # None => v.cursor.wallet = w
          /\ v.known # None => v.wallet = w
      BY <1>0, <2>1 DEF AskPage
    <2>7. v.verdict = None
      BY <1>0, <2>6 DEF ReaderInv, Judged
    <2>8. Asked(x, "wallet") BY <2>2, <2>4 DEF Asked
    <2>9. Judged(x, "wallet", ledger[w]) BY <2>4, <2>7 DEF Judged
    <2>10. Informed(x, ledger[w])
      BY <1>0, <2>4, <2>6 DEF ReaderInv, Informed
    <2>11. Paged(x, "wallet", ledger[w])
      <3>1. CASE v.first = None
        BY <1>0, <2>4, <3>1 DEF ReaderInv, Paged
      <3>2. CASE v.first # None
        <4>0. PICK n \in 0 .. Len(ledger[v.wallet]) : \E g \in 0 .. n :
                 PagedTo(v, at, ledger[v.wallet], n, g)
          BY <1>0, <3>2 DEF ReaderInv, Paged
        <4>1. PICK g \in 0 .. n : PagedTo(v, at, ledger[v.wallet], n, g) BY <4>0
        <4>2. v.cursor # None BY <2>6, <4>1 DEF PagedTo
        <4>3. v.wallet = w BY <2>6, <4>1, <4>2 DEF PagedTo
        <4>4. PagedTo(x, "wallet", ledger[w], n, g)
          BY <2>4, <4>1, <4>2, <4>3 DEF PagedTo
        <4> QED BY <2>4, <3>2, <4>3, <4>4 DEF Paged
      <3> QED BY <3>1, <3>2
    <2>12. ReaderInv(x, "wallet", ledger[x.wallet])
      BY <2>4, <2>8, <2>9, <2>10, <2>11 DEF ReaderInv
    <2> QED BY <2>4, <2>5, <2>12, OneReads
  <1>2. CASE AskReconciliation(c, w)
    <2>3. PICK x : x = [v EXCEPT !.wallet = w] OBVIOUS
    <2>4. /\ x \in ReaderView /\ x.wallet = w
          /\ x.cursor = v.cursor /\ x.given = v.given /\ x.first = v.first
          /\ x.known = v.known /\ x.verdict = v.verdict
      BY <1>0, <2>3 DEF ReaderView
    <2>5. /\ view' = [view EXCEPT ![c] = x] /\ call' = [call EXCEPT ![c] = "snapshot"]
          /\ UNCHANGED vars /\ at = "idle" /\ v.known = None
      BY <1>0, <1>2, <2>3 DEF AskReconciliation, ReadInv
    <2>6. v.verdict = None /\ v.first = None
      BY <1>0, <2>5 DEF ReaderInv, Judged, Paged, PagedTo
    <2>7. ReaderInv(x, "snapshot", ledger[x.wallet])
      BY <1>0, <2>4, <2>5, <2>6 DEF ReaderInv, Asked, Paged, Informed, Judged
    <2> QED BY <2>4, <2>5, <2>7, OneReads
  <1> QED BY <1>1, <1>2

\* A wallet that is missing and a page that is lost leave a reader where it was: a
\* wallet of which a page was read has not gone.
LEMMA LossKeepsReads ==
    ASSUME SafetyInv, ReadInv, NEW c \in Readers, FindWallet(c) \/ PageLost(c)
    PROVE  ReadInv'
  <1>0. PICK v, at : /\ v = view[c] /\ at = call[c] /\ v \in ReaderView
                     /\ ReaderInv(v, at, ledger[v.wallet])
    BY DEF ReadInv
  <1>1. at \in {"wallet", "entries"}
    BY <1>0 DEF FindWallet, PageLost
  <1>2. v.wallet \in Wallets /\ v.limit # 0 /\ v.verdict = None
    BY <1>0, <1>1 DEF ReaderInv, Asked, Judged
  <1>3. PICK L : L = ledger[v.wallet] /\ L \in Seq(Entry)
    BY <1>2 DEF SafetyInv, TypeOK
  <1>4. v.first # None =>
           \E n \in 0 .. Len(L) : \E g \in 0 .. n :
              0 < g /\ g < n /\ v.cursor # None /\ PagedTo(v, at, L, n, g)
    BY <1>0, <1>1, <1>3 DEF ReaderInv, Paged, PagedTo
  <1>5. v.first # None => v.wallet \in DOMAIN wallets
    <2> SUFFICES ASSUME v.first # None PROVE v.wallet \in DOMAIN wallets OBVIOUS
    <2>1. PICK n \in 0 .. Len(L) : \E g \in 0 .. n : 0 < g /\ g < n BY <1>4
    <2>2. L # <<>> BY <1>3, <2>1
    <2> QED BY <1>2, <1>3, <2>2 DEF SafetyInv, LedgerContinuity
  <1>6. v.first = None => v.cursor = None /\ v.given = <<>>
    BY <1>0 DEF ReaderInv, Paged
  <1>7. PICK l : /\ call' = [call EXCEPT ![c] = l] /\ l \in {"entries", "idle", "gap"}
                 /\ v.first = None => l # "gap"
                 /\ v.first # None => l # "idle"
    <2>1. CASE FindWallet(c) BY <1>0, <1>5, <2>1 DEF FindWallet
    <2>2. CASE PageLost(c) BY <1>0, <1>4, <1>6, <2>2 DEF PageLost
    <2> QED BY <2>1, <2>2
  <1>8. view' = [view EXCEPT ![c] = v] /\ UNCHANGED vars
    BY <1>0 DEF FindWallet, PageLost, ReadInv
  <1>9. Paged(v, l, L)
    <2>1. CASE v.first = None BY <1>6, <1>7, <2>1 DEF Paged
    <2>2. CASE v.first # None
      <3>1. PICK n \in 0 .. Len(L) : \E g \in 0 .. n :
               v.cursor # None /\ PagedTo(v, at, L, n, g)
        BY <1>4, <2>2
      <3>2. PICK g \in 0 .. n : v.cursor # None /\ PagedTo(v, at, L, n, g) BY <3>1
      <3>3. PagedTo(v, l, L, n, g) BY <1>7, <2>2, <3>2 DEF PagedTo
      <3> QED BY <2>2, <3>3 DEF Paged
    <2> QED BY <2>1, <2>2
  <1>10. ReaderInv(v, l, ledger[v.wallet])
    BY <1>0, <1>2, <1>3, <1>7, <1>9 DEF ReaderInv, Asked, Judged
  <1> QED BY <1>0, <1>7, <1>8, <1>10, OneReads

\* The balance of a wallet is what its last entry left.
LEMMA WalletReadIsTrue ==
    ASSUME SafetyInv, ReadInv, NEW c \in Readers, NEW w \in Wallets, ReadWallet(c, w)
    PROVE  ReadInv'
  <1>0. PICK v, at : /\ v = view[c] /\ at = call[c] /\ v \in ReaderView
                     /\ ReaderInv(v, at, ledger[v.wallet])
    BY DEF ReadInv
  <1>1. at = "idle" /\ w \in DOMAIN wallets /\ v.known = None
    BY <1>0 DEF ReadWallet
  <1>2. PICK k : k = [version |-> wallets[w].version, balance |-> wallets[w].balance]
    OBVIOUS
  <1>3. k \in Known /\ k # None
    <2>1. k \in Known BY <1>1, <1>2 DEF SafetyInv, TypeOK, Wallet, Known
    <2> QED BY <2>1, ReadersAssumption
  <1>4. PICK x : x = [v EXCEPT !.wallet = w, !.known = k] OBVIOUS
  <1>5. /\ x \in ReaderView /\ x.wallet = w /\ x.known = k /\ x.limit = v.limit
        /\ x.cursor = v.cursor /\ x.given = v.given /\ x.first = v.first
        /\ x.verdict = v.verdict
    BY <1>0, <1>3, <1>4 DEF ReaderView
  <1>6. /\ view' = [view EXCEPT ![c] = x] /\ call' = [call EXCEPT ![c] = "idle"]
        /\ UNCHANGED vars
    <2>1. /\ view' = [view EXCEPT ![c].wallet = w, ![c].known = k]
          /\ UNCHANGED <<call, vars>>
      BY <1>2 DEF ReadWallet
    <2>2. view' = [view EXCEPT ![c] = [view[c] EXCEPT !.wallet = w, !.known = k]]
      BY <2>1
    <2>3. call' = [call EXCEPT ![c] = "idle"]
      BY <1>0, <1>1, <2>1 DEF ReadInv
    <2> QED BY <1>0, <1>4, <2>1, <2>2, <2>3
  <1>7. v.first = None /\ v.verdict = None /\ v.cursor = None /\ v.given = <<>>
    BY <1>0, <1>1 DEF ReaderInv, Paged, PagedTo, Judged
  <1>8. PICK L \in Seq(Entry), n \in Nat : L = ledger[w] /\ n = Len(L)
    <2>1. ledger[w] \in Seq(Entry) BY DEF SafetyInv, TypeOK
    <2> QED BY <2>1
  <1>9. IF n = 0 THEN k = [version |-> 1, balance |-> 0]
        ELSE L[n].version = k.version /\ L[n].after = k.balance
    <2>1. L = <<>> <=> n = 0 BY <1>8
    <2> QED BY <1>1, <1>2, <1>8, <2>1 DEF SafetyInv, LedgerContinuity
  <1>10. Informed(x, L)
    <2>1. n # 0 => n \in 1 .. Len(L) BY <1>8
    <2> QED BY <1>5, <1>7, <1>9, <2>1 DEF Informed
  <1>11. ReaderInv(x, "idle", ledger[x.wallet])
    BY <1>5, <1>7, <1>8, <1>10 DEF ReaderInv, Asked, Paged, Judged
  <1> QED BY <1>5, <1>6, <1>11, OneReads

\* One statement sees a balance and the sum of exactly the entries that led to it.
LEMMA SnapshotIsConsistent ==
    ASSUME SafetyInv, ReadInv, NEW c \in Readers, Snapshot(c)
    PROVE  ReadInv'
  <1>0. PICK v, at, w : /\ v = view[c] /\ at = call[c] /\ v \in ReaderView /\ w = v.wallet
                        /\ ReaderInv(v, at, ledger[w])
    BY DEF ReadInv
  <1>1. at = "snapshot" /\ w \in Wallets
    BY <1>0 DEF Snapshot, ReaderInv, Asked
  <1>2. v.verdict = None /\ v.first = None /\ v.cursor = None /\ v.given = <<>>
    BY <1>0, <1>1 DEF ReaderInv, Paged, PagedTo, Judged
  <1>3. CASE w \notin DOMAIN wallets
    <2>1. PICK x : x = [v EXCEPT !.verdict = "not found"] OBVIOUS
    <2>2. /\ x \in ReaderView /\ x.wallet = w /\ x.known = v.known
          /\ x.cursor = None /\ x.given = <<>> /\ x.first = None /\ x.verdict = "not found"
      BY <1>0, <1>2, <2>1 DEF ReaderView
    <2>3. /\ view' = [view EXCEPT ![c] = x] /\ call' = [call EXCEPT ![c] = "end"]
          /\ UNCHANGED vars
      <3>1. view' = [view EXCEPT ![c].verdict = "not found"]
        BY <1>0, <1>3 DEF Snapshot
      <3> QED BY <1>0, <2>1, <3>1 DEF Snapshot
    <2>4. Informed(x, ledger[w])
      BY <1>0, <1>2, <2>2 DEF ReaderInv, Informed
    <2>5. ReaderInv(x, "end", ledger[x.wallet])
      BY <2>2, <2>4 DEF ReaderInv, Asked, Paged, Judged
    <2> QED BY <2>2, <2>3, <2>5, OneReads
  <1>4. CASE w \in DOMAIN wallets
    <2>1. PICK b, n : b = wallets[w].balance /\ n = Len(ledger[w]) OBVIOUS
    <2>2. /\ Sum(ledger[w]) = b /\ b \in Money /\ n \in Nat
          /\ b = IF n = 0 THEN 0 ELSE ledger[w][n].after
      BY <1>1, <1>4, <2>1, SumIsBalance
    <2>3. Judge(b, b) = "consistent"
      <3>1. b \in Int /\ b >= 0 /\ b <= MaxMoney /\ MaxMoney \in Nat
        BY <2>2, MaxMoneyAssumption DEF Money
      <3>2. b \in Int64 /\ b - b \in Int64
        BY <3>1 DEF Int64
      <3> QED BY <3>2 DEF Judge
    <2>4. PICK x : x = [v EXCEPT !.stored = b, !.checked = n, !.verdict = "consistent"]
      OBVIOUS
    <2>5. /\ x \in ReaderView /\ x.wallet = w /\ x.known = v.known
          /\ x.cursor = None /\ x.given = <<>> /\ x.first = None
          /\ x.verdict = "consistent" /\ x.stored = b /\ x.checked = n
      BY <1>0, <1>2, <2>2, <2>4 DEF ReaderView
    <2>6. /\ view' = [view EXCEPT ![c] = x] /\ call' = [call EXCEPT ![c] = "end"]
          /\ UNCHANGED vars
      <3>1. view' = [view EXCEPT ![c].stored = b, ![c].checked = n,
                                 ![c].verdict = "consistent"]
        BY <1>0, <1>4, <2>1, <2>2, <2>3 DEF Snapshot
      <3>2. view' = [view EXCEPT ![c] = [view[c] EXCEPT !.stored = b, !.checked = n,
                                                        !.verdict = "consistent"]]
        BY <3>1
      <3> QED BY <1>0, <2>4, <3>2 DEF Snapshot
    <2>7. Informed(x, ledger[w])
      BY <1>0, <1>2, <2>5 DEF ReaderInv, Informed
    <2>8. Judged(x, "end", ledger[w])
      <3>1. n \in 0 .. Len(ledger[w]) BY <2>1, <2>2
      <3> QED BY <1>1, <2>2, <2>5, <3>1 DEF Judged
    <2>9. ReaderInv(x, "end", ledger[x.wallet])
      BY <2>5, <2>7, <2>8 DEF ReaderInv, Asked, Paged
    <2> QED BY <2>5, <2>6, <2>9, OneReads
  <1> QED BY <1>3, <1>4

\* A page continues where the last one ended, whatever was appended since.
LEMMA PageContinues ==
    ASSUME SafetyInv, EffectInv, ReadInv, NEW c \in Readers, ReadPage(c)
    PROVE  ReadInv'
  <1>0. PICK v, at, w, limit :
           /\ v = view[c] /\ at = call[c] /\ v \in ReaderView /\ w = v.wallet
           /\ limit = v.limit /\ ReaderInv(v, at, ledger[w])
    BY DEF ReadInv
  <1>1. at = "entries" BY <1>0 DEF ReadPage
  <1>2. w \in Wallets /\ limit \in Nat \ {0} /\ v.verdict = None
    BY <1>0, <1>1 DEF ReaderInv, Asked, Judged, ReaderView
  <1>3. PICK L \in Seq(Entry), len \in Nat : L = ledger[w] /\ len = Len(L)
    <2>1. ledger[w] \in Seq(Entry) BY <1>2 DEF SafetyInv, TypeOK
    <2> QED BY <2>1
  \* n entries were there at the first page, g of them are given.
  <1>4. PICK n \in 0 .. len, g \in 0 .. len :
           /\ g <= n /\ v.given = Backwards(L, n, g)
           /\ v.first = None => v.cursor = None /\ g = 0 /\ n = len
           /\ v.first # None => /\ v.first = Backwards(L, n, n) /\ v.cursor # None
                                /\ 0 < g /\ g < n /\ v.cursor.version = L[n + 1 - g].version
    <2>1. CASE v.first = None
      <3>1. Backwards(L, len, 0) = <<>>
        BY <1>3, BackwardsIs
      <3>2. v.given = <<>> /\ v.cursor = None
        BY <1>0, <2>1 DEF ReaderInv, Paged
      <3>3. len \in 0 .. len /\ 0 \in 0 .. len /\ 0 <= len OBVIOUS
      <3> QED BY <2>1, <3>1, <3>2, <3>3
    <2>2. CASE v.first # None
      <3>1. PICK n \in 0 .. len : \E g \in 0 .. n : PagedTo(v, at, L, n, g)
        BY <1>0, <1>3, <2>2 DEF ReaderInv, Paged
      <3>2. PICK g \in 0 .. n : PagedTo(v, at, L, n, g) BY <3>1
      <3>3. /\ v.first = Backwards(L, n, n) /\ v.given = Backwards(L, n, g)
            /\ v.cursor # None /\ 0 < g /\ g < n
            /\ v.cursor = [wallet |-> v.wallet, version |-> L[n + 1 - g].version]
        BY <1>1, <3>2 DEF PagedTo
      <3>4. v.cursor.version = L[n + 1 - g].version BY <3>3
      <3>5. n \in 0 .. len /\ g \in 0 .. len /\ g <= n OBVIOUS
      <3> QED BY <2>2, <3>3, <3>4, <3>5
    <2> QED BY <2>1, <2>2
  <1>5. PICK p \in Nat : p = n - g BY <1>4
  <1>6. PICK m \in Nat : m = Capped(limit, p)
    BY <1>2 DEF Capped
  <1>7. /\ p \in 0 .. len /\ m \in 0 .. p /\ g + m \in 0 .. n /\ n \in 0 .. len
        /\ p > limit => m = limit /\ g + m < n /\ 0 < g + m
        /\ ~(p > limit) => g + m = n
    BY <1>2, <1>4, <1>5, <1>6 DEF Capped
  <1>8. PICK rows : rows = ListByWallet(w, v.cursor, limit + 1) OBVIOUS
  <1>9. rows = Backwards(L, p, Capped(limit + 1, p))
    <2>1. \/ v.cursor = None /\ p = Len(L)
          \/ v.cursor # None /\ p < Len(L) /\ v.cursor.version = L[p + 1].version
      <3>1. CASE v.first = None BY <1>3, <1>4, <1>5, <3>1
      <3>2. CASE v.first # None
        <4>1. p + 1 = n + 1 - g /\ p < len BY <1>4, <1>5, <3>2
        <4> QED BY <1>3, <1>4, <3>2, <4>1
      <3> QED BY <3>1, <3>2
    <2>2. p \in 0 .. Len(L) /\ limit + 1 \in Nat BY <1>2, <1>3, <1>7
    <2> QED BY <1>2, <1>3, <1>8, <2>1, <2>2, ListingIs
  <1>10. /\ PageOf(rows, limit) = Backwards(L, p, m)
         /\ NextCursor(w, rows, limit) =
               IF p > limit THEN [wallet |-> w, version |-> L[p + 1 - limit].version]
               ELSE None
    <2>1. L \in Seq(Entry) /\ p \in 0 .. Len(L) /\ limit \in Nat \ {0}
      BY <1>2, <1>3, <1>7
    <2>2. /\ PageOf(rows, limit) = Backwards(L, p, Capped(limit, p))
          /\ NextCursor(w, rows, limit) =
                IF p > limit THEN [wallet |-> w, version |-> L[p + 1 - limit].version]
                ELSE None
      BY <1>9, <2>1, PageIs
    <2> QED BY <1>6, <2>2
  <1>11. PICK next : next = NextCursor(w, rows, limit) OBVIOUS
  <1>12. /\ p > limit => /\ next = [wallet |-> w, version |-> L[n + 1 - (g + m)].version]
                         /\ next \in Cursor /\ next # None
         /\ ~(p > limit) => next = None
    <2>1. CASE p > limit
      <3>1. p + 1 - limit = n + 1 - (g + m) BY <1>2, <1>4, <1>5, <1>7, <2>1
      <3>2. p + 1 - limit \in 1 .. Len(L) BY <1>2, <1>3, <1>7, <2>1
      <3>3. L[p + 1 - limit].version \in Nat
        <4>1. L[p + 1 - limit] \in Entry BY <3>2, ElementOfSeq
        <4> QED BY <4>1 DEF Entry
      <3>4. next = [wallet |-> w, version |-> L[p + 1 - limit].version]
        BY <1>10, <1>11, <2>1
      <3>5. next \in Cursor BY <1>2, <3>3, <3>4 DEF Cursor
      <3>6. next # None BY <3>5, ReadersAssumption
      <3> QED BY <2>1, <3>1, <3>4, <3>5, <3>6
    <2>2. CASE ~(p > limit) BY <1>10, <1>11, <2>2
    <2> QED BY <2>1, <2>2
  <1>13. PICK given : given = v.given \o PageOf(rows, limit) OBVIOUS
  <1>14. given = Backwards(L, n, g + m) /\ given \in Seq(Entry)
    <2>1. n \in 0 .. Len(L) /\ g \in 0 .. n /\ m \in 0 .. n - g
      BY <1>3, <1>4, <1>5, <1>7
    <2>2. Backwards(L, n, g) \o Backwards(L, n - g, m) = Backwards(L, n, g + m)
      BY <2>1, BackwardsJoin
    <2>3. given = Backwards(L, n, g + m) BY <1>4, <1>5, <1>10, <1>13, <2>2
    <2>4. Backwards(L, n, g + m) \in Seq(Entry) BY <1>7, <2>1, BackwardsIs
    <2> QED BY <2>3, <2>4
  <1>15. PICK first : first = IF v.first = None THEN ListByWallet(w, None, Len(L)) ELSE v.first
    OBVIOUS
  <1>16. /\ first = Backwards(L, n, n) /\ first \in Seq(Entry) /\ Len(first) = n
         /\ first # None
    <2>1. v.first = None => ListByWallet(w, None, Len(L)) = Backwards(L, n, n)
      <3> SUFFICES ASSUME v.first = None
                   PROVE  ListByWallet(w, None, Len(L)) = Backwards(L, n, n)
        OBVIOUS
      <3>1. len \in 0 .. Len(L) /\ len = Len(L) /\ Len(L) \in Nat BY <1>3
      <3>2. ListByWallet(w, None, Len(L)) = Backwards(L, len, Capped(Len(L), len))
        BY <1>2, <1>3, <3>1, ListingIs
      <3>3. Capped(Len(L), len) = len BY <3>1 DEF Capped
      <3> QED BY <1>4, <3>2, <3>3
    <2>2. first = Backwards(L, n, n) BY <1>4, <1>15, <2>1
    <2>3. n \in 0 .. Len(L) /\ n \in 0 .. n BY <1>3
    <2>4. Backwards(L, n, n) \in Seq(Entry) /\ Len(Backwards(L, n, n)) = n
      BY <2>3, BackwardsIs
    <2>5. first # None BY <2>2, <2>4, ReadersAssumption
    <2> QED BY <2>2, <2>4, <2>5
  <1>17. PICK x, l : /\ x = [v EXCEPT !.given = given, !.cursor = next, !.first = first]
                     /\ l = IF next = None THEN "end" ELSE "gap"
    OBVIOUS
  <1>18. /\ x \in ReaderView /\ x.wallet = w /\ x.known = v.known /\ x.verdict = v.verdict
         /\ x.given = given /\ x.cursor = next /\ x.first = first
    BY <1>0, <1>12, <1>14, <1>16, <1>17 DEF ReaderView
  <1>19. /\ view' = [view EXCEPT ![c] = x] /\ call' = [call EXCEPT ![c] = l]
         /\ UNCHANGED vars
    <2>1. /\ view' = [view EXCEPT
                ![c].given = @ \o PageOf(rows, limit), ![c].cursor = next,
                ![c].first = IF @ = None THEN ListByWallet(w, None, Len(L)) ELSE @]
          /\ call' = [call EXCEPT ![c] = l] /\ UNCHANGED vars
      BY <1>0, <1>3, <1>8, <1>11, <1>17 DEF ReadPage
    <2>2. view' = [view EXCEPT ![c] = [view[c] EXCEPT !.given = given, !.cursor = next,
                                                      !.first = first]]
      BY <1>0, <1>13, <1>15, <2>1
    <2> QED BY <1>0, <1>17, <2>1, <2>2
  <1>20. PagedTo(x, l, L, n, g + m)
    BY <1>2, <1>7, <1>12, <1>14, <1>16, <1>17, <1>18 DEF PagedTo
  <1>21. Paged(x, l, L)
    <2>1. n \in 0 .. Len(L) BY <1>3
    <2> QED BY <1>7, <1>16, <1>18, <1>20, <2>1 DEF Paged
  <1>22. Informed(x, L)
    <2>1. Informed(v, L) BY <1>0, <1>3 DEF ReaderInv
    <2>2. v.first # None => first = v.first BY <1>15
    <2>3. v.first = None => n = Len(L) BY <1>3, <1>4
    <2> QED BY <1>0, <1>3, <1>16, <1>18, <2>1, <2>2, <2>3 DEF Informed
  <1>23. ReaderInv(x, l, ledger[x.wallet])
    BY <1>2, <1>3, <1>17, <1>18, <1>21, <1>22 DEF ReaderInv, Asked, Judged
  <1> QED BY <1>18, <1>19, <1>23, OneReads

\* No step, of a reader or of a writer, disturbs what the readers hold.
LEMMA ReadsStep ==
    ASSUME SafetyInv, EffectInv, TypeOK', ReadInv, [ReadNext]_<<vars, readVars>>
    PROVE  ReadInv'
  <1>1. CASE Next /\ UNCHANGED readVars BY <1>1, WritersKeepReads
  <1>2. CASE UNCHANGED <<vars, readVars>>
    <2>1. [Next]_vars /\ UNCHANGED readVars BY <1>2
    <2> QED BY <2>1, WritersKeepReads
  <1>3. ASSUME NEW c \in Readers, Read(c) PROVE ReadInv'
    <2>1. CASE \E w \in Wallets, limit \in Limits : AskPage(c, w, limit)
      <3>1. PICK w \in Wallets : \E limit \in Limits : AskPage(c, w, limit) BY <2>1
      <3> QED BY <3>1, AskKeepsReads
    <2>2. CASE FindWallet(c) \/ PageLost(c) BY <2>2, LossKeepsReads
    <2>3. CASE ReadPage(c) BY <2>3, PageContinues
    <2>4. CASE \E w \in Wallets : ReadWallet(c, w) BY <2>4, WalletReadIsTrue
    <2>5. CASE \E w \in Wallets : AskReconciliation(c, w) BY <2>5, AskKeepsReads
    <2>6. CASE Snapshot(c) BY <2>6, SnapshotIsConsistent
    <2> QED BY <1>3, <2>1, <2>2, <2>3, <2>4, <2>5, <2>6 DEF Read
  <1> QED BY <1>1, <1>2, <1>3 DEF ReadNext

\* A reader that has asked for nothing holds nothing.
LEMMA ReadsInit ==
    ASSUME ReadInit
    PROVE  ReadInv
  <1>1. NoView \in ReaderView
    BY DEF NoView, ReaderView, Money
  <1>2. ASSUME NEW c \in Readers PROVE ReaderInv(view[c], call[c], ledger[view[c].wallet])
    <2>1. view[c] = NoView /\ call[c] = "idle" BY DEF ReadInit
    <2>2. \A L : ReaderInv(NoView, "idle", L)
      BY DEF ReaderInv, Asked, Paged, Informed, Judged, NoView
    <2> QED BY <2>1, <2>2
  <1> QED BY <1>1, <1>2 DEF ReadInv, ReadInit

\* The read side writes nothing: with the readers beside it, the system is the one of
\* Wagering (FindByID, ListLedger and Snapshot are read-only transactions).
THEOREM ReadersOnlyRead == ReadSpec => Spec
  <1>1. [ReadNext]_<<vars, readVars>> => [Next]_vars
    <2> SUFFICES ASSUME [ReadNext]_<<vars, readVars>> PROVE [Next]_vars OBVIOUS
    <2>1. CASE UNCHANGED <<vars, readVars>> BY <2>1
    <2>2. CASE Next BY <2>2
    <2>3. ASSUME NEW c \in Readers, Read(c) PROVE UNCHANGED vars
      BY <2>3 DEF Read, AskPage, FindWallet, ReadPage, PageLost, ReadWallet,
                  AskReconciliation, Snapshot
    <2> QED BY <2>1, <2>2, <2>3 DEF ReadNext
  <1> QED BY <1>1, PTL DEF ReadSpec, Spec

\* Readers beside the writers keep ReadInv, the strengthening of what is promised to
\* them (WalletStore, ReconciliationStore).
THEOREM ReadersAreServed == ReadSpec => [](SafetyInv /\ EffectInv /\ ReadInv)
  <1>1. ReadSpec => [](SafetyInv /\ EffectInv)
    BY ReadersOnlyRead, Effects, PTL
  <1>2. Init /\ ReadInit => ReadInv BY ReadsInit
  <1>3. /\ SafetyInv /\ EffectInv /\ SafetyInv' /\ ReadInv /\ [ReadNext]_<<vars, readVars>>
        => ReadInv'
    <2>1. SafetyInv' => TypeOK' BY DEF SafetyInv
    <2> QED BY <2>1, ReadsStep
  <1> QED BY <1>1, <1>2, <1>3, PTL DEF ReadSpec

\* What a client reads stays consistent while others write: its pages are one
\* listing, and the balances it saw are in it (ListLedger, FindByID).
THEOREM ReadsStayConsistent == ReadSpec => []ReadsAgree
  <1>1. SafetyInv /\ EffectInv /\ ReadInv => ReadsAgree
    <2> SUFFICES ASSUME SafetyInv, EffectInv, ReadInv PROVE ReadsAgree OBVIOUS
    <2>1. ASSUME NEW c \in Readers, NEW v, v = view[c], v.first # None
          PROVE  \E n \in Nat : \E g \in 0 .. n :
                    /\ v.wallet \in Wallets /\ n \in 0 .. Len(ledger[v.wallet])
                    /\ v.given = Backwards(ledger[v.wallet], n, g)
                    /\ v.first = Backwards(ledger[v.wallet], n, n)
                    /\ call[c] = "end" => g = n
      <3>0. PICK L, at : L = ledger[v.wallet] /\ at = call[c] OBVIOUS
      <3>1. Paged(v, at, L) BY <2>1, <3>0 DEF ReadInv, ReaderInv
      <3>2. PICK n \in 0 .. Len(L) : \E g \in 0 .. n : PagedTo(v, at, L, n, g)
        BY <2>1, <3>1 DEF Paged
      <3>3. PICK g \in 0 .. n : PagedTo(v, at, L, n, g) BY <3>2
      <3>4. /\ v.wallet \in Wallets /\ v.given = Backwards(L, n, g)
            /\ v.first = Backwards(L, n, n) /\ (at = "end" => g = n)
        BY <3>3 DEF PagedTo
      <3>5. n \in Nat OBVIOUS
      <3> QED BY <3>0, <3>4, <3>5
    <2>2. ASSUME NEW c \in Readers, NEW v, v = view[c], v.first # None
          PROVE  /\ Len(v.given) <= Len(v.first)
                 /\ v.given = SubSeq(v.first, 1, Len(v.given))
                 /\ call[c] = "end" => v.given = v.first
      <3>0. PICK L : L = ledger[v.wallet] OBVIOUS
      <3>1. PICK n \in Nat : \E g \in 0 .. n :
               /\ v.wallet \in Wallets /\ n \in 0 .. Len(L)
               /\ v.given = Backwards(L, n, g) /\ v.first = Backwards(L, n, n)
               /\ call[c] = "end" => g = n
        BY <2>1, <2>2, <3>0
      <3>2. PICK g \in 0 .. n :
               /\ v.wallet \in Wallets /\ n \in 0 .. Len(L)
               /\ v.given = Backwards(L, n, g) /\ v.first = Backwards(L, n, n)
               /\ call[c] = "end" => g = n
        BY <3>1
      <3>3. L \in Seq(Entry) BY <3>0, <3>2 DEF SafetyInv, TypeOK
      <3>4. n \in 0 .. Len(L) /\ n \in 0 .. n /\ g \in 0 .. n BY <3>2
      <3>5. Len(Backwards(L, n, g)) = g /\ Len(Backwards(L, n, n)) = n
        BY <3>3, <3>4, BackwardsIs
      <3>6. SubSeq(Backwards(L, n, n), 1, g) = Backwards(L, n, g)
        BY <3>3, <3>4, BackwardsPrefix
      <3> QED BY <3>2, <3>4, <3>5, <3>6
    <2>3. ASSUME NEW c \in Readers, NEW v, v = view[c], v.known # None,
                 v.known # [version |-> 1, balance |-> 0]
          PROVE  LET L == ledger[v.wallet]
                     tells(e) == e.version = v.known.version /\ e.after = v.known.balance
                 IN  /\ \E i \in DOMAIN L : tells(L[i])
                     /\ \A i \in DOMAIN L : L[i].version = v.known.version => tells(L[i])
                     /\ v.first # None => \E i \in DOMAIN v.first : tells(v.first[i])
      <3> DEFINE tells(e) == e.version = v.known.version /\ e.after = v.known.balance
      <3>0. PICK L, len : L = ledger[v.wallet] /\ len = Len(L) OBVIOUS
      <3>1. Informed(v, L) BY <2>3, <3>0 DEF ReadInv, ReaderInv
      <3>2. /\ v.wallet \in Wallets
            /\ \E i \in 1 .. len : tells(L[i]) /\ (v.first # None => i <= Len(v.first))
        BY <2>3, <3>0, <3>1 DEF Informed
      <3>3. PICK i \in 1 .. len : tells(L[i]) /\ (v.first # None => i <= Len(v.first))
        BY <3>2
      <3>4. /\ L \in Seq(Entry) /\ len \in Nat /\ DOMAIN L = 1 .. len
            /\ \A k \in 1 .. len : L[k].version \in Nat
            /\ \A k, j \in 1 .. len : k < j => L[k].version < L[j].version
        BY <3>0, <3>2, VersionsGrow
      <3>5. ASSUME NEW j \in 1 .. len, L[j].version = v.known.version PROVE tells(L[j])
        <4>1. PICK y \in Nat : L[j].version = y /\ L[i].version = y
          BY <3>3, <3>4, <3>5
        <4>2. ~(i < j) /\ ~(j < i) BY <3>4, <4>1
        <4>3. i = j BY <3>4, <4>2
        <4> QED BY <3>3, <4>3
      <3>6. ASSUME v.first # None PROVE \E k \in DOMAIN v.first : tells(v.first[k])
        <4>1. PICK n \in Nat : n \in 0 .. len /\ v.first = Backwards(L, n, n)
          BY <2>1, <2>3, <3>0, <3>6
        <4>2. n \in 0 .. Len(L) /\ n \in 0 .. n BY <3>0, <4>1
        <4>3. /\ Len(v.first) = n /\ v.first \in Seq(Entry)
              /\ \A k \in 1 .. n : v.first[k] = L[n + 1 - k]
          <5>1. PICK F : F = Backwards(L, n, n) OBVIOUS
          <5>2. /\ Len(F) = n /\ F \in Seq(Entry)
                /\ \A k \in 1 .. n : F[k] = L[n + 1 - k]
            BY <3>4, <4>2, <5>1, BackwardsIs
          <5> QED BY <4>1, <5>1, <5>2
        <4>4. n + 1 - i \in 1 .. n /\ n + 1 - (n + 1 - i) = i
          BY <3>3, <3>4, <3>6, <4>3
        <4>5. v.first[n + 1 - i] = L[i] BY <4>3, <4>4
        <4>6. n + 1 - i \in DOMAIN v.first BY <4>3, <4>4
        <4> QED BY <3>3, <4>5, <4>6
      <3> QED BY <3>0, <3>3, <3>4, <3>5, <3>6
    <2>4. PagesAreOneListing BY <2>2 DEF PagesAreOneListing
    <2>5. BalancesReadStayTrue BY <2>3 DEF BalancesReadStayTrue
    <2> QED BY <2>4, <2>5 DEF ReadsAgree
  <1> QED BY <1>1, ReadersAreServed, PTL

\* A reconciliation that runs beside the writers never reports a mismatch or an
\* overflow: it finds the balance that one prefix of the ledger left (Snapshot, Reconcile).
THEOREM ReconciliationIsRight == ReadSpec => []ReconciliationFindsNoFault
  <1>1. ReadInv => ReconciliationFindsNoFault
    <2> SUFFICES ASSUME ReadInv, NEW c \in Readers, NEW v, v = view[c],
                        v.verdict # None, v.verdict # "not found"
                 PROVE  /\ v.verdict = "consistent"
                        /\ v.stored = IF v.checked = 0 THEN 0
                                      ELSE ledger[v.wallet][v.checked].after
      BY DEF ReconciliationFindsNoFault
    <2>1. Judged(v, call[c], ledger[v.wallet]) BY DEF ReadInv, ReaderInv
    <2> QED BY <2>1 DEF Judged
  <1> QED BY <1>1, ReadersAreServed, PTL
=============================================================================
