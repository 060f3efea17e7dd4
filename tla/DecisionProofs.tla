---------------------------- MODULE DecisionProofs ----------------------------
(***************************************************************************)
(* A decision is still right when it commits, and has its effects once:    *)
(* DecisionInv and EffectInv are invariant, for every number of sessions,  *)
(* workers and wallets.  From them follow that history is immutable, that  *)
(* an operation is reversed at most once and undone by what reverses it,   *)
(* that the outbox tells what happened, and that no constraint of the      *)
(* database is ever met.                                                   *)
(***************************************************************************)
EXTENDS WageringProofs, FiniteSetTheorems, SequenceTheorems

\* The steps of an actor that write no table.
ReadStep(a) ==
    \/ /\ a \in Sessions
       /\ \/ \E r \in Offers[a] : Receive(a, r)
          \/ SessionStatement(a) \/ WalletMismatch(a)
    \/ a \in Workers /\ LockPending(a)
    \/ LockWallet(a) \/ ResolveReference(a) \/ CheckReversal(a)
    \/ Abort(a) \/ RetryAbort(a)

\* A step of the system is a read of an actor, a claim, a tick of a schedule, the
\* opening of a wallet, a commit or nothing.
LEMMA NextShape ==
    ASSUME [Next]_vars
    PROVE  \/ \E a \in Actors : ReadStep(a)
           \/ \E a \in Actors : Commit(a) \/ CommitReplyLost(a)
           \/ \E o \in Openings : OpenWallet(o)
           \/ \E r \in Workers, t \in TxIds : Claim(r, t)
           \/ \E t \in TxIds : TimePasses(t)
           \/ UNCHANGED vars
  BY DEF Next, ReadStep, Actors, LockedStatement, Failure, Quiescent

\* A read leaves the tables and the locals of the others alone.
LEMMA ReadStepFrame ==
    ASSUME TypeOK, NEW a \in Actors, ReadStep(a)
    PROVE  /\ UNCHANGED tables
           /\ \A b \in Actors : b # a => LocalsKept(b)
  <1>1. ASSUME NEW code, NEW answer, Conclude(a, code, answer), UNCHANGED req
        PROVE  \A b \in Actors : b # a => LocalsKept(b)
    BY <1>1, ConcludeKeeps
  <1>2. ASSUME NEW code, Fail(a, code)
        PROVE  UNCHANGED tables /\ \A b \in Actors : b # a => LocalsKept(b)
    BY <1>1, <1>2 DEF Fail
  <1>3. ASSUME NEW label, Goto(a, label),
               \A b \in Actors : b # a =>
                  /\ seen'[b] = seen[b] /\ acct'[b] = acct[b]
                  /\ ref'[b] = ref[b] /\ plan'[b] = plan[b]
        PROVE  UNCHANGED tables /\ \A b \in Actors : b # a => LocalsKept(b)
    BY <1>3 DEF Goto, LocalsKept, TypeOK
  <1>4. ASSUME NEW label, Goto(a, label), UNCHANGED locals
        PROVE  UNCHANGED tables /\ \A b \in Actors : b # a => LocalsKept(b)
    BY <1>3, <1>4 DEF locals
  <1>5. ASSUME NEW p, plan' = [plan EXCEPT ![a] = p]
        PROVE  \A b \in Actors : b # a => plan'[b] = plan[b]
    BY <1>5 DEF TypeOK
  <1>6. ASSUME NEW p, Decide(a, p), UNCHANGED <<seen, acct, ref>>
        PROVE  UNCHANGED tables /\ \A b \in Actors : b # a => LocalsKept(b)
    BY <1>3, <1>5, <1>6 DEF Decide
  <1>7. CASE a \in Sessions /\ \E r \in Offers[a] : Receive(a, r)
    BY <1>7 DEF Receive, LocalsKept, TypeOK, locals
  <1>8. CASE a \in Sessions /\ ClaimMessage(a)
    BY <1>2, <1>3, <1>4, <1>5, <1>8 DEF ClaimMessage
  <1>9. CASE a \in Sessions /\ (RejectInput(a) \/ WalletNotFound(a) \/ WalletMismatch(a))
    BY <1>2, <1>9 DEF RejectInput, WalletNotFound, WalletMismatch
  <1>10. CASE a \in Sessions /\ LookupKey(a)
    <2>1. PICK x : seen' = [seen EXCEPT ![a] = x] /\ UNCHANGED <<acct, ref, plan>>
      BY <1>10 DEF LookupKey
    <2>2. \A b \in Actors : b # a => seen'[b] = seen[b]
      BY <2>1 DEF TypeOK
    <2> QED BY <1>3, <1>10, <2>1, <2>2 DEF LookupKey
  <1>11. CASE a \in Sessions /\ LookupExternal(a)
    BY <1>2, <1>3, <1>4, <1>5, <1>11 DEF LookupExternal
  <1>12. CASE a \in Sessions /\ InsertTransaction(a)
    BY <1>4, <1>12 DEF InsertTransaction
  <1>13. ASSUME Restart(a), UNCHANGED <<req, claim>>
         PROVE  \A b \in Actors : b # a => LocalsKept(b)
    BY <1>13, RestartKeeps
  <1>14. CASE a \in Sessions /\ IdentityRace(a)
    BY <1>1, <1>13, <1>14 DEF IdentityRace
  <1>15. CASE a \in Workers /\ LockPending(a)
    BY <1>2, <1>3, <1>15 DEF LockPending
  <1>16. CASE LockWallet(a)
    <2>1. PICK x : acct' = [acct EXCEPT ![a] = x] /\ UNCHANGED <<seen, ref, plan>>
      BY <1>16 DEF LockWallet
    <2>2. \A b \in Actors : b # a => acct'[b] = acct[b]
      BY <2>1 DEF TypeOK
    <2> QED BY <1>3, <1>16, <2>1, <2>2 DEF LockWallet
  <1>17. CASE ResolveReference(a)
    <2>1. CASE \E p : Decide(a, p) /\ UNCHANGED ref
      BY <1>6, <1>17, <2>1 DEF ResolveReference
    <2>2. CASE ref' = [ref EXCEPT ![a] = Reference(req[a])] /\ Goto(a, "reversal") /\ UNCHANGED plan
      <3>1. \A b \in Actors : b # a => ref'[b] = ref[b]
        BY <2>2 DEF TypeOK
      <3> QED BY <1>3, <1>17, <2>2, <3>1 DEF ResolveReference
    <2> QED BY <1>17, <2>1, <2>2 DEF ResolveReference
  <1>18. CASE CheckReversal(a)
    BY <1>6, <1>18 DEF CheckReversal
  <1>19. CASE Abort(a) \/ RetryAbort(a)
    BY <1>1, <1>13, <1>19 DEF Abort, RetryAbort
  <1> QED BY <1>7, <1>8, <1>9, <1>10, <1>11, <1>12, <1>14, <1>15, <1>16, <1>17, <1>18, <1>19
          DEF ReadStep, SessionStatement

-----------------------------------------------------------------------------
(* The tables a decision was taken from                                     *)

\* No row is lost or changes its request, and a settled row does not change.
SettledKept ==
    /\ DOMAIN wagers \subseteq DOMAIN wagers'
    /\ \A t \in DOMAIN wagers : /\ wagers'[t].req = wagers[t].req
                                /\ wagers[t].status \in Terminal => wagers'[t] = wagers[t]

\* In wallet w no row appears or is settled, and nothing of it is reversed.
Untouched(w) ==
    /\ \A t \in DOMAIN wagers' :
          wagers'[t].req.wallet = w =>
              t \in DOMAIN wagers /\ wagers'[t].status = wagers[t].status
    /\ \A t \in DOMAIN wagers' :
          /\ wagers'[t].status = "PROCESSED" /\ wagers'[t].req.kind \in ReversalKinds
          /\ wagers'[t].refTx \in DOMAIN wagers
          /\ wagers[wagers'[t].refTx].req.wallet = w
          => t \in DOMAIN wagers /\ wagers[t].status = "PROCESSED"

\* An accepted reference stays accepted.
LEMMA AcceptedKept ==
    ASSUME SettledKept, NEW r, NEW t, Accepted(r, t)
    PROVE  Accepted(r, t)' /\ t \in DOMAIN wagers /\ wagers'[t] = wagers[t]
  BY DEF SettledKept, Accepted, ByExternal, Terminal

\* An accepted reference is in the same wallet, and of a kind that is allowed.
LEMMA AcceptedMeans ==
    ASSUME NEW r, NEW t, Accepted(r, t)
    PROVE  /\ t \in DOMAIN wagers /\ wagers[t].status = "PROCESSED"
           /\ wagers[t].req.ext = r.ref /\ wagers[t].req.provider = r.provider
           /\ wagers[t].req.wallet = r.wallet /\ wagers[t].req.player = r.player
           /\ wagers[t].req.round = r.round /\ wagers[t].req.currency = r.currency
           /\ wagers[t].req.kind \in AllowedReferenceKinds(r.kind)
           /\ r.kind \in ReversalKinds => wagers[t].req.amount = r.amount
  <1>1. t \in DOMAIN wagers /\ wagers[t].status = "PROCESSED" /\ wagers[t].req.ext = r.ref
    BY DEF Accepted, ByExternal
  <1>2. ReferenceFailure(r, wagers[t].req) = None
    BY DEF Accepted
  <1> QED BY <1>1, <1>2, NoneAssumption DEF ReferenceFailure, FailureCodes

\* Whether a reference has been reversed does not change for the holder of its
\* wallet's lock.
LEMMA ReversedKept ==
    ASSUME SettledKept, NEW t \in DOMAIN wagers, Untouched(wagers[t].req.wallet)
    PROVE  HasProcessedReversal(t)' <=> HasProcessedReversal(t)
  <1>1. ASSUME HasProcessedReversal(t) PROVE HasProcessedReversal(t)'
    BY <1>1 DEF HasProcessedReversal, SettledKept, Terminal
  <1>2. ASSUME HasProcessedReversal(t)' PROVE HasProcessedReversal(t)
    <2>1. PICK u \in DOMAIN wagers' :
             /\ wagers'[u].refTx = t /\ wagers'[u].status = "PROCESSED"
             /\ wagers'[u].req.kind \in ReversalKinds
      BY <1>2 DEF HasProcessedReversal
    <2>2. u \in DOMAIN wagers /\ wagers[u].status = "PROCESSED"
      BY <2>1 DEF Untouched
    <2>3. wagers'[u] = wagers[u]
      BY <2>2 DEF SettledKept, Terminal
    <2> QED BY <2>1, <2>2, <2>3 DEF HasProcessedReversal
  <1> QED BY <1>1, <1>2

\* What may wait may still wait.
LEMMA MayWaitKept ==
    ASSUME SettledKept, NEW r, Untouched(r.wallet), MayWait(r)
    PROVE  MayWait(r)'
  <1> SUFFICES ASSUME NEW t \in DOMAIN wagers', wagers'[t].req.provider = r.provider,
                      wagers'[t].req.ext = r.ref, wagers'[t].req.wallet = r.wallet
               PROVE  wagers'[t].status = "PENDING_REFERENCE"
    BY DEF MayWait, ByExternal
  <1>1. t \in DOMAIN wagers /\ wagers'[t].status = wagers[t].status
        /\ wagers'[t].req = wagers[t].req
    BY DEF Untouched, SettledKept
  <1> QED BY <1>1 DEF MayWait, ByExternal

\* What is justified stays justified.
LEMMA JustifiedKept ==
    ASSUME SettledKept, NEW r, Untouched(r.wallet), NEW t, NEW f, Justified(r, t, f)
    PROVE  Justified(r, t, f)'
  <1>1. CASE r.ref = None /\ t = NoTx /\ f = None
    BY <1>1 DEF Justified
  <1>2. CASE MayWait(r) /\ t = NoTx /\ f = "REFERENCE_NOT_FOUND"
    BY <1>2, MayWaitKept DEF Justified
  <1>3. CASE /\ r.ref # None /\ t = NoTx /\ f # None
             /\ \E u \in ByExternal(r.provider, r.ref) :
                   wagers[u].status \in Terminal /\ f = FailureFrom(r, u)
    <2>1. PICK u \in ByExternal(r.provider, r.ref) :
             wagers[u].status \in Terminal /\ f = FailureFrom(r, u)
      BY <1>3
    <2>2. u \in DOMAIN wagers' /\ wagers'[u] = wagers[u]
      BY <2>1 DEF ByExternal, SettledKept
    <2>3. u \in ByExternal(r.provider, r.ref)' /\ f = FailureFrom(r, u)'
      BY <2>1, <2>2 DEF ByExternal, FailureFrom
    <2> QED BY <1>3, <2>1, <2>2, <2>3 DEF Justified
  <1>4. CASE /\ Accepted(r, t)
             /\ f = IF r.kind \in ReversalKinds /\ HasProcessedReversal(t)
                    THEN "ALREADY_REVERSED" ELSE None
    <2>1. Accepted(r, t)' /\ t \in DOMAIN wagers
      BY <1>4, AcceptedKept
    <2>2. wagers[t].req.wallet = r.wallet
      BY <1>4, AcceptedMeans
    <2>3. HasProcessedReversal(t)' <=> HasProcessedReversal(t)
      BY <2>1, <2>2, ReversedKept
    <2> QED BY <1>4, <2>1, <2>3 DEF Justified
  <1> QED BY <1>1, <1>2, <1>3, <1>4 DEF Justified

\* The reference of a justified decision is none or a durable row.
LEMMA JustifiedReference ==
    ASSUME NEW r, NEW t, NEW f, Justified(r, t, f), t # NoTx
    PROVE  Accepted(r, t) /\ t \in DOMAIN wagers
  BY DEF Justified, Accepted, ByExternal

\* The decision of an actor that waits for others stays right.
LEMMA JudgeKept ==
    ASSUME NEW b \in Actors, ActorInv(b), JudgeInv(b), LocalsKept(b), SettledKept,
           Holding(b) => Untouched(req[b].wallet)
    PROVE  JudgeInv(b)'
  <1>0. /\ pc'[b] = pc[b] /\ req'[b] = req[b] /\ acct'[b] = acct[b] /\ ref'[b] = ref[b]
        /\ plan'[b] = plan[b] /\ (b \in Workers => claim'[b] = claim[b])
    BY DEF LocalsKept
  <1>1. TxOf(b)' = TxOf(b)
    BY <1>0 DEF TxOf, Actors
  <1>2. PICK r, x : r = req[b] /\ x = ref[b]
    OBVIOUS
  <1>3. ASSUME pc'[b] = "reversal"
        PROVE  (req[b].kind \in ReversalKinds /\ Accepted(req[b], ref[b]))'
    <2>1. r.kind \in ReversalKinds /\ Accepted(r, x)
      BY <1>0, <1>2, <1>3 DEF JudgeInv
    <2>2. Accepted(r, x)'
      BY <2>1, AcceptedKept
    <2> QED BY <1>0, <1>2, <2>1, <2>2 DEF Accepted, ByExternal
  <1>4. ASSUME Decided(b)', Writes(plan[b])'
        PROVE  (\/ b \in Sessions /\ MayWait(req[b]) /\ plan[b] = PendingPlan(b)
                \/ \E t \in TxIds \cup {NoTx}, f \in FailureCodes \cup {None} :
                      /\ Justified(req[b], t, f)
                      /\ b \in Sessions => f # "REFERENCE_NOT_FOUND"
                      /\ plan[b] = FinishPlan(b, t, f, acct[b].balance))'
    <2>1. Decided(b) /\ Writes(plan[b]) /\ Holding(b)
      BY <1>0, <1>4 DEF Decided, Writes, Holding
    <2>2. CASE b \in Sessions /\ MayWait(req[b]) /\ plan[b] = PendingPlan(b)
      <3>1. MayWait(r)'
        BY <1>2, <2>1, <2>2, MayWaitKept
      <3>2. MayWait(req[b])'
        BY <1>0, <1>2, <3>1 DEF MayWait, ByExternal
      <3>3. PendingPlan(b)' = PendingPlan(b)
        BY <1>1 DEF PendingPlan
      <3> QED BY <1>0, <2>2, <3>2, <3>3
    <2>3. CASE \E t \in TxIds \cup {NoTx}, f \in FailureCodes \cup {None} :
                  /\ Justified(req[b], t, f)
                  /\ b \in Sessions => f # "REFERENCE_NOT_FOUND"
                  /\ plan[b] = FinishPlan(b, t, f, acct[b].balance)
      <3>1. PICK t \in TxIds \cup {NoTx}, f \in FailureCodes \cup {None} :
                  /\ Justified(r, t, f)
                  /\ b \in Sessions => f # "REFERENCE_NOT_FOUND"
                  /\ plan[b] = FinishPlan(b, t, f, acct[b].balance)
        BY <1>2, <2>3
      <3>2. Justified(r, t, f)'
        BY <1>2, <2>1, <3>1, JustifiedKept
      <3>3. Justified(req[b], t, f)'
        BY <1>0, <1>2, <3>2 DEF Justified, MayWait, Accepted, ByExternal, FailureFrom
      <3>4. t # NoTx => wagers'[t].req = wagers[t].req
        BY <3>1, JustifiedReference DEF SettledKept
      <3>5. FinishPlan(b, t, f, acct[b].balance)' = FinishPlan(b, t, f, acct[b].balance)
        BY <1>0, <1>1, <3>4 DEF FinishPlan
      <3> QED BY <1>0, <3>1, <3>3, <3>5
    <2> QED BY <2>1, <2>2, <2>3 DEF JudgeInv
  <1> QED BY <1>3, <1>4 DEF JudgeInv

-----------------------------------------------------------------------------
(* The actor that takes a step                                              *)

\* An actor that neither checks a reversal nor has decided has nothing to keep.
LEMMA JudgeIdle ==
    ASSUME NEW a \in Actors,
           \/ pc'[a] \notin {"reversal", "write", "commit"}
           \/ pc'[a] = "commit" /\ plan'[a].op \notin {"insert", "complete"}
    PROVE  JudgeInv(a)'
  BY DEF JudgeInv, Decided, Writes

\* Whoever processes an operation processes a valid one.
LEMMA ProcessedIsValid ==
    ASSUME SafetyInv, IdentityInv, DecisionInv, NEW a \in Actors,
           \/ pc[a] \in {"resolve", "reversal", "write"}
           \/ pc[a] = "commit" /\ plan[a].op \in {"insert", "complete"}
    PROVE  ValidRequest(req[a])
  <1>1. CASE a \in Sessions
    <2>1. ActorInv(a) BY DEF SafetyInv
    <2>2. pc[a] = "commit" => plan[a].op = "insert"
      BY <1>1, <2>1, ActorsAssumption DEF ActorInv, PlanInv, Decided
    <2>3. Validated(a) BY <2>2 DEF Validated, Inserted
    <2> QED BY <1>1, <2>3 DEF IdentityInv
  <1>2. CASE a \notin Sessions
    <2>1. a \in Workers /\ ActorInv(a)
      BY <1>2 DEF Actors, SafetyInv
    <2>2. pc[a] \in {"resolve", "reversal", "commit"}
      BY <1>2, <2>1 DEF ActorInv, WorkerLabels
    <2>3. claim[a] \in DOMAIN wagers /\ wagers[claim[a]].req = req[a]
      BY <2>1, <2>2 DEF ActorInv
    <2>4. wagers[claim[a]].status = "PENDING_REFERENCE"
      BY <2>1, <2>2 DEF DecisionInv, ClaimInv
    <2>5. req[a].kind # "OPENING"
      BY <2>3, <2>4 DEF DecisionInv, RowInv
    <2> QED BY <2>3, <2>5 DEF IdentityInv
  <1> QED BY <1>1, <1>2

\* At most one row answers to a reference.
LEMMA ReferenceUnique ==
    ASSUME IdentityInv, NEW p, p # None, NEW e,
           NEW t \in ByExternal(p, e), NEW u \in ByExternal(p, e)
    PROVE  t = u
  <1>1. /\ t \in DOMAIN wagers /\ u \in DOMAIN wagers
        /\ wagers[t].req.provider = p /\ wagers[u].req.provider = p
        /\ wagers[t].req.ext = e /\ wagers[u].req.ext = e
    BY DEF ByExternal
  <1>2. wagers[t].req.kind # "OPENING"
    BY <1>1 DEF IdentityInv
  <1> QED BY <1>1, <1>2 DEF IdentityInv, IdentityUnique, SameIdentity

\* What resolveReference finds when the reference is not pending.
LEMMA ResolvedMeans ==
    ASSUME SafetyInv, IdentityInv, NEW r, r.provider # None, r.ref # None,
           ~ReferencePending(r)
    PROVE  /\ Reference(r) \in ByExternal(r.provider, r.ref)
           /\ wagers[Reference(r)].status \in Terminal
           /\ ResolvedFailure(r) = FailureFrom(r, Reference(r))
           /\ ResolvedFailure(r) = None => Accepted(r, Reference(r))
  <1>1. PICK t \in ByExternal(r.provider, r.ref) : wagers[t].status # "PENDING_REFERENCE"
    BY DEF ReferencePending
  <1>2. Reference(r) \in ByExternal(r.provider, r.ref)
    BY <1>1 DEF Reference
  <1>3. Reference(r) = t
    BY <1>1, <1>2, ReferenceUnique
  <1>4. wagers[t].status \in Terminal
    <2>1. t \in DOMAIN wagers BY DEF ByExternal
    <2> QED BY <1>1, <2>1 DEF SafetyInv, TypeOK, Row, Statuses
  <1>5. ResolvedFailure(r) = FailureFrom(r, t)
    BY <1>3, <1>4 DEF ResolvedFailure, FailureFrom, Terminal
  <1>6. ResolvedFailure(r) = None => Accepted(r, t)
    BY <1>1, <1>4, <1>5, NoneAssumption DEF FailureFrom, Accepted, Terminal, FailureCodes
  <1> QED BY <1>2, <1>3, <1>4, <1>5, <1>6

\* A plan made of a justified judgement over tables that stay.
LEMMA FinishJudge ==
    ASSUME NEW a \in Actors, UNCHANGED <<wagers, req, acct, claim>>,
           NEW t \in TxIds \cup {NoTx}, NEW f \in FailureCodes \cup {None},
           Justified(req[a], t, f), a \in Sessions => f # "REFERENCE_NOT_FOUND",
           pc'[a] # "reversal",
           plan'[a] = FinishPlan(a, t, f, acct[a].balance)
    PROVE  JudgeInv(a)'
  <1>1. Justified(req[a], t, f)'
    BY DEF Justified, MayWait, Accepted, ByExternal, FailureFrom, HasProcessedReversal
  <1>2. FinishPlan(a, t, f, acct[a].balance)' = FinishPlan(a, t, f, acct[a].balance)
    BY DEF FinishPlan, TxOf
  <1> QED BY <1>1, <1>2 DEF JudgeInv

\* Resolving a reference leads to a justified decision.
LEMMA ResolveJudge ==
    ASSUME SafetyInv, IdentityInv, DecisionInv, NEW a \in Actors, ResolveReference(a)
    PROVE  JudgeInv(a)'
  <1> DEFINE r == req[a]
  <1>0. /\ TypeOK /\ pc[a] = "resolve" /\ UNCHANGED <<walletLock, seen, acct, late>>
        /\ r.provider # None
    BY ProcessedIsValid DEF SafetyInv, ResolveReference, ValidRequest
  <1>1. ASSUME NEW p, Decide(a, p)
        PROVE  /\ UNCHANGED <<wagers, req, acct, claim>> /\ plan'[a] = p
               /\ pc'[a] \in {"write", "commit"}
    BY <1>0, <1>1 DEF Decide, Goto, tables, TypeOK
  <1>2. NoTx \in TxIds \cup {NoTx}
    OBVIOUS
  <1>3. CASE a \in Sessions /\ ReferencePending(r) /\ Decide(a, PendingPlan(a))
    <2>1. MayWait(r)
      BY <1>3 DEF ReferencePending, MayWait
    <2>2. MayWait(r)' /\ PendingPlan(a)' = PendingPlan(a)
      BY <1>1, <1>3, <2>1 DEF MayWait, ByExternal, PendingPlan, TxOf
    <2> QED BY <1>1, <1>3, <2>2 DEF JudgeInv
  <1>4. CASE a \in Workers /\ Decide(a, ReschedulePlan(a))
    <2>1. plan'[a].op = "reschedule" /\ pc'[a] = "commit"
      BY <1>0, <1>1, <1>4, ActorsAssumption
      DEF ReschedulePlan, NoPlan, Decide, Goto, TypeOK
    <2> QED BY <2>1, JudgeIdle
  <1>5. CASE /\ ReferencePending(r) /\ a \in Workers
             /\ Decide(a, FinishPlan(a, NoTx, "REFERENCE_NOT_FOUND", acct[a].balance))
    <2>1. Justified(r, NoTx, "REFERENCE_NOT_FOUND")
      BY <1>5 DEF ReferencePending, MayWait, Justified
    <2>2. "REFERENCE_NOT_FOUND" \in FailureCodes \cup {None}
      BY DEF FailureCodes
    <2> QED BY <1>1, <1>2, <1>5, <2>1, <2>2, FinishJudge, ActorsAssumption
  <1>6. CASE /\ ~ReferencePending(r) /\ ResolvedFailure(r) # None
             /\ Decide(a, FinishPlan(a, NoTx, ResolvedFailure(r), acct[a].balance))
    <2>1. r.ref # None
      BY <1>6 DEF ResolvedFailure
    <2>2. Justified(r, NoTx, ResolvedFailure(r))
      BY <1>0, <1>6, <2>1, ResolvedMeans DEF Justified
    <2>3. /\ ResolvedFailure(r) \in FailureCodes \cup {None}
          /\ ResolvedFailure(r) # "REFERENCE_NOT_FOUND"
      BY NoneAssumption DEF ResolvedFailure, ReferenceFailure, FailureCodes
    <2> QED BY <1>1, <1>2, <1>6, <2>2, <2>3, FinishJudge
  <1>7. CASE /\ ~ReferencePending(r) /\ ResolvedFailure(r) = None
             /\ r.kind \in ReversalKinds
             /\ ref' = [ref EXCEPT ![a] = Reference(r)]
             /\ Goto(a, "reversal")
    <2>1. r.ref # None
      BY <1>0, <1>7, ProcessedIsValid DEF ValidRequest
    <2>2. Accepted(r, Reference(r))
      BY <1>0, <1>7, <2>1, ResolvedMeans
    <2>3. /\ ref'[a] = Reference(r) /\ pc'[a] = "reversal"
          /\ UNCHANGED <<wagers, req>>
      BY <1>0, <1>7 DEF Goto, tables, TypeOK
    <2>4. Accepted(req[a], ref[a])' /\ req'[a].kind \in ReversalKinds
      BY <1>7, <2>2, <2>3 DEF Accepted, ByExternal
    <2> QED BY <2>3, <2>4 DEF JudgeInv, Decided
  <1>8. CASE /\ ~ReferencePending(r) /\ ResolvedFailure(r) = None
             /\ r.kind \notin ReversalKinds
             /\ Decide(a, FinishPlan(a, Reference(r), None, acct[a].balance))
    <2>1. Justified(r, Reference(r), None)
      <3>1. CASE r.ref = None BY <3>1 DEF Justified, Reference
      <3>2. CASE r.ref # None
        <4>1. Accepted(r, Reference(r)) BY <1>0, <1>8, <3>2, ResolvedMeans
        <4> QED BY <1>8, <4>1 DEF Justified
      <3> QED BY <3>1, <3>2
    <2>2. Reference(r) \in TxIds \cup {NoTx}
      BY <1>0, <1>8, ReferenceExists DEF Reference, TypeOK
    <2>3. None # "REFERENCE_NOT_FOUND"
      BY NoneAssumption DEF FailureCodes
    <2> QED BY <1>1, <1>8, <2>1, <2>2, <2>3, FinishJudge
  <1> QED BY <1>3, <1>4, <1>5, <1>6, <1>7, <1>8 DEF ResolveReference

\* The search for an earlier reversal leads to a justified decision.
LEMMA CheckReversalJudge ==
    ASSUME SafetyInv, DecisionInv, NEW a \in Actors, CheckReversal(a)
    PROVE  JudgeInv(a)'
  <1> DEFINE f == IF HasProcessedReversal(ref[a]) THEN "ALREADY_REVERSED" ELSE None
  <1>0. TypeOK /\ pc[a] = "reversal" /\ JudgeInv(a) /\ ref[a] \in TxIds \cup {NoTx}
    BY DEF SafetyInv, CheckReversal, DecisionInv, TypeOK
  <1>1. /\ UNCHANGED <<wagers, req, acct, claim>> /\ pc'[a] \in {"write", "commit"}
        /\ plan'[a] = FinishPlan(a, ref[a], f, acct[a].balance)
    BY <1>0 DEF CheckReversal, Decide, Goto, tables, TypeOK
  <1>2. Justified(req[a], ref[a], f)
    BY <1>0 DEF JudgeInv, Justified
  <1>3. f \in FailureCodes \cup {None} /\ f # "REFERENCE_NOT_FOUND"
    BY NoneAssumption DEF FailureCodes
  <1> QED BY <1>0, <1>1, <1>2, <1>3, FinishJudge

\* The insertion waits for the commit with the decision it had.
LEMMA InsertJudge ==
    ASSUME SafetyInv, DecisionInv, NEW s \in Sessions, InsertTransaction(s)
    PROVE  JudgeInv(s)'
  <1>0. TypeOK /\ s \in Actors /\ pc[s] = "write" /\ JudgeInv(s)
    BY DEF SafetyInv, DecisionInv, InsertTransaction, Actors
  <1>1. /\ UNCHANGED <<wagers, req, acct, claim, plan>> /\ pc'[s] = "commit"
    BY <1>0 DEF InsertTransaction, Goto, tables, locals, TypeOK
  <1>2. CASE ~Writes(plan[s])
    BY <1>0, <1>1, <1>2, JudgeIdle DEF Writes
  <1>3. CASE MayWait(req[s]) /\ plan[s] = PendingPlan(s)
    BY <1>1, <1>3 DEF JudgeInv, MayWait, ByExternal, PendingPlan, TxOf
  <1>4. CASE \E t \in TxIds \cup {NoTx}, f \in FailureCodes \cup {None} :
                /\ Justified(req[s], t, f)
                /\ f # "REFERENCE_NOT_FOUND"
                /\ plan[s] = FinishPlan(s, t, f, acct[s].balance)
    BY <1>0, <1>1, <1>4, FinishJudge
  <1> QED BY <1>0, <1>2, <1>3, <1>4 DEF JudgeInv, Decided

\* After any read of its own, what an actor has decided is justified.
LEMMA ReadJudge ==
    ASSUME SafetyInv, IdentityInv, DecisionInv, NEW a \in Actors, ReadStep(a)
    PROVE  JudgeInv(a)'
  <1>0. TypeOK BY DEF SafetyInv
  <1>1. ASSUME NEW label, Goto(a, label), label \notin {"reversal", "write", "commit"}
        PROVE  JudgeInv(a)'
    BY <1>0, <1>1, JudgeIdle DEF Goto, TypeOK
  <1>2. ASSUME NEW code, NEW answer, Conclude(a, code, answer)
        PROVE  JudgeInv(a)'
    BY <1>0, <1>2, JudgeIdle DEF Conclude, TypeOK
  <1>3. ASSUME NEW code, Fail(a, code) PROVE JudgeInv(a)'
    BY <1>2, <1>3 DEF Fail
  <1>4. ASSUME Restart(a) PROVE JudgeInv(a)'
    BY <1>0, <1>4, JudgeIdle DEF Restart, FirstStatement, TypeOK
  <1>5. ASSUME NEW p, plan' = [plan EXCEPT ![a] = p], p.op \in {"replay", "duplicate"},
               Goto(a, "commit")
        PROVE  JudgeInv(a)'
    <2>1. pc'[a] = "commit" /\ plan'[a] = p
      BY <1>0, <1>5 DEF Goto, TypeOK
    <2> QED BY <1>5, <2>1, JudgeIdle
  <1>6. CASE a \in Sessions /\ \E r \in Offers[a] : Receive(a, r)
    BY <1>0, <1>6, JudgeIdle DEF Receive, FirstStatement, TypeOK
  <1>7. CASE a \in Sessions /\ ClaimMessage(a)
    BY <1>1, <1>3, <1>5, <1>7 DEF ClaimMessage, NoPlan
  <1>8. CASE a \in Sessions /\ (RejectInput(a) \/ WalletNotFound(a) \/ WalletMismatch(a))
    BY <1>3, <1>8 DEF RejectInput, WalletNotFound, WalletMismatch
  <1>9. CASE a \in Sessions /\ LookupKey(a)
    BY <1>1, <1>9 DEF LookupKey
  <1>10. CASE a \in Sessions /\ LookupExternal(a)
    <2>1. CASE \E x : /\ plan' = [plan EXCEPT ![a] = [NoPlan EXCEPT !.op = "replay",
                                                                    !.answer = x]]
                      /\ Goto(a, "commit")
      BY <1>5, <2>1 DEF NoPlan
    <2> QED BY <1>1, <1>3, <1>10, <2>1 DEF LookupExternal
  <1>11. CASE a \in Sessions /\ InsertTransaction(a)
    BY <1>11, InsertJudge
  <1>12. CASE a \in Sessions /\ IdentityRace(a)
    BY <1>2, <1>4, <1>12 DEF IdentityRace
  <1>13. CASE a \in Workers /\ LockPending(a)
    BY <1>1, <1>3, <1>13 DEF LockPending
  <1>14. CASE LockWallet(a)
    BY <1>1, <1>14 DEF LockWallet
  <1>15. CASE Abort(a) \/ RetryAbort(a)
    BY <1>2, <1>4, <1>15 DEF Abort, RetryAbort
  <1> QED BY <1>6, <1>7, <1>8, <1>9, <1>10, <1>11, <1>12, <1>13, <1>14, <1>15,
             ResolveJudge, CheckReversalJudge DEF ReadStep, SessionStatement

\* A worker keeps its claim through its own reads: LockPending tests the token.
LEMMA ReadClaim ==
    ASSUME SafetyInv, DecisionInv, NEW r \in Workers, ReadStep(r),
           pc'[r] \in {"resolve", "reversal", "commit"}
    PROVE  /\ claim'[r] = claim[r]
           /\ wagers[claim[r]].status = "PENDING_REFERENCE" /\ wagers[claim[r]].token = r
  <1>0. TypeOK /\ r \in Actors /\ r \notin Sessions
    BY ActorsAssumption DEF SafetyInv, Actors
  <1>1. ASSUME NEW code, NEW answer, Conclude(r, code, answer) PROVE FALSE
    BY <1>0, <1>1 DEF Conclude, TypeOK
  <1>2. ASSUME Restart(r) PROVE FALSE
    BY <1>0, <1>2 DEF Restart, FirstStatement, TypeOK
  <1>3. CASE LockPending(r)
    BY <1>1, <1>3 DEF LockPending, Fail, ClaimHolds, Goto
  <1>4. CASE LockWallet(r)
    BY <1>0, <1>4 DEF LockWallet, Goto, TypeOK
  <1>5. CASE ResolveReference(r) \/ CheckReversal(r)
    BY <1>5 DEF ResolveReference, CheckReversal, Decide, Goto, DecisionInv, ClaimInv
  <1>6. CASE Abort(r) \/ RetryAbort(r)
    BY <1>1, <1>2, <1>6 DEF Abort, RetryAbort
  <1> QED BY <1>0, <1>3, <1>4, <1>5, <1>6 DEF ReadStep

\* Reads leave every decision, and every row, as right as it was.
LEMMA ReadDecision ==
    ASSUME SafetyInv, IdentityInv, DecisionInv, NEW a \in Actors, ReadStep(a)
    PROVE  DecisionInv'
  <1>0. TypeOK BY DEF SafetyInv
  <1>1. wagers' = wagers /\ \A b \in Actors : b # a => LocalsKept(b)
    BY <1>0, ReadStepFrame DEF tables
  <1>2. SettledKept /\ \A w : Untouched(w)
    BY <1>1 DEF SettledKept, Untouched
  <1>3. \A b \in Actors : JudgeInv(b)'
    <2> SUFFICES ASSUME NEW b \in Actors PROVE JudgeInv(b)' OBVIOUS
    <2>1. CASE b = a BY <2>1, ReadJudge
    <2>2. CASE b # a
      BY <1>1, <1>2, <2>2, JudgeKept DEF SafetyInv, DecisionInv
    <2> QED BY <2>1, <2>2
  <1>4. ClaimInv'
    <2> SUFFICES ASSUME NEW r \in Workers, pc'[r] \in {"resolve", "reversal", "commit"}
                 PROVE  /\ claim'[r] = claim[r]
                        /\ wagers[claim[r]].status = "PENDING_REFERENCE"
                        /\ wagers[claim[r]].token = r
      BY <1>1 DEF ClaimInv
    <2>1. CASE r = a BY <2>1, ReadClaim
    <2>2. CASE r # a
      BY <1>1, <2>2 DEF LocalsKept, DecisionInv, ClaimInv, Actors
    <2> QED BY <2>1, <2>2
  <1>5. (\A t \in DOMAIN wagers : RowInv(t))' /\ SingleReversal'
    BY <1>1 DEF DecisionInv, RowInv, Accepted, ByExternal, SingleReversal, ProcessedReversal
  <1> QED BY <1>3, <1>4, <1>5 DEF DecisionInv

-----------------------------------------------------------------------------
(* Steps that write                                                         *)

\* The schedule of a pending row is no part of any decision.
LEMMA ScheduleRows ==
    ASSUME DecisionInv, NEW t \in DOMAIN wagers, DOMAIN wagers' = DOMAIN wagers,
           wagers[t].status = "PENDING_REFERENCE", SameButSchedule(wagers'[t], wagers[t]),
           \A u \in DOMAIN wagers : u # t => wagers'[u] = wagers[u]
    PROVE  /\ SettledKept /\ \A w : Untouched(w)
           /\ (\A u \in DOMAIN wagers : RowInv(u))' /\ SingleReversal'
  <1>1. \A u \in DOMAIN wagers : SameButSchedule(wagers'[u], wagers[u])
    BY DEF SameButSchedule
  <1>2. SettledKept /\ \A w : Untouched(w)
    BY <1>1 DEF SettledKept, Untouched, SameButSchedule, Terminal
  <1>3. ASSUME NEW u \in DOMAIN wagers PROVE RowInv(u)'
    <2>1. RowInv(u) BY DEF DecisionInv
    <2>2. SameButSchedule(wagers'[u], wagers[u]) BY <1>1
    <2>3. PICK r, x : r = wagers[u].req /\ x = wagers[u].refTx OBVIOUS
    <2>4. Accepted(r, x) => Accepted(r, x)'
      BY <1>2, AcceptedKept
    <2> QED BY <2>1, <2>2, <2>3, <2>4 DEF RowInv, SameButSchedule, Accepted, ByExternal
  <1>4. SingleReversal'
    BY <1>1 DEF DecisionInv, SingleReversal, ProcessedReversal, SameButSchedule
  <1> QED BY <1>2, <1>3, <1>4

\* Claiming a row leaves every decision right: a row somebody works on is skipped.
LEMMA ClaimDecision ==
    ASSUME SafetyInv, DecisionInv, NEW r \in Workers, NEW t \in TxIds, Claim(r, t)
    PROVE  DecisionInv'
  <1>0. /\ TypeOK /\ pc[r] = "poll" /\ ~RowLocked(t) /\ r \in Actors /\ pc'[r] = "lock"
        /\ \A b \in Actors : b # r => LocalsKept(b)
    BY DEF SafetyInv, Claim, Actors, TypeOK, LocalsKept, locals
  <1>1. /\ SettledKept /\ \A w : Untouched(w)
        /\ (\A u \in DOMAIN wagers : RowInv(u))' /\ SingleReversal'
        /\ \A u \in DOMAIN wagers : u # t => wagers'[u] = wagers[u]
    BY ClaimRow, ScheduleRows
  <1>2. \A b \in Actors : JudgeInv(b)'
    <2> SUFFICES ASSUME NEW b \in Actors PROVE JudgeInv(b)' OBVIOUS
    <2>1. CASE b = r BY <1>0, <2>1, JudgeIdle
    <2>2. CASE b # r
      BY <1>0, <1>1, <2>2, JudgeKept DEF SafetyInv, DecisionInv
    <2> QED BY <2>1, <2>2
  <1>3. ClaimInv'
    <2> SUFFICES ASSUME NEW b \in Workers, pc'[b] \in {"resolve", "reversal", "commit"}
                 PROVE  /\ wagers'[claim'[b]].status = "PENDING_REFERENCE"
                        /\ wagers'[claim'[b]].token = b
      BY DEF ClaimInv
    <2>1. b # r /\ b \in Actors /\ LocalsKept(b)
      BY <1>0 DEF Actors
    <2>2. pc[b] = pc'[b] /\ claim'[b] = claim[b]
      BY <2>1 DEF LocalsKept
    <2>3. claim[b] # t /\ claim[b] \in DOMAIN wagers
      BY <1>0, <2>1, <2>2 DEF RowLocked, SafetyInv, ActorInv
    <2> QED BY <1>1, <2>2, <2>3 DEF DecisionInv, ClaimInv
  <1> QED BY <1>1, <1>2, <1>3 DEF DecisionInv

\* The passing of time leaves every decision right.
LEMMA TimeDecision ==
    ASSUME SafetyInv, DecisionInv, NEW t \in TxIds, TimePasses(t)
    PROVE  DecisionInv'
  <1>0. /\ \A b \in Actors : LocalsKept(b)
        /\ UNCHANGED <<pc, claim>>
    BY DEF TimePasses, BecomeDue, LeaseExpires, TTLPasses, Scheduled, LocalsKept, locals
  <1>1. /\ SettledKept /\ \A w : Untouched(w)
        /\ (\A u \in DOMAIN wagers : RowInv(u))' /\ SingleReversal'
        /\ \A u \in DOMAIN wagers : /\ wagers'[u].status = wagers[u].status
                                    /\ wagers'[u].token = wagers[u].token
    BY TimeRow, ScheduleRows DEF SameButSchedule
  <1>2. \A b \in Actors : JudgeInv(b)'
    BY <1>0, <1>1, JudgeKept DEF SafetyInv, DecisionInv
  <1>3. ClaimInv'
    BY <1>0, <1>1 DEF DecisionInv, ClaimInv, SafetyInv, ActorInv, Actors
  <1> QED BY <1>1, <1>2, <1>3 DEF DecisionInv

\* No row has the null id.
LEMMA NoNullRow == ASSUME TypeOK PROVE NoTx \notin DOMAIN wagers
  BY ActorsAssumption, NoneAssumption DEF TypeOK, TxIds, NoTx

\* The row of an opening is nobody's reference and reverses nothing.
LEMMA OpenDecision ==
    ASSUME SafetyInv, DecisionInv, NEW o \in Openings, OpenWallet(o)
    PROVE  SettledKept /\ DecisionInv'
  <1>0. /\ TypeOK /\ o.wallet \notin DOMAIN wallets /\ o.wallet \notin DOMAIN wagers
        /\ \A b \in Actors : LocalsKept(b)
        /\ UNCHANGED <<pc, claim>>
    BY InputsAssumption, ActorsAssumption
    DEF SafetyInv, TablesInv, OpenWallet, LocalsKept, locals
  <1>1. \/ wagers' = wagers
        \/ /\ DOMAIN wagers' = DOMAIN wagers \cup {o.wallet}
           /\ \A t \in DOMAIN wagers : wagers'[t] = wagers[t]
           /\ wagers'[o.wallet] = OpeningRow(o)
    BY <1>0 DEF OpenWallet, Extend
  <1>2. /\ OpeningRow(o).req.kind = "OPENING" /\ OpeningRow(o).req.wallet = o.wallet
        /\ OpeningRow(o).status = "PROCESSED" /\ OpeningRow(o).req.ref = None
        /\ OpeningRow(o).refTx = NoTx
    BY DEF OpeningRow
  <1>3. /\ DOMAIN wagers \subseteq DOMAIN wagers'
        /\ \A t \in DOMAIN wagers : wagers'[t] = wagers[t]
        /\ \A t \in DOMAIN wagers' : t \in DOMAIN wagers \/ wagers'[t] = OpeningRow(o)
    BY <1>1
  <1>4. SettledKept
    BY <1>3 DEF SettledKept
  <1>5. \A w : w # o.wallet => Untouched(w)
    BY <1>2, <1>3 DEF Untouched, ReversalKinds
  <1>6. ASSUME NEW b \in Actors PROVE JudgeInv(b)'
    <2>1. Holding(b) => Untouched(req[b].wallet)
      BY <1>0, <1>5 DEF SafetyInv, ActorInv, LockInv
    <2> QED BY <1>0, <1>4, <2>1, JudgeKept DEF SafetyInv, DecisionInv
  <1>7. ClaimInv'
    BY <1>0, <1>3 DEF DecisionInv, ClaimInv, SafetyInv, ActorInv, Actors
  <1>8. ASSUME NEW u \in DOMAIN wagers' PROVE RowInv(u)'
    <2>1. CASE u \in DOMAIN wagers
      <3>1. RowInv(u) /\ wagers'[u] = wagers[u] BY <1>3, <2>1 DEF DecisionInv
      <3>2. PICK r, x : r = wagers[u].req /\ x = wagers[u].refTx OBVIOUS
      <3>3. Accepted(r, x) => Accepted(r, x)' BY <1>4, AcceptedKept
      <3> QED BY <3>1, <3>2, <3>3 DEF RowInv, Accepted, ByExternal
    <2>2. CASE wagers'[u] = OpeningRow(o)
      BY <1>2, <2>2 DEF RowInv
    <2> QED BY <1>3, <2>1, <2>2
  <1>9. SingleReversal'
    BY <1>2, <1>3 DEF DecisionInv, SingleReversal, ProcessedReversal, ReversalKinds
  <1> QED BY <1>4, <1>6, <1>7, <1>8, <1>9 DEF DecisionInv

\* What a commit does to the rows: nothing, or a new schedule for the claimed row,
\* or the row of the actor's own transaction as it was planned.
CommitsNothing(a) == plan[a].op \in {"replay", "duplicate"} /\ wagers' = wagers
CommitsSchedule(a) ==
    /\ a \in Workers /\ plan[a].op = "reschedule"
    /\ claim[a] \in DOMAIN wagers /\ DOMAIN wagers' = DOMAIN wagers
    /\ wagers[claim[a]].status = "PENDING_REFERENCE"
    /\ SameButSchedule(wagers'[claim[a]], wagers[claim[a]])
    /\ \A u \in DOMAIN wagers : u # claim[a] => wagers'[u] = wagers[u]
CommitsRow(a) ==
    LET t == TxOf(a)
    IN  /\ Writes(plan[a])
        /\ DOMAIN wagers' = DOMAIN wagers \cup {t}
        /\ \A u \in DOMAIN wagers : u # t => wagers'[u] = wagers[u]
        /\ wagers'[t].req = req[a] /\ wagers'[t].refTx = plan[a].refTx
        /\ wagers'[t].status = plan[a].answer.status
        /\ wagers'[t].failure = plan[a].answer.failure
        /\ wagers'[t].balance = plan[a].answer.balance
        /\ IF a \in Sessions THEN t \notin DOMAIN wagers
           ELSE /\ t = claim[a] /\ t \in DOMAIN wagers
                /\ wagers[t].status = "PENDING_REFERENCE"

\* A commit is one of these three.
LEMMA CommitRows ==
    ASSUME SafetyInv, DecisionInv, NEW a \in Actors, pc[a] = "commit", ApplyWrites(a)
    PROVE  CommitsNothing(a) \/ CommitsSchedule(a) \/ CommitsRow(a)
  <1>0. /\ TypeOK /\ ActorInv(a) /\ PlanInv(a) /\ wagers' = WrittenWagers(a)
    BY DEF SafetyInv, ActorInv, Decided, ApplyWrites
  <1>1. CASE a \in Sessions
    <2>1. /\ plan[a].op \in {"insert", "replay", "duplicate"} /\ TxOf(a) = a
          /\ a \notin DOMAIN wagers
      BY <1>0, <1>1 DEF PlanInv, TxOf, ActorInv
    <2>2. CASE plan[a].op = "insert"
      BY <1>0, <1>1, <2>1, <2>2
      DEF CommitsRow, WrittenWagers, Extend, InsertedRow, Writes
    <2>3. CASE plan[a].op # "insert"
      BY <1>0, <2>1, <2>3 DEF CommitsNothing, WrittenWagers
    <2> QED BY <2>2, <2>3
  <1>2. CASE a \notin Sessions
    <2>1. /\ a \in Workers /\ TxOf(a) = claim[a] /\ claim[a] \in DOMAIN wagers
          /\ wagers[claim[a]].req = req[a]
          /\ wagers[claim[a]].status = "PENDING_REFERENCE"
          /\ plan[a].op \in {"complete", "reschedule"}
      BY <1>0, <1>2 DEF Actors, TxOf, ActorInv, PlanInv, DecisionInv, ClaimInv
    <2>2. wagers[claim[a]] \in Row /\ wagers \in [DOMAIN wagers -> Row]
      BY <1>0, <2>1 DEF TypeOK
    <2>3. CASE plan[a].op = "complete"
      <3>1. wagers' = [wagers EXCEPT ![claim[a]] = CompletedRow(a)]
        BY <1>0, <2>3 DEF WrittenWagers
      <3>2. /\ CompletedRow(a).req = req[a] /\ CompletedRow(a).refTx = plan[a].refTx
            /\ CompletedRow(a).status = plan[a].answer.status
            /\ CompletedRow(a).failure = plan[a].answer.failure
            /\ CompletedRow(a).balance = plan[a].answer.balance
        BY <2>1, <2>2 DEF CompletedRow, Row
      <3> QED BY <1>2, <2>1, <2>2, <2>3, <3>1, <3>2 DEF CommitsRow, Writes
    <2>4. CASE plan[a].op = "reschedule"
      <3>1. wagers' = [wagers EXCEPT ![claim[a]] = RescheduledRow(a)]
        BY <1>0, <2>4 DEF WrittenWagers
      <3>2. SameButSchedule(RescheduledRow(a), wagers[claim[a]])
        BY <2>2 DEF RescheduledRow, Row, SameButSchedule
      <3> QED BY <2>1, <2>2, <2>4, <3>1, <3>2 DEF CommitsSchedule
    <2> QED BY <2>1, <2>3, <2>4
  <1> QED BY <1>1, <1>2

\* Two transactions under the wallet lock work on different wallets.
LEMMA HoldersApart ==
    ASSUME SafetyInv, NEW a \in Actors, NEW b \in Actors, a # b, Holding(a), Holding(b)
    PROVE  req[a].wallet # req[b].wallet
  BY DEF SafetyInv, ActorInv, LockInv

\* A plan that processes an operation is justified by the reference it names.
LEMMA ProcessedPlan ==
    ASSUME SafetyInv, IdentityInv, DecisionInv, NEW a \in Actors, pc[a] = "commit",
           Writes(plan[a]), plan[a].answer.status = "PROCESSED"
    PROVE  \/ req[a].ref = None /\ plan[a].refTx = NoTx
           \/ /\ Accepted(req[a], plan[a].refTx)
              /\ req[a].kind \in ReversalKinds => ~HasProcessedReversal(plan[a].refTx)
  <1>1. plan[a] # PendingPlan(a)
    BY DEF PendingPlan, NoPlan, NoAnswer
  <1>2. PICK t \in TxIds \cup {NoTx}, f \in FailureCodes \cup {None} :
           Justified(req[a], t, f) /\ plan[a] = FinishPlan(a, t, f, acct[a].balance)
    BY <1>1 DEF DecisionInv, JudgeInv, Decided
  <1>3. f = None /\ plan[a].refTx = t
    BY <1>2 DEF FinishPlan
  <1> QED BY <1>2, <1>3, NoneAssumption DEF Justified, FailureCodes

\* A plan that writes names no reference but one that is accepted.
LEMMA PlannedReference ==
    ASSUME SafetyInv, DecisionInv, NEW a \in Actors, pc[a] = "commit", Writes(plan[a])
    PROVE  plan[a].refTx = NoTx \/ Accepted(req[a], plan[a].refTx)
  <1>1. CASE plan[a] = PendingPlan(a)
    BY <1>1 DEF PendingPlan, NoPlan
  <1>2. CASE \E t \in TxIds \cup {NoTx}, f \in FailureCodes \cup {None} :
           Justified(req[a], t, f) /\ plan[a] = FinishPlan(a, t, f, acct[a].balance)
    BY <1>2, JustifiedReference DEF FinishPlan
  <1> QED BY <1>1, <1>2 DEF DecisionInv, JudgeInv, Decided

\* A commit changes no settled row, and nothing in the wallets of others.
LEMMA CommitTouches ==
    ASSUME SafetyInv, IdentityInv, DecisionInv, NEW a \in Actors, pc[a] = "commit",
           ApplyWrites(a)
    PROVE  /\ SettledKept
           /\ \A w : (Holding(a) /\ w = req[a].wallet) \/ Untouched(w)
  <1>0. TypeOK BY DEF SafetyInv
  <1>1. CASE CommitsNothing(a)
    BY <1>1 DEF CommitsNothing, SettledKept, Untouched
  <1>2. CASE CommitsSchedule(a)
    BY <1>2, ScheduleRows DEF CommitsSchedule
  <1>3. CASE CommitsRow(a)
    <2> DEFINE t == TxOf(a)
    <2>0. Holding(a) /\ Writes(plan[a])
      BY <1>3 DEF CommitsRow, Holding, Writes
    <2>1. /\ DOMAIN wagers' = DOMAIN wagers \cup {t}
          /\ \A u \in DOMAIN wagers : u # t => wagers'[u] = wagers[u]
          /\ wagers'[t].req = req[a] /\ wagers'[t].refTx = plan[a].refTx
          /\ t \in DOMAIN wagers => /\ wagers[t].status = "PENDING_REFERENCE"
                                    /\ wagers[t].req = req[a]
      BY <1>3 DEF CommitsRow, SafetyInv, ActorInv, Actors
    <2> HIDE DEF t
    <2>2. SettledKept
      BY <2>1 DEF SettledKept, Terminal
    <2>3. plan[a].refTx \in DOMAIN wagers => wagers[plan[a].refTx].req.wallet = req[a].wallet
      BY <1>0, <2>0, PlannedReference, AcceptedMeans, NoNullRow
    <2>4. ASSUME NEW w, w # req[a].wallet PROVE Untouched(w)
      BY <2>1, <2>3, <2>4 DEF Untouched
    <2> QED BY <2>0, <2>2, <2>4
  <1> QED BY <1>1, <1>2, <1>3, CommitRows

\* A commit leaves every decision right: those who decide about the same wallet
\* wait for its lock.
LEMMA CommitDecision ==
    ASSUME SafetyInv, IdentityInv, DecisionInv, NEW a \in Actors,
           Commit(a) \/ CommitReplyLost(a)
    PROVE  SettledKept /\ DecisionInv'
  <1>0. /\ TypeOK /\ pc[a] = "commit" /\ ApplyWrites(a) /\ req' = req
    BY DEF SafetyInv, Commit, CommitReplyLost
  <1>1. PICK code, answer : Conclude(a, code, answer)
    BY DEF Commit, CommitReplyLost
  <1>2. /\ \A b \in Actors : b # a => LocalsKept(b)
        /\ pc'[a] \in {"done", "poll"}
    BY <1>0, <1>1, ConcludeKeeps DEF Conclude, TypeOK
  <1>3. SettledKept /\ \A w : (Holding(a) /\ w = req[a].wallet) \/ Untouched(w)
    BY <1>0, CommitTouches
  <1>4. ASSUME NEW b \in Actors PROVE JudgeInv(b)'
    <2>1. CASE b = a BY <1>2, <2>1, JudgeIdle
    <2>2. CASE b # a
      <3>1. Holding(b) => Untouched(req[b].wallet)
        BY <1>3, <2>2, HoldersApart
      <3> QED BY <1>2, <1>3, <2>2, <3>1, JudgeKept DEF SafetyInv, DecisionInv
    <2> QED BY <2>1, <2>2
  <1>5. ClaimInv'
    <2> SUFFICES ASSUME NEW r \in Workers, pc'[r] \in {"resolve", "reversal", "commit"}
                 PROVE  /\ wagers'[claim'[r]].status = "PENDING_REFERENCE"
                        /\ wagers'[claim'[r]].token = r
      BY DEF ClaimInv
    <2>1. r # a /\ r \in Actors /\ LocalsKept(r)
      BY <1>2 DEF Actors
    <2>2. /\ pc[r] = pc'[r] /\ claim'[r] = claim[r]
          /\ wagers[claim[r]].status = "PENDING_REFERENCE" /\ wagers[claim[r]].token = r
          /\ claim[r] \in DOMAIN wagers
      BY <2>1 DEF LocalsKept, DecisionInv, ClaimInv, SafetyInv, ActorInv
    <2>3. a \in Workers => wagers[claim[a]].token = a
      BY <1>0 DEF DecisionInv, ClaimInv
    <2>4. wagers'[claim[r]] = wagers[claim[r]]
      <3>1. CASE CommitsNothing(a) BY <3>1 DEF CommitsNothing
      <3>2. CASE CommitsSchedule(a)
        BY <2>1, <2>2, <2>3, <3>2 DEF CommitsSchedule
      <3>3. CASE CommitsRow(a)
        BY <2>1, <2>2, <2>3, <3>3 DEF CommitsRow, Actors
      <3> QED BY <1>0, <3>1, <3>2, <3>3, CommitRows
    <2> QED BY <2>2, <2>4
  <1>6. (\A u \in DOMAIN wagers : RowInv(u))' /\ SingleReversal'
    <2>1. CASE CommitsNothing(a)
      BY <2>1 DEF CommitsNothing, DecisionInv, RowInv, Accepted, ByExternal,
                  SingleReversal, ProcessedReversal
    <2>2. CASE CommitsSchedule(a)
      BY <2>2, ScheduleRows DEF CommitsSchedule
    <2>3. CASE CommitsRow(a)
      <3>0. PICK t : t = TxOf(a) OBVIOUS
      <3>1. /\ Writes(plan[a]) /\ DOMAIN wagers' = DOMAIN wagers \cup {t}
            /\ \A u \in DOMAIN wagers : u # t => wagers'[u] = wagers[u]
            /\ wagers'[t].req = req[a] /\ wagers'[t].refTx = plan[a].refTx
            /\ wagers'[t].status = plan[a].answer.status
            /\ t \in DOMAIN wagers => wagers[t].status = "PENDING_REFERENCE"
        BY <2>3, <3>0 DEF CommitsRow
      <3>2. ValidRequest(req[a])
        BY <1>0, <3>1, ProcessedIsValid DEF Writes
      <3>3. wagers'[t].status = "PROCESSED" =>
               \/ req[a].ref = None /\ plan[a].refTx = NoTx
               \/ /\ Accepted(req[a], plan[a].refTx)
                  /\ req[a].kind \in ReversalKinds => ~HasProcessedReversal(plan[a].refTx)
        BY <1>0, <3>1, ProcessedPlan
      <3>4. wagers'[t].status = "PENDING_REFERENCE" => plan[a].refTx = NoTx
        <4>1. CASE plan[a] = PendingPlan(a)
          BY <4>1 DEF PendingPlan, NoPlan
        <4>2. CASE \E x \in TxIds \cup {NoTx}, f \in FailureCodes \cup {None} :
                      plan[a] = FinishPlan(a, x, f, acct[a].balance)
          BY <3>1, <4>2 DEF FinishPlan
        <4> QED BY <1>0, <3>1, <4>1, <4>2 DEF DecisionInv, JudgeInv, Decided
      <3>5. ASSUME NEW u \in DOMAIN wagers' PROVE RowInv(u)'
        <4>1. CASE u # t
          <5>1. RowInv(u) /\ wagers'[u] = wagers[u]
            BY <3>1, <4>1 DEF DecisionInv
          <5>2. PICK r, x : r = wagers[u].req /\ x = wagers[u].refTx OBVIOUS
          <5>3. Accepted(r, x) => Accepted(r, x)' BY <1>3, AcceptedKept
          <5> QED BY <5>1, <5>2, <5>3 DEF RowInv, Accepted, ByExternal
        <4>2. CASE u = t
          <5>1. PICK r, x : r = req[a] /\ x = plan[a].refTx OBVIOUS
          <5>2. Accepted(r, x) => Accepted(r, x)' BY <1>3, AcceptedKept
          <5>3. r.ref = None => ~Accepted(r, x) BY DEF Accepted
          <5>4. wagers'[t].status = "PROCESSED" =>
                   IF r.ref = None THEN x = NoTx ELSE Accepted(r, x)'
            BY <3>3, <5>1, <5>2, <5>3
          <5>5. r.kind # "OPENING"
            BY <3>2, <5>1 DEF ValidRequest, ExternalKinds
          <5> QED BY <3>1, <3>4, <4>2, <5>1, <5>4, <5>5 DEF RowInv, Accepted, ByExternal
        <4> QED BY <4>1, <4>2
      <3>6. SingleReversal'
        <4> SUFFICES ASSUME NEW u \in DOMAIN wagers', NEW v \in DOMAIN wagers',
                            ProcessedReversal(u)', ProcessedReversal(v)',
                            wagers'[u].refTx = wagers'[v].refTx
                     PROVE  u = v
          BY DEF SingleReversal
        <4>1. ASSUME ProcessedReversal(t)', NEW x \in DOMAIN wagers, x # t,
                     ProcessedReversal(x)', wagers'[x].refTx = plan[a].refTx
              PROVE  FALSE
          <5>1. ~HasProcessedReversal(plan[a].refTx)
            BY <3>1, <3>2, <3>3, <4>1 DEF ProcessedReversal, ValidRequest
          <5>2. ProcessedReversal(x) /\ wagers[x].refTx = plan[a].refTx
            BY <3>1, <4>1 DEF ProcessedReversal
          <5> QED BY <5>1, <5>2 DEF HasProcessedReversal, ProcessedReversal
        <4>2. CASE u # t /\ v # t
          BY <3>1, <4>2 DEF DecisionInv, SingleReversal, ProcessedReversal
        <4>3. CASE u = t /\ v # t BY <3>1, <4>1, <4>3
        <4>4. CASE u # t /\ v = t BY <3>1, <4>1, <4>4
        <4> QED BY <4>2, <4>3, <4>4
      <3> QED BY <3>5, <3>6
    <2> QED BY <1>0, <2>1, <2>2, <2>3, CommitRows
  <1> QED BY <1>3, <1>4, <1>5, <1>6 DEF DecisionInv

-----------------------------------------------------------------------------
\* Every step, and every stutter, keeps decisions right and settled rows as they are.
LEMMA NextDecision ==
    SafetyInv /\ IdentityInv /\ DecisionInv /\ [Next]_vars => SettledKept /\ DecisionInv'
  <1> SUFFICES ASSUME SafetyInv, IdentityInv, DecisionInv, [Next]_vars
               PROVE  SettledKept /\ DecisionInv'
    OBVIOUS
  <1>1. ASSUME NEW a \in Actors, ReadStep(a) PROVE SettledKept /\ DecisionInv'
    BY <1>1, ReadDecision, ReadStepFrame DEF SafetyInv, SettledKept, tables
  <1>2. ASSUME NEW a \in Actors, Commit(a) \/ CommitReplyLost(a)
        PROVE  SettledKept /\ DecisionInv'
    BY <1>2, CommitDecision
  <1>3. ASSUME NEW o \in Openings, OpenWallet(o) PROVE SettledKept /\ DecisionInv'
    BY <1>3, OpenDecision
  <1>4. ASSUME NEW r \in Workers, NEW t \in TxIds, Claim(r, t)
        PROVE  SettledKept /\ DecisionInv'
    BY <1>4, ClaimDecision, ClaimRow, ScheduleRows
  <1>5. ASSUME NEW t \in TxIds, TimePasses(t) PROVE SettledKept /\ DecisionInv'
    BY <1>5, TimeDecision, TimeRow, ScheduleRows
  <1>6. ASSUME UNCHANGED vars PROVE SettledKept /\ DecisionInv'
    <2>1. UNCHANGED <<wagers, pc, claim>> /\ \A b \in Actors : LocalsKept(b)
      BY <1>6 DEF vars, tables, locals, LocalsKept
    <2>2. SettledKept /\ \A w : Untouched(w)
      BY <2>1 DEF SettledKept, Untouched
    <2>3. \A b \in Actors : JudgeInv(b)'
      BY <2>1, <2>2, JudgeKept DEF SafetyInv, DecisionInv
    <2> QED BY <2>1, <2>2, <2>3 DEF DecisionInv, ClaimInv, RowInv, Accepted, ByExternal,
                                    SingleReversal, ProcessedReversal
  <1> QED BY <1>1, <1>2, <1>3, <1>4, <1>5, <1>6, NextShape

\* Nothing has been decided before the first step.
LEMMA InitDecision == Init => DecisionInv
  <1> SUFFICES ASSUME Init PROVE DecisionInv OBVIOUS
  <1>1. DOMAIN wagers = {} /\ \A a \in Actors : pc[a] \in {"new", "poll"}
    BY DEF Init
  <1>2. \A a \in Actors : JudgeInv(a)
    BY <1>1 DEF JudgeInv, Decided
  <1>3. ClaimInv
    BY <1>1 DEF ClaimInv, Actors
  <1> QED BY <1>1, <1>2, <1>3 DEF DecisionInv, SingleReversal

\* A transaction that judges a reference by several reads, each with a snapshot of
\* its own, is still right when it commits: under the lock of its wallet nobody
\* settles, inserts or reverses what it relied on.
THEOREM Decisions == Spec => [](SafetyInv /\ IdentityInv /\ DecisionInv)
  BY Safety, Identities, InitDecision, NextDecision, PTL DEF Spec

\* REFUND and ROLLBACK, submissions and resumed references together reverse an
\* operation directly at most once, without the partial unique index: its lookup
\* runs under the wallet lock that every reversal of the operation needs.
THEOREM ReversedAtMostOnce == Spec => []SingleReversal
  <1>1. DecisionInv => SingleReversal
    BY DEF DecisionInv
  <1> QED BY <1>1, Decisions, PTL

\* An entry of the ledger stays where it is.
LEMMA LedgerGrows ==
    ASSUME SafetyInv, [Next]_vars, NEW w \in Wallets, NEW i \in DOMAIN ledger[w]
    PROVE  i \in DOMAIN ledger'[w] /\ ledger'[w][i] = ledger[w][i]
  <1>0. ledger \in [Wallets -> Seq(Entry)]
    BY DEF SafetyInv, TypeOK
  <1>1. CASE UNCHANGED ledger BY <1>1
  <1>2. CASE \E v, e : ledger' = [ledger EXCEPT ![v] = Append(@, e)]
    <2>1. PICK v, e : ledger' = [ledger EXCEPT ![v] = Append(@, e)] BY <1>2
    <2>2. ledger[w] \in Seq(Entry) /\ i \in 1 .. Len(ledger[w])
      BY <1>0
    <2>3. ledger'[w] = ledger[w] \/ ledger'[w] = Append(ledger[w], e)
      BY <1>0, <2>1
    <2> QED BY <2>2, <2>3
  <1>3. ASSUME NEW a, ApplyWrites(a) PROVE UNCHANGED ledger
            \/ \E v, e : ledger' = [ledger EXCEPT ![v] = Append(@, e)]
    BY <1>3 DEF ApplyWrites
  <1>4. ASSUME NEW o, OpenWallet(o) PROVE UNCHANGED ledger
            \/ \E v, e : ledger' = [ledger EXCEPT ![v] = Append(@, e)]
    BY <1>4 DEF OpenWallet
  <1>5. ASSUME NEW a \in Actors, ReadStep(a) PROVE UNCHANGED ledger
    BY <1>5, ReadStepFrame DEF SafetyInv, tables
  <1>6. ASSUME NEW r, NEW t, Claim(r, t) \/ TimePasses(t) PROVE UNCHANGED ledger
    BY <1>6 DEF Claim, TimePasses, BecomeDue, LeaseExpires, TTLPasses, Scheduled
  <1> QED BY <1>1, <1>2, <1>3, <1>4, <1>5, <1>6, NextShape
          DEF Commit, CommitReplyLost, vars, tables

\* What providers were told stays true: no wager is deleted or changes its request,
\* none changes after PROCESSED or REJECTED, and entries are only appended, also
\* without the triggers that protect terminal wagers and the ledger.
THEOREM HistoryStands == Spec => HistoryIsImmutable
  <1>1. SafetyInv /\ IdentityInv /\ DecisionInv /\ [Next]_vars =>
          [/\ \A t \in DOMAIN wagers :
                 /\ t \in DOMAIN wagers'
                 /\ wagers'[t].req = wagers[t].req
                 /\ wagers[t].status \in Terminal => wagers'[t] = wagers[t]
           /\ \A w \in Wallets : \A i \in DOMAIN ledger[w] :
                 i \in DOMAIN ledger'[w] /\ ledger'[w][i] = ledger[w][i]]_vars
    BY NextDecision, LedgerGrows DEF SettledKept
  <1> QED BY <1>1, Decisions, PTL DEF Spec, HistoryIsImmutable

-----------------------------------------------------------------------------
(* EFFECTS                                                                  *)

\* The rows with an effect on a balance.
Effective(row) == row.status = "PROCESSED" /\ row.req.kind # "LOSS"

\* The direction of a processed row does not change: its reference stays.
LEMMA DirectionKept ==
    ASSUME TypeOK, DecisionInv, SettledKept, NEW t \in DOMAIN wagers,
           wagers[t].status = "PROCESSED"
    PROVE  RowDirection(t)' = RowDirection(t)
  <1>1. wagers'[t] = wagers[t]
    BY DEF SettledKept, Terminal
  <1>2. wagers[t].refTx # NoTx =>
           /\ wagers[t].refTx \in DOMAIN wagers
           /\ wagers'[wagers[t].refTx].req = wagers[wagers[t].refTx].req
    BY AcceptedMeans DEF DecisionInv, RowInv, SettledKept
  <1> QED BY <1>1, <1>2 DEF RowDirection

\* An entry that is kept, with its row and the count of versions, is still right.
LEMMA EntryKept ==
    ASSUME SafetyInv, DecisionInv, SettledKept, NEW w \in Wallets,
           NEW i \in DOMAIN ledger[w], EntryInv(w, i),
           \A j \in DOMAIN ledger[w] : j \in DOMAIN ledger'[w] /\ ledger'[w][j] = ledger[w][j],
           ledger[w][i].version + Len(ledger'[w]) = wallets'[w].version + i
    PROVE  EntryInv(w, i)'
  <1>1. PICK t : t = ledger[w][i].tx OBVIOUS
  <1>2. /\ t \in DOMAIN wagers /\ wagers[t].status = "PROCESSED"
        /\ ledger[w][i].direction = RowDirection(t)
    BY <1>1 DEF EntryInv
  <1>3. t \in DOMAIN wagers' /\ wagers'[t] = wagers[t]
    BY <1>2 DEF SettledKept, Terminal
  <1>4. RowDirection(t)' = RowDirection(t)
    BY <1>2, DirectionKept DEF SafetyInv
  <1>5. ledger'[w][i] = ledger[w][i]
    OBVIOUS
  <1>6. (ledger[w][i].direction = RowDirection(ledger[w][i].tx))'
    BY <1>1, <1>2, <1>4, <1>5 DEF RowDirection
  <1> QED BY <1>1, <1>3, <1>5, <1>6 DEF EntryInv

\* A step that moves nothing and completes no row that should have moved something.
LEMMA EffectQuiet ==
    ASSUME SafetyInv, DecisionInv, EffectInv, SettledKept, UNCHANGED ledger,
           \A w \in DOMAIN wallets : wallets'[w].version = wallets[w].version,
           \A t \in DOMAIN wagers' : Effective(wagers'[t]) =>
              t \in DOMAIN wagers /\ Effective(wagers[t])
    PROVE  EffectInv'
  <1>1. ASSUME NEW w \in Wallets, NEW i \in DOMAIN ledger[w]
        PROVE  EntryInv(w, i)'
    <2>1. w \in DOMAIN wallets
      BY DEF SafetyInv, LedgerContinuity
    <2>2. EntryInv(w, i)
      BY DEF EffectInv
    <2>3. ledger[w][i].version + Len(ledger[w]) = wallets[w].version + i
      BY <2>2 DEF EntryInv
    <2> QED BY <2>1, <2>2, <2>3, EntryKept
  <1>2. ASSUME NEW t \in DOMAIN wagers', Effective(wagers'[t])
        PROVE  \E i \in DOMAIN ledger[wagers'[t].req.wallet] :
                  ledger[wagers'[t].req.wallet][i].tx = t
    BY <1>2 DEF EffectInv, Effective, SettledKept
  <1> QED BY <1>1, <1>2 DEF EffectInv, Effective

\* The step appends to wallet w the entry e, the effect of row t which had none.
AppendsEffect(w, t, e) ==
    /\ ledger'[w] = Append(ledger[w], e)
    /\ \A v \in Wallets : v # w => ledger'[v] = ledger[v]
    /\ \A v \in DOMAIN wallets : v # w => wallets'[v].version = wallets[v].version
    /\ wallets'[w].version = e.version
    /\ ledger[w] # <<>> => e.version = wallets[w].version + 1
    /\ t \in DOMAIN wagers => ~Effective(wagers[t])
    /\ \A u \in DOMAIN wagers' : u # t => u \in DOMAIN wagers /\ wagers'[u] = wagers[u]
    /\ Effective(wagers'[t]) /\ wagers'[t].req.wallet = w /\ e.tx = t
    /\ e.amount = wagers'[t].req.amount /\ e.after = wagers'[t].balance
    /\ wagers'[t].req.kind \in ReversalKinds =>
          \E j \in DOMAIN ledger[w] : ledger[w][j].tx = wagers'[t].refTx

\* Such a step keeps rows and entries paired.
LEMMA EffectMove ==
    ASSUME SafetyInv, DecisionInv, EffectInv, SettledKept,
           NEW w \in Wallets, NEW t \in DOMAIN wagers', NEW e \in Entry,
           AppendsEffect(w, t, e), e.direction = RowDirection(t)'
    PROVE  EffectInv'
  <1> USE DEF AppendsEffect
  <1>0. /\ TypeOK /\ ledger \in [Wallets -> Seq(Entry)] /\ ledger[w] \in Seq(Entry)
        /\ \A v \in Wallets : v # w => ledger'[v] = ledger[v]
        /\ ledger'[w] = Append(ledger[w], e)
    BY DEF SafetyInv, TypeOK
  <1>1. PICK n \in Nat : n = Len(ledger[w])
    BY <1>0
  <1>2. /\ DOMAIN ledger[w] = 1 .. n /\ DOMAIN ledger'[w] = 1 .. n + 1
        /\ Len(ledger'[w]) = n + 1 /\ ledger'[w][n + 1] = e
        /\ \A i \in 1 .. n : ledger'[w][i] = ledger[w][i]
    BY <1>0, <1>1
  <1>3. \A v \in Wallets : \A i \in DOMAIN ledger[v] :
           /\ EntryInv(v, i) /\ ledger[v][i].tx # t /\ v \in DOMAIN wallets
    BY DEF EffectInv, EntryInv, Effective, SafetyInv, LedgerContinuity
  <1>4. ASSUME NEW v \in Wallets, NEW i \in DOMAIN ledger'[v]
        PROVE  /\ EntryInv(v, i)'
               /\ \A j \in DOMAIN ledger'[v] : ledger'[v][i].tx = ledger'[v][j].tx => i = j
    <2>1. CASE v # w
      <3>1. ledger'[v] = ledger[v] /\ i \in DOMAIN ledger[v]
        BY <1>0, <2>1
      <3>2. wallets'[v].version = wallets[v].version
        BY <1>3, <2>1, <3>1
      <3>3. EntryInv(v, i)
        BY <1>3, <3>1
      <3>4. ledger[v][i].version + Len(ledger[v]) = wallets[v].version + i
        BY <3>3 DEF EntryInv
      <3>5. EntryInv(v, i)'
        BY <3>1, <3>2, <3>3, <3>4, EntryKept
      <3>6. \A j \in DOMAIN ledger[v] : ledger[v][i].tx = ledger[v][j].tx => i = j
        BY <3>1 DEF EffectInv
      <3> QED BY <3>1, <3>5, <3>6
    <2>2. CASE v = w /\ i # n + 1
      <3>1. i \in 1 .. n /\ i \in DOMAIN ledger[w]
        BY <1>2, <2>2
      <3>2. EntryInv(w, i) /\ ledger[w][i] \in Entry
        BY <1>0, <1>3, <3>1
      <3>3. ledger[w][i].version + n = wallets[w].version + i
        BY <1>1, <3>2 DEF EntryInv
      <3>4. ledger[w] # <<>> /\ wallets[w].version \in Nat /\ ledger[w][i].version \in Nat
        <4>1. w \in DOMAIN wallets BY <1>3, <3>1
        <4>2. wallets[w] \in Wallet BY <1>0, <4>1 DEF TypeOK
        <4>3. ledger[w] # <<>> BY <1>1, <3>1
        <4> QED BY <3>2, <4>2, <4>3 DEF Wallet, Entry
      <3>5. ledger[w][i].version + (n + 1) = wallets'[w].version + i
        <4>1. wallets'[w].version = wallets[w].version + 1
          BY <3>4
        <4>2. PICK x \in Nat, y \in Nat : x = ledger[w][i].version /\ y = wallets[w].version
          BY <3>4
        <4>3. x + n = y + i /\ i \in Nat
          BY <3>1, <3>3, <4>2
        <4>4. x + (n + 1) = (y + 1) + i
          BY <4>3
        <4> QED BY <4>1, <4>2, <4>4
      <3>6. EntryInv(w, i)'
        <4>1. \A j \in DOMAIN ledger[w] : j \in DOMAIN ledger'[w] /\ ledger'[w][j] = ledger[w][j]
          BY <1>2
        <4>2. ledger[w][i].version + Len(ledger'[w]) = wallets'[w].version + i
          BY <1>2, <3>5
        <4> QED BY <3>1, <3>2, <4>1, <4>2, EntryKept
      <3>7. \A j \in 1 .. n + 1 : ledger'[w][i].tx = ledger'[w][j].tx => i = j
        BY <1>2, <1>3, <3>1 DEF EffectInv
      <3> QED BY <1>2, <2>2, <3>6, <3>7
    <2>3. CASE v = w /\ i = n + 1
      <3>1. ledger'[w][i] = e
        BY <1>2, <2>3
      <3>2. wagers'[t].req.kind \in ReversalKinds =>
               \E j \in DOMAIN ledger'[w] : j < i /\ ledger'[w][j].tx = wagers'[t].refTx
        BY <1>2, <2>3
      <3>3. (ledger[w][i].direction = RowDirection(ledger[w][i].tx))'
        BY <3>1 DEF RowDirection
      <3>4. (ledger[w][i].version + Len(ledger[w]) = wallets[w].version + i)'
        BY <1>2, <2>3, <3>1 DEF Entry
      <3>5. EntryInv(w, i)'
        BY <3>1, <3>2, <3>3, <3>4 DEF EntryInv, Effective
      <3>6. \A j \in 1 .. n + 1 : ledger'[w][i].tx = ledger'[w][j].tx => i = j
        BY <1>2, <1>3, <2>3
      <3> QED BY <1>2, <2>3, <3>5, <3>6
    <2> QED BY <2>1, <2>2, <2>3
  <1>5. ASSUME NEW u \in DOMAIN wagers', Effective(wagers'[u])
        PROVE  \E i \in DOMAIN ledger'[wagers'[u].req.wallet] :
                  ledger'[wagers'[u].req.wallet][i].tx = u
    <2>1. CASE u = t
      BY <1>2, <2>1
    <2>2. CASE u # t
      <3>1. u \in DOMAIN wagers /\ wagers'[u] = wagers[u] BY <2>2
      <3>2. PICK i \in DOMAIN ledger[wagers[u].req.wallet] :
               ledger[wagers[u].req.wallet][i].tx = u
        <4>1. wagers[u].status = "PROCESSED" /\ wagers[u].req.kind # "LOSS"
          BY <1>5, <3>1 DEF Effective
        <4> QED BY <3>1, <4>1 DEF EffectInv
      <3>3. wagers[u].req.wallet \in Wallets
        BY <1>0, <3>1 DEF TypeOK, Row, Request
      <3>4. CASE wagers[u].req.wallet = w
        BY <1>2, <3>1, <3>2, <3>4
      <3>5. CASE wagers[u].req.wallet # w
        <4>1. ledger'[wagers[u].req.wallet] = ledger[wagers[u].req.wallet]
          BY <1>0, <3>3, <3>5
        <4> HIDE DEF AppendsEffect
        <4> QED BY <3>1, <3>2, <4>1
      <3> QED BY <3>4, <3>5
    <2> QED BY <2>1, <2>2
  <1> QED BY <1>4, <1>5 DEF EffectInv, Effective

-----------------------------------------------------------------------------
\* What a plan about to commit says of the movement it makes, or does not make.
LEMMA PlanMeans ==
    ASSUME SafetyInv, DecisionInv, NEW a \in Actors, pc[a] = "commit", Writes(plan[a])
    PROVE  LET p == plan[a]
           IN  /\ Moves(p) <=> p.answer.status = "PROCESSED" /\ req[a].kind # "LOSS"
               /\ Moves(p) => p.direction =
                     Direction(req[a].kind, IF p.refTx = NoTx THEN None
                                            ELSE wagers[p.refTx].req.kind)
               /\ ~Moves(p) /\ p.answer.status \in Terminal =>
                     p.answer.balance = acct[a].balance
               /\ p.answer.status \in Statuses
               /\ p.answer.status = "PENDING_REFERENCE" =>
                     a \in Sessions /\ p.answer.balance = 0
  <1>0. \A k, x : Direction(k, x) \in {"DEBIT", "CREDIT"} /\ Direction(k, x) # None
    BY NoneAssumption DEF Direction
  <1>1. CASE plan[a] = PendingPlan(a) /\ a \in Sessions
    BY <1>1 DEF PendingPlan, NoPlan, NoAnswer, Moves, Terminal, Statuses
  <1>2. CASE \E t \in TxIds \cup {NoTx}, f \in FailureCodes \cup {None} :
                plan[a] = FinishPlan(a, t, f, acct[a].balance)
    <2>1. PICK t \in TxIds \cup {NoTx}, f \in FailureCodes \cup {None} :
             plan[a] = FinishPlan(a, t, f, acct[a].balance)
      BY <1>2
    <2> DEFINE r == req[a]
               direction == Direction(r.kind, IF t = NoTx THEN None
                                              ELSE wagers[t].req.kind)
               code == IF f # None \/ r.kind = "LOSS" THEN f
                       ELSE MovementFailure(r.kind, direction, acct[a].balance, r.amount)
               moved == code = None /\ r.kind # "LOSS"
    <2>2. /\ plan[a].answer.status = IF code = None THEN "PROCESSED" ELSE "REJECTED"
          /\ plan[a].refTx = t
          /\ plan[a].direction = IF moved THEN direction ELSE None
          /\ ~moved => plan[a].answer.balance = acct[a].balance
      BY <2>1 DEF FinishPlan
    <2>3. direction # None BY <1>0
    <2> HIDE DEF direction, code
    <2>4. Moves(plan[a]) <=> moved
      BY <2>2, <2>3 DEF Moves
    <2>5. Moves(plan[a]) => plan[a].direction = direction
      BY <2>2, <2>4
    <2>6. plan[a].answer.status \in Terminal /\ plan[a].answer.status # "PENDING_REFERENCE"
      BY <2>2 DEF Terminal
    <2>7. moved <=> plan[a].answer.status = "PROCESSED" /\ req[a].kind # "LOSS"
      BY <2>2
    <2> QED BY <2>2, <2>4, <2>5, <2>6, <2>7 DEF direction, Statuses
  <1> QED BY <1>1, <1>2 DEF DecisionInv, JudgeInv, Decided

\* A reversal's reference has an effect.
LEMMA ReversedHasEffect ==
    ASSUME EffectInv, NEW r, r.kind \in ReversalKinds, NEW u, Accepted(r, u)
    PROVE  /\ Effective(wagers[u])
           /\ \E j \in DOMAIN ledger[r.wallet] : ledger[r.wallet][j].tx = u
  <1>1. /\ u \in DOMAIN wagers /\ wagers[u].status = "PROCESSED"
        /\ wagers[u].req.wallet = r.wallet
        /\ wagers[u].req.kind \in AllowedReferenceKinds(r.kind)
    BY AcceptedMeans
  <1>2. wagers[u].req.kind # "LOSS"
    BY <1>1 DEF AllowedReferenceKinds, ReversalKinds
  <1> QED BY <1>1, <1>2 DEF EffectInv, Effective

\* The commit of a movement appends the effect of its own row.
LEMMA CommitEffect ==
    ASSUME SafetyInv, IdentityInv, DecisionInv, EffectInv, NEW a \in Actors,
           pc[a] = "commit", ApplyWrites(a)
    PROVE  EffectInv'
  <1>0. TypeOK /\ SettledKept
    BY CommitTouches DEF SafetyInv
  <1>1. CASE CommitsNothing(a)
    <2>1. UNCHANGED <<ledger, wallets, wagers>>
      BY <1>1 DEF CommitsNothing, ApplyWrites, Moves, Writes
    <2> QED BY <1>0, <2>1, EffectQuiet
  <1>2. CASE CommitsSchedule(a)
    <2>1. UNCHANGED <<ledger, wallets>>
      BY <1>2 DEF CommitsSchedule, ApplyWrites, Moves, Writes
    <2>2. \A t \in DOMAIN wagers' : Effective(wagers'[t]) =>
             t \in DOMAIN wagers /\ Effective(wagers[t])
      BY <1>2 DEF CommitsSchedule, SameButSchedule, Effective
    <2> QED BY <1>0, <2>1, <2>2, EffectQuiet
  <1>3. CASE CommitsRow(a)
    <2>0. PICK t : t = TxOf(a) OBVIOUS
    <2>1. /\ Writes(plan[a]) /\ DOMAIN wagers' = DOMAIN wagers \cup {t}
          /\ \A u \in DOMAIN wagers : u # t => wagers'[u] = wagers[u]
          /\ wagers'[t].req = req[a] /\ wagers'[t].refTx = plan[a].refTx
          /\ wagers'[t].status = plan[a].answer.status
          /\ wagers'[t].balance = plan[a].answer.balance
          /\ t \in DOMAIN wagers => wagers[t].status = "PENDING_REFERENCE"
      BY <1>3, <2>0 DEF CommitsRow
    <2>2. CASE ~Moves(plan[a])
      <3>1. UNCHANGED <<ledger, wallets>>
        BY <2>2 DEF ApplyWrites
      <3>2. ~Effective(wagers'[t])
        BY <2>1, <2>2, PlanMeans DEF Effective
      <3>3. \A u \in DOMAIN wagers' : Effective(wagers'[u]) =>
               u \in DOMAIN wagers /\ Effective(wagers[u])
        BY <2>1, <3>2
      <3> QED BY <1>0, <3>1, <3>3, EffectQuiet
    <2>3. CASE Moves(plan[a])
      <3>0. PICK w, e : w = req[a].wallet /\ e = WrittenEntry(a) OBVIOUS
      <3>1. /\ w \in DOMAIN wallets /\ w \in Wallets /\ e \in Entry
            /\ e.version = wallets[w].version + 1 /\ e.after = plan[a].answer.balance
        BY <2>3, <3>0, WrittenEntryGood
      <3>2. e.tx = t /\ e.amount = req[a].amount /\ e.direction = plan[a].direction
            /\ e.version = acct[a].version + 1
        BY <2>0, <3>0 DEF WrittenEntry
      <3>3. /\ ledger' = [ledger EXCEPT ![w] = Append(@, e)]
            /\ wallets' = [wallets EXCEPT ![w].balance = plan[a].answer.balance,
                                          ![w].version = acct[a].version + 1]
        BY <2>3, <3>0 DEF ApplyWrites
      <3>4. /\ \A v \in DOMAIN wallets : v # w => wallets'[v].version = wallets[v].version
            /\ wallets'[w].version = e.version
        <4>1. wallets[w] \in Wallet BY <1>0, <3>1 DEF TypeOK
        <4> QED BY <1>0, <3>1, <3>2, <3>3, <4>1 DEF TypeOK, Wallet
      <3>5. Effective(wagers'[t]) /\ (t \in DOMAIN wagers => ~Effective(wagers[t]))
        BY <2>1, <2>3, PlanMeans DEF Effective
      <3>6. RowDirection(t)' = e.direction
        <4>1. plan[a].refTx # NoTx => wagers'[plan[a].refTx].req = wagers[plan[a].refTx].req
          BY <1>0, <2>1, PlannedReference, AcceptedMeans DEF SettledKept
        <4> QED BY <2>1, <2>3, <3>2, <4>1, PlanMeans DEF RowDirection
      <3>7. req[a].kind \in ReversalKinds =>
               \E j \in DOMAIN ledger[w] : ledger[w][j].tx = plan[a].refTx
        <4> SUFFICES ASSUME req[a].kind \in ReversalKinds
                     PROVE  \E j \in DOMAIN ledger[w] : ledger[w][j].tx = plan[a].refTx
          OBVIOUS
        <4>1. req[a].ref # None
          BY <2>1, ProcessedIsValid DEF ValidRequest, Writes
        <4>2. plan[a].answer.status = "PROCESSED"
          BY <2>1, <2>3, PlanMeans
        <4>3. Accepted(req[a], plan[a].refTx)
          BY <2>1, <4>1, <4>2, ProcessedPlan
        <4> QED BY <3>0, <4>3, ReversedHasEffect
      <3>8. wagers'[t].req.wallet = w
        BY <2>1, <3>0
      <3>9. /\ ledger'[w] = Append(ledger[w], e)
            /\ \A v \in Wallets : v # w => ledger'[v] = ledger[v]
        BY <1>0, <3>1, <3>3 DEF TypeOK
      <3>10. AppendsEffect(w, t, e)
        BY <2>1, <3>1, <3>2, <3>4, <3>5, <3>7, <3>8, <3>9 DEF AppendsEffect
      <3> QED BY <1>0, <2>1, <3>1, <3>6, <3>10, EffectMove
    <2> QED BY <2>2, <2>3
  <1> QED BY <1>1, <1>2, <1>3, CommitRows

\* The opening of a wallet with a balance is the first effect in it.
LEMMA OpenEffect ==
    ASSUME SafetyInv, DecisionInv, EffectInv, NEW o \in Openings, OpenWallet(o)
    PROVE  EffectInv'
  <1> DEFINE w == o.wallet
  <1>0. /\ TypeOK /\ SettledKept /\ w \in Wallets /\ o.balance \in Money
        /\ w \notin DOMAIN wallets /\ ledger[w] = <<>> /\ w \notin DOMAIN wagers
    BY InputsAssumption, ActorsAssumption, OpenDecision
    DEF SafetyInv, LedgerContinuity, OpenWallet, TablesInv
  <1>1. /\ \A v \in DOMAIN wallets : wallets'[v] = wallets[v]
        /\ wallets'[w].version = 1
    BY <1>0 DEF OpenWallet, Extend
  <1>2. CASE UNCHANGED <<wagers, ledger>>
    BY <1>0, <1>1, <1>2, EffectQuiet
  <1>3. CASE o.balance > 0
    <2>0. PICK e : e = [tx |-> w, direction |-> "CREDIT", amount |-> o.balance,
                        before |-> 0, after |-> o.balance, version |-> 1]
      OBVIOUS
    <2>1. /\ wagers' = Extend(wagers, w, OpeningRow(o))
          /\ ledger' = [ledger EXCEPT ![w] = Append(@, e)]
      BY <1>3, <2>0 DEF OpenWallet
    <2>2. /\ DOMAIN wagers' = DOMAIN wagers \cup {w}
          /\ \A t \in DOMAIN wagers : wagers'[t] = wagers[t]
          /\ wagers'[w] = OpeningRow(o)
      BY <1>0, <2>1 DEF Extend
    <2>3. /\ OpeningRow(o).req.kind = "OPENING" /\ OpeningRow(o).req.wallet = w
          /\ OpeningRow(o).status = "PROCESSED" /\ OpeningRow(o).refTx = NoTx
          /\ OpeningRow(o).req.amount = o.balance /\ OpeningRow(o).balance = o.balance
      BY DEF OpeningRow
    <2>4. /\ e.tx = w /\ e.amount = o.balance /\ e.after = o.balance /\ e.version = 1
          /\ e.direction = "CREDIT"
      BY <2>0
    <2>5. e \in Entry
      BY <1>0, <2>0, MaxMoneyAssumption DEF Entry, TxIds, Money
    <2>6. RowDirection(w)' = "CREDIT"
      BY <2>2, <2>3 DEF RowDirection, Direction
    <2>7. Effective(wagers'[w]) /\ wagers'[w].req.kind \notin ReversalKinds
      BY <2>2, <2>3 DEF Effective, ReversalKinds
    <2> HIDE DEF w
    <2>8. /\ ledger'[w] = Append(ledger[w], e)
          /\ \A v \in Wallets : v # w => ledger'[v] = ledger[v]
      BY <1>0, <2>1 DEF TypeOK
    <2>9. AppendsEffect(w, w, e)
      BY <1>0, <1>1, <2>2, <2>3, <2>4, <2>7, <2>8 DEF AppendsEffect
    <2> QED BY <1>0, <2>2, <2>4, <2>5, <2>6, <2>9, EffectMove
  <1> QED BY <1>2, <1>3 DEF OpenWallet

\* Every step keeps rows and entries paired.
LEMMA NextEffect ==
    SafetyInv /\ IdentityInv /\ DecisionInv /\ EffectInv /\ [Next]_vars => EffectInv'
  <1> SUFFICES ASSUME SafetyInv, IdentityInv, DecisionInv, EffectInv, [Next]_vars
               PROVE  EffectInv'
    OBVIOUS
  <1>0. SettledKept BY NextDecision
  <1>1. ASSUME UNCHANGED <<wagers, ledger, wallets>> PROVE EffectInv'
    BY <1>0, <1>1, EffectQuiet
  <1>2. ASSUME NEW a \in Actors, ReadStep(a) PROVE EffectInv'
    BY <1>1, <1>2, ReadStepFrame DEF SafetyInv, tables
  <1>3. ASSUME NEW a \in Actors, Commit(a) \/ CommitReplyLost(a) PROVE EffectInv'
    BY <1>3, CommitEffect DEF Commit, CommitReplyLost
  <1>4. ASSUME NEW o \in Openings, OpenWallet(o) PROVE EffectInv'
    BY <1>4, OpenEffect
  <1>5. ASSUME NEW t \in DOMAIN wagers, DOMAIN wagers' = DOMAIN wagers,
               SameButSchedule(wagers'[t], wagers[t]), UNCHANGED <<ledger, wallets>>,
               \A u \in DOMAIN wagers : u # t => wagers'[u] = wagers[u]
        PROVE  EffectInv'
    <2>1. \A u \in DOMAIN wagers' : Effective(wagers'[u]) =>
             u \in DOMAIN wagers /\ Effective(wagers[u])
      BY <1>5 DEF SameButSchedule, Effective
    <2> QED BY <1>0, <1>5, <2>1, EffectQuiet
  <1>6. ASSUME NEW r \in Workers, NEW t \in TxIds, Claim(r, t) PROVE EffectInv'
    BY <1>5, <1>6, ClaimRow DEF Claim
  <1>7. ASSUME NEW t \in TxIds, TimePasses(t) PROVE EffectInv'
    <2>1. UNCHANGED <<ledger, wallets>>
      BY <1>7 DEF TimePasses, BecomeDue, LeaseExpires, TTLPasses, Scheduled
    <2> QED BY <1>5, <1>7, <2>1, TimeRow
  <1>8. ASSUME UNCHANGED vars PROVE EffectInv'
    BY <1>1, <1>8 DEF vars, tables
  <1> QED BY <1>2, <1>3, <1>4, <1>6, <1>7, <1>8, NextShape

\* The four invariants hold together.
THEOREM Effects == Spec => [](SafetyInv /\ IdentityInv /\ DecisionInv /\ EffectInv)
  <1>1. Init => EffectInv
    <2> SUFFICES ASSUME Init PROVE EffectInv OBVIOUS
    <2>1. DOMAIN wagers = {} /\ \A w \in Wallets : ledger[w] = <<>>
      BY DEF Init
    <2> QED BY <2>1 DEF EffectInv
  <1> QED BY <1>1, Decisions, NextEffect, PTL DEF Spec

-----------------------------------------------------------------------------
(* What the pairing of rows and entries says                                *)

\* The places of t are pairs of a wallet and an index in its ledger.
LEMMA EntryPlaces ==
    ASSUME NEW t
    PROVE  /\ \A w \in Wallets : \A i \in DOMAIN ledger[w] :
                 ledger[w][i].tx = t => <<w, i>> \in EntriesOf(t)
           /\ \A x \in EntriesOf(t) : \E w \in Wallets : \E i \in DOMAIN ledger[w] :
                 x = <<w, i>> /\ ledger[w][i].tx = t
  BY DEF EntriesOf

\* An effective row has one place, any other row and any other id has none.
LEMMA PlacesOfEffect ==
    ASSUME SafetyInv, EffectInv, NEW t
    PROVE  IF t \in DOMAIN wagers /\ Effective(wagers[t])
           THEN \E i \in DOMAIN ledger[wagers[t].req.wallet] :
                   /\ EntriesOf(t) = {<<wagers[t].req.wallet, i>>}
                   /\ ledger[wagers[t].req.wallet][i].tx = t
                   /\ EntryInv(wagers[t].req.wallet, i)
           ELSE EntriesOf(t) = {}
  <1>1. \A w \in Wallets : \A i \in DOMAIN ledger[w] : ledger[w][i].tx = t =>
           /\ t \in DOMAIN wagers /\ Effective(wagers[t]) /\ wagers[t].req.wallet = w
           /\ EntryInv(w, i)
    BY DEF EffectInv, EntryInv, Effective
  <1>2. CASE t \in DOMAIN wagers /\ Effective(wagers[t])
    <2>1. PICK w \in Wallets : w = wagers[t].req.wallet
      BY <1>2 DEF SafetyInv, TypeOK, Row, Request
    <2>2. PICK i \in DOMAIN ledger[w] : ledger[w][i].tx = t
      BY <1>2, <2>1 DEF EffectInv, Effective
    <2>3. ASSUME NEW x \in EntriesOf(t) PROVE x = <<w, i>>
      <3>1. PICK v \in Wallets : \E j \in DOMAIN ledger[v] :
               x = <<v, j>> /\ ledger[v][j].tx = t
        BY EntryPlaces
      <3>2. PICK j \in DOMAIN ledger[v] : x = <<v, j>> /\ ledger[v][j].tx = t
        BY <3>1
      <3>3. v = w BY <1>1, <2>1, <3>2
      <3>4. j = i BY <2>2, <3>2, <3>3 DEF EffectInv
      <3> QED BY <3>2, <3>3, <3>4
    <2>4. EntriesOf(t) = {<<w, i>>}
      BY <2>2, <2>3, EntryPlaces
    <2> QED BY <1>1, <1>2, <2>1, <2>2, <2>4
  <1>3. CASE ~(t \in DOMAIN wagers /\ Effective(wagers[t]))
    BY <1>1, <1>3, EntryPlaces
  <1> QED BY <1>2, <1>3

\* A wager has one effect, of its amount and in its wallet, or none.
LEMMA EffectIsOne == ASSUME SafetyInv, EffectInv PROVE OneEffectPerWager
  <1> SUFFICES ASSUME NEW t \in TxIds
               PROVE  IF t \in DOMAIN wagers /\ Effective(wagers[t])
                      THEN /\ Cardinality(EntriesOf(t)) = 1
                           /\ \A x \in EntriesOf(t) :
                                 /\ x[1] = wagers[t].req.wallet
                                 /\ ledger[x[1]][x[2]].amount = wagers[t].req.amount
                                 /\ ledger[x[1]][x[2]].after = wagers[t].balance
                      ELSE EntriesOf(t) = {}
    BY DEF OneEffectPerWager, Effective
  <1>1. CASE t \in DOMAIN wagers /\ Effective(wagers[t])
    <2>1. PICK w, i : /\ w = wagers[t].req.wallet /\ EntriesOf(t) = {<<w, i>>}
                      /\ ledger[w][i].tx = t /\ EntryInv(w, i)
      BY <1>1, PlacesOfEffect
    <2>2. Cardinality(EntriesOf(t)) = 1
      BY <2>1, FS_Singleton
    <2> QED BY <1>1, <2>1, <2>2 DEF EntryInv
  <1>2. CASE ~(t \in DOMAIN wagers /\ Effective(wagers[t]))
    BY <1>2, PlacesOfEffect
  <1> QED BY <1>1, <1>2

\* The direction of a reversal is the opposite of that of what it may reverse.
LEMMA OppositeDirection ==
    ASSUME NEW k \in ReversalKinds, NEW u \in AllowedReferenceKinds(k), NEW v,
           u = "REFUND" => v = "BET"
    PROVE  Direction(k, u) # Direction(u, v)
  BY DEF ReversalKinds, AllowedReferenceKinds, Direction

\* A reversal is the opposite of the effect it refers to, and later.
LEMMA ReversalIsOpposite ==
    ASSUME SafetyInv, IdentityInv, DecisionInv, EffectInv
    PROVE  ReversalUndoesReference
  <1>0. TypeOK BY DEF SafetyInv
  <1> SUFFICES ASSUME NEW t \in DOMAIN wagers, ProcessedReversal(t)
               PROVE  LET u == wagers[t].refTx
                      IN  /\ u \in DOMAIN wagers
                          /\ \A x \in EntriesOf(t) : \E y \in EntriesOf(u) :
                                /\ x[1] = y[1]
                                /\ ledger[x[1]][x[2]].direction # ledger[y[1]][y[2]].direction
                                /\ ledger[x[1]][x[2]].amount = ledger[y[1]][y[2]].amount
                                /\ ledger[x[1]][x[2]].version > ledger[y[1]][y[2]].version
    BY DEF ReversalUndoesReference
  <1> DEFINE u == wagers[t].refTx
  <1>1. Accepted(wagers[t].req, u)
    <2>1. wagers[t].req.kind \in ReversalKinds /\ wagers[t].status = "PROCESSED" /\ RowInv(t)
      BY DEF ProcessedReversal, DecisionInv
    <2>2. ValidRequest(wagers[t].req)
      BY <2>1 DEF IdentityInv, ReversalKinds
    <2> QED BY <2>1, <2>2 DEF ValidRequest, RowInv
  <1>2. /\ u \in DOMAIN wagers /\ wagers[u].status = "PROCESSED" /\ u # NoTx
        /\ wagers[t].req.kind \in ReversalKinds
        /\ wagers[u].req.kind \in AllowedReferenceKinds(wagers[t].req.kind)
        /\ wagers[u].req.amount = wagers[t].req.amount
    BY <1>0, <1>1, AcceptedMeans, NoNullRow DEF ProcessedReversal
  <1>3. wagers[u].req.kind = "REFUND" =>
           wagers[u].refTx # NoTx /\ wagers[wagers[u].refTx].req.kind = "BET"
    <2> SUFFICES ASSUME wagers[u].req.kind = "REFUND"
                 PROVE  wagers[u].refTx # NoTx /\ wagers[wagers[u].refTx].req.kind = "BET"
      OBVIOUS
    <2>1. RowInv(u) /\ ValidRequest(wagers[u].req)
      BY <1>2 DEF DecisionInv, IdentityInv
    <2>2. Accepted(wagers[u].req, wagers[u].refTx)
      BY <1>2, <2>1 DEF RowInv, ValidRequest, ReversalKinds
    <2> QED BY <1>0, <2>2, AcceptedMeans, NoNullRow DEF AllowedReferenceKinds
  <1>4. RowDirection(t) # RowDirection(u)
    BY <1>2, <1>3, OppositeDirection DEF RowDirection
  <1> HIDE DEF u
  <1>5. ASSUME NEW w \in Wallets, NEW i \in DOMAIN ledger[w], ledger[w][i].tx = t
        PROVE  \E y \in EntriesOf(u) :
                  /\ w = y[1]
                  /\ ledger[w][i].direction # ledger[y[1]][y[2]].direction
                  /\ ledger[w][i].amount = ledger[y[1]][y[2]].amount
                  /\ ledger[w][i].version > ledger[y[1]][y[2]].version
    <2>1. EntryInv(w, i) BY DEF EffectInv
    <2>2. PICK j \in DOMAIN ledger[w] : j < i /\ ledger[w][j].tx = u
      BY <1>2, <1>5, <2>1 DEF EntryInv, u
    <2>3. EntryInv(w, j) BY DEF EffectInv
    <2>4. /\ ledger[w][i].direction # ledger[w][j].direction
          /\ ledger[w][i].amount = ledger[w][j].amount
      BY <1>2, <1>4, <1>5, <2>1, <2>2, <2>3 DEF EntryInv
    <2>5. ledger[w][i].version > ledger[w][j].version
      <3>1. /\ ledger[w][i].version + Len(ledger[w]) = wallets[w].version + i
            /\ ledger[w][j].version + Len(ledger[w]) = wallets[w].version + j
        BY <2>1, <2>3 DEF EntryInv
      <3>2. ledger[w] \in Seq(Entry) BY <1>0 DEF TypeOK
      <3>3. ledger[w][i] \in Entry /\ ledger[w][j] \in Entry /\ Len(ledger[w]) \in Nat
            /\ i \in Nat /\ j \in Nat
        BY <3>2
      <3>4. w \in DOMAIN wallets BY DEF SafetyInv, LedgerContinuity
      <3>5. PICK p \in Nat, q \in Nat, n \in Nat, v \in Nat :
               /\ p = ledger[w][i].version /\ q = ledger[w][j].version
               /\ n = Len(ledger[w]) /\ v = wallets[w].version
        BY <1>0, <3>3, <3>4 DEF TypeOK, Entry, Wallet
      <3>6. p + n = v + i /\ q + n = v + j BY <3>1, <3>5
      <3>7. p > q BY <2>2, <3>3, <3>6
      <3> QED BY <3>5, <3>7
    <2>6. <<w, j>> \in EntriesOf(u) BY <2>2, EntryPlaces
    <2> QED BY <2>4, <2>5, <2>6
  <1>6. ASSUME NEW x \in EntriesOf(t)
        PROVE  \E y \in EntriesOf(u) :
                  /\ x[1] = y[1]
                  /\ ledger[x[1]][x[2]].direction # ledger[y[1]][y[2]].direction
                  /\ ledger[x[1]][x[2]].amount = ledger[y[1]][y[2]].amount
                  /\ ledger[x[1]][x[2]].version > ledger[y[1]][y[2]].version
    <2>0. PICK w \in Wallets : \E i \in DOMAIN ledger[w] :
             x = <<w, i>> /\ ledger[w][i].tx = t
      BY EntryPlaces
    <2>1. PICK i \in DOMAIN ledger[w] : x = <<w, i>> /\ ledger[w][i].tx = t
      BY <2>0
    <2>2. x[1] = w /\ x[2] = i BY <2>1
    <2> QED BY <1>5, <2>1, <2>2
  <1> QED BY <1>2, <1>6 DEF u

\* Replays, redeliveries, retries, lost acknowledgements and resumed references
\* never apply a wager's effect twice and never lose one, whatever the number of
\* sessions and workers: commit moves the row and the entry together, once.
THEOREM EffectsHappenOnce == Spec => []OneEffectPerWager
  BY Effects, EffectIsOne, PTL

\* A processed REFUND or ROLLBACK moves the amount of what it refers to the other
\* way, in the same wallet and later, also when it is itself a reversal's target.
THEOREM ReversalsUndo == Spec => []ReversalUndoesReference
  BY Effects, ReversalIsOpposite, PTL

-----------------------------------------------------------------------------
(* The backstops of the database                                            *)

\* A transaction about to commit meets no constraint, trigger or stale version.
LEMMA CommitAccepted ==
    ASSUME SafetyInv, IdentityInv, DecisionInv, EffectInv,
           NEW a \in Actors, pc[a] = "commit"
    PROVE  /\ WalletUpdateAccepted(a) /\ LedgerEntryAccepted(a)
           /\ WagerResultAccepted(a) /\ ReversalIndexAccepts(a)
           /\ a \in Workers => PendingUpdateAccepted(a)
  <1>0. TypeOK /\ ActorInv(a) BY DEF SafetyInv
  <1>1. ASSUME Writes(plan[a]) PROVE LockInv(a) /\ ValidRequest(req[a]) /\ req[a] \in Request
    BY <1>0, <1>1, ProcessedIsValid DEF ActorInv, Holding, Writes
  <1>2. ASSUME Moves(plan[a])
        PROVE  /\ Writes(plan[a]) /\ plan[a].answer.status = "PROCESSED"
               /\ req[a].kind # "LOSS" /\ req[a].amount > 0 /\ req[a].amount \in Money
    <2>1. Writes(plan[a]) BY <1>2 DEF Moves
    <2>2. plan[a].answer.status = "PROCESSED" /\ req[a].kind # "LOSS"
      BY <1>2, <2>1, PlanMeans
    <2> QED BY <1>1, <2>1, <2>2 DEF ValidRequest, Request
  <1>3. WalletUpdateAccepted(a)
    <2> SUFFICES ASSUME Moves(plan[a])
                 PROVE  /\ req[a].wallet \in DOMAIN wallets
                        /\ wallets[req[a].wallet].version = acct[a].version
                        /\ wallets[req[a].wallet].balance = acct[a].balance
                        /\ WrittenEntry(a).after # WrittenEntry(a).before
      BY DEF WalletUpdateAccepted
    <2>1. /\ WrittenEntry(a) \in Entry /\ WrittenEntry(a).amount = req[a].amount
          /\ WrittenEntry(a).after = Moved(WrittenEntry(a).direction,
                                           WrittenEntry(a).before, WrittenEntry(a).amount)
      BY WrittenEntryGood DEF WrittenEntry
    <2>2. WrittenEntry(a).after # WrittenEntry(a).before
      BY <1>2, <2>1, MaxMoneyAssumption DEF Entry, Moved, Money
    <2> QED BY <1>1, <1>2, <2>2 DEF LockInv
  <1>4. LedgerEntryAccepted(a)
    <2> DEFINE r == req[a]
               e == WrittenEntry(a)
               u == plan[a].refTx
               q == wagers[u].req
    <2> SUFFICES ASSUME Moves(plan[a])
                 PROVE  /\ e.amount > 0 /\ e.after = Moved(e.direction, e.before, e.amount)
                        /\ \A i \in DOMAIN ledger[r.wallet] :
                              /\ ledger[r.wallet][i].tx # e.tx
                              /\ ledger[r.wallet][i].version # e.version
                        /\ plan[a].answer.status = "PROCESSED" /\ r.kind # "LOSS"
                        /\ r.kind = "BET" => e.direction = "DEBIT"
                        /\ r.kind \in {"WIN", "REFUND"} => e.direction = "CREDIT"
                        /\ r.kind = "ROLLBACK" => (e.direction = "CREDIT") = (q.kind = "BET")
                        /\ u # NoTx =>
                              /\ wagers[u].status = "PROCESSED"
                              /\ q.ext = r.ref
                              /\ <<q.provider, q.wallet, q.player, q.currency, q.round>>
                                    = <<r.provider, r.wallet, r.player, r.currency, r.round>>
                              /\ r.kind = "WIN" \/ r.amount = q.amount
                              /\ q.kind \in AllowedReferenceKinds(r.kind)
      BY DEF LedgerEntryAccepted
    <2>1. /\ e \in Entry /\ e.after = Moved(e.direction, e.before, e.amount)
          /\ e.version = wallets[r.wallet].version + 1
          /\ r.wallet \in DOMAIN wallets /\ r.wallet \in Wallets
      BY WrittenEntryGood
    <2>2. e.tx = TxOf(a) /\ e.amount = r.amount /\ e.direction = plan[a].direction
      BY DEF WrittenEntry
    <2> HIDE DEF e
    <2>3. /\ Writes(plan[a]) /\ plan[a].answer.status = "PROCESSED" /\ r.kind # "LOSS"
          /\ e.amount > 0 /\ ValidRequest(r)
      BY <1>1, <1>2, <2>2
    <2>4. ASSUME NEW i \in DOMAIN ledger[r.wallet]
          PROVE  ledger[r.wallet][i].tx # e.tx /\ ledger[r.wallet][i].version # e.version
      <3>1. EntryInv(r.wallet, i) BY <2>1 DEF EffectInv
      <3>2. ledger[r.wallet][i].tx # TxOf(a)
        <4>1. CASE a \in Sessions
          BY <1>0, <3>1, <4>1 DEF EntryInv, TxOf, ActorInv
        <4>2. CASE a \notin Sessions
          BY <3>1, <4>2 DEF EntryInv, TxOf, Actors, DecisionInv, ClaimInv
        <4> QED BY <4>1, <4>2
      <3>3. ledger[r.wallet][i].version + Len(ledger[r.wallet]) = wallets[r.wallet].version + i
        BY <3>1 DEF EntryInv
      <3>4. ledger[r.wallet] \in Seq(Entry) BY <1>0, <2>1 DEF TypeOK
      <3>5. /\ ledger[r.wallet][i] \in Entry /\ Len(ledger[r.wallet]) \in Nat
            /\ i \in 1 .. Len(ledger[r.wallet])
        BY <3>4
      <3>6. PICK p \in Nat, n \in Nat, v \in Nat :
               /\ p = ledger[r.wallet][i].version
               /\ n = Len(ledger[r.wallet]) /\ v = wallets[r.wallet].version
        BY <1>0, <2>1, <3>5 DEF TypeOK, Entry, Wallet
      <3>7. p + n = v + i /\ i \in 1 .. n BY <3>3, <3>5, <3>6
      <3>8. p # v + 1 BY <3>7
      <3> QED BY <2>1, <2>2, <3>2, <3>6, <3>8
    <2>5. /\ e.direction = Direction(r.kind, IF u = NoTx THEN None ELSE q.kind)
      BY <2>2, <2>3, PlanMeans
    <2>6. u # NoTx => Accepted(r, u)
      BY <2>3, PlannedReference
    <2>7. r.kind \in ReversalKinds => u # NoTx
      <3>1. r.kind \in ReversalKinds => r.ref # None BY <2>3 DEF ValidRequest
      <3>2. r.ref # None => Accepted(r, u) BY <2>3, ProcessedPlan
      <3>3. Accepted(r, u) => u # NoTx BY <1>0, AcceptedMeans, NoNullRow
      <3> QED BY <3>1, <3>2, <3>3
    <2>8. /\ r.kind = "BET" => e.direction = "DEBIT"
          /\ r.kind \in {"WIN", "REFUND"} => e.direction = "CREDIT"
          /\ r.kind = "ROLLBACK" => (e.direction = "CREDIT") = (q.kind = "BET")
      BY <2>5, <2>7 DEF Direction, ReversalKinds
    <2>9. u # NoTx =>
             /\ wagers[u].status = "PROCESSED"
             /\ q.ext = r.ref
             /\ <<q.provider, q.wallet, q.player, q.currency, q.round>>
                   = <<r.provider, r.wallet, r.player, r.currency, r.round>>
             /\ r.kind = "WIN" \/ r.amount = q.amount
             /\ q.kind \in AllowedReferenceKinds(r.kind)
      <3> SUFFICES ASSUME u # NoTx
                   PROVE  /\ wagers[u].status = "PROCESSED"
                          /\ q.ext = r.ref
                          /\ <<q.provider, q.wallet, q.player, q.currency, q.round>>
                                = <<r.provider, r.wallet, r.player, r.currency, r.round>>
                          /\ r.kind = "WIN" \/ r.amount = q.amount
                          /\ q.kind \in AllowedReferenceKinds(r.kind)
        OBVIOUS
      <3>1. Accepted(r, u) /\ r.ref # None BY <2>6 DEF Accepted
      <3>2. r.kind \in {"WIN", "REFUND", "ROLLBACK"}
        BY <2>3, <3>1 DEF ValidRequest, ExternalKinds
      <3> QED BY <3>1, <3>2, AcceptedMeans DEF ReversalKinds
    <2> QED BY <2>1, <2>3, <2>4, <2>8, <2>9
  <1>5. WagerResultAccepted(a)
    <2> SUFFICES ASSUME Writes(plan[a])
                 PROVE  /\ plan[a].answer.status \in Terminal /\ ~Moves(plan[a]) =>
                              /\ plan[a].answer.status = "REJECTED" \/ req[a].kind = "LOSS"
                              /\ wallets[req[a].wallet].balance = plan[a].answer.balance
                        /\ plan[a].answer.status = "PROCESSED" /\ req[a].ref # None =>
                              plan[a].refTx # NoTx
      BY DEF WagerResultAccepted
    <2>1. LockInv(a) BY <1>1
    <2>2. plan[a].answer.status = "PROCESSED" /\ req[a].ref # None => plan[a].refTx # NoTx
      BY <1>0, ProcessedPlan, AcceptedMeans, NoNullRow
    <2>3. plan[a].answer.status \in Terminal /\ ~Moves(plan[a]) =>
             /\ plan[a].answer.status = "REJECTED" \/ req[a].kind = "LOSS"
             /\ acct[a].balance = plan[a].answer.balance
      BY PlanMeans DEF Terminal
    <2> QED BY <2>1, <2>2, <2>3 DEF LockInv
  <1>6. ReversalIndexAccepts(a)
    <2> DEFINE reverses(b) == /\ pc[b] = "commit" /\ Moves(plan[b])
                              /\ req[b].kind \in ReversalKinds
    <2>1. ASSUME NEW b \in Actors, reverses(b)
          PROVE  /\ Holding(b) /\ ~HasProcessedReversal(plan[b].refTx)
                 /\ wagers[plan[b].refTx].req.wallet = req[b].wallet
      <3>1. Writes(plan[b]) BY <2>1 DEF Moves
      <3>2. plan[b].answer.status = "PROCESSED" BY <2>1, <3>1, PlanMeans
      <3>3. ValidRequest(req[b]) BY <2>1, <3>1, ProcessedIsValid DEF Writes
      <3>4. /\ Accepted(req[b], plan[b].refTx)
            /\ ~HasProcessedReversal(plan[b].refTx)
        BY <2>1, <3>1, <3>2, <3>3, ProcessedPlan DEF ValidRequest
      <3> QED BY <2>1, <3>1, <3>4, AcceptedMeans DEF Holding, Writes
    <2>2. ASSUME reverses(a), NEW b \in Actors \ {a}, reverses(b)
          PROVE  plan[b].refTx # plan[a].refTx
      BY <2>1, <2>2, HoldersApart
    <2> QED BY <2>1, <2>2 DEF ReversalIndexAccepts
  <1>7. a \in Workers => PendingUpdateAccepted(a)
    BY DEF PendingUpdateAccepted, DecisionInv, ClaimInv
  <1> QED BY <1>3, <1>4, <1>5, <1>6, <1>7

\* The version test of the wallet update, the triggers, the CHECKs and the index on
\* reversals refuse no transaction of the service: the wallet lock and the reads
\* under it already ensure what they enforce.
THEOREM DatabaseNeverRefuses == Spec => []DatabaseAccepts
  <1>1. SafetyInv /\ IdentityInv /\ DecisionInv /\ EffectInv => DatabaseAccepts
    BY CommitAccepted DEF DatabaseAccepts
  <1> QED BY <1>1, Effects, PTL

-----------------------------------------------------------------------------
(* The outbox                                                               *)

Waited == <<Event("PendingReference", 0, 0)>>

\* The events f tell the final state of row t.
FinalEvents(t, f) ==
    IF wagers[t].status = "REJECTED" THEN f = <<Event("Rejected", wagers[t].balance, 0)>>
    ELSE IF EntriesOf(t) = {} THEN f = ProcessedEvents(wagers[t].balance, FALSE, 0)
    ELSE \E x \in EntriesOf(t) :
            f = ProcessedEvents(wagers[t].balance, TRUE, ledger[x[1]][x[2]].version)

\* The outbox tells the history of t.
Told(t) ==
    IF t \notin DOMAIN wagers THEN outbox[t] = <<>>
    ELSE IF wagers[t].status = "PENDING_REFERENCE" THEN outbox[t] = Waited
    ELSE \E f : FinalEvents(t, f) /\ (outbox[t] = f \/ outbox[t] = Waited \o f)

\* OutboxTellsHistory, wager by wager.
LEMMA ToldIs == OutboxTellsHistory <=> \A t \in TxIds : Told(t)
  BY DEF OutboxTellsHistory, Told, FinalEvents, Waited

\* The event sequences a transaction writes are sequences.
LEMMA EventsAreSequences ==
    /\ \A x : <<>> \o <<x>> = <<x>>
    /\ \A b, m, v : <<>> \o ProcessedEvents(b, m, v) = ProcessedEvents(b, m, v)
  <1>1. ASSUME NEW x PROVE <<>> \o <<x>> = <<x>>
    <2>1. <<x>> \in Seq({x}) OBVIOUS
    <2> QED BY <2>1, ConcatEmptySeq
  <1>2. ASSUME NEW b, NEW m, NEW v
        PROVE  <<>> \o ProcessedEvents(b, m, v) = ProcessedEvents(b, m, v)
    <2>1. PICK x, y : x = Event("Processed", b, 0) /\ y = Event("BalanceChanged", b, v)
      OBVIOUS
    <2>2. <<x>> \in Seq({x, y}) /\ <<y>> \in Seq({x, y}) /\ <<>> \in Seq({x, y})
      OBVIOUS
    <2>3. <<x>> \o (IF m THEN <<y>> ELSE <<>>) \in Seq({x, y})
      <3>1. CASE m BY <2>2, <3>1, ConcatProperties
      <3>2. CASE ~m BY <2>2, <3>2, ConcatProperties
      <3> QED BY <3>1, <3>2
    <2>4. ProcessedEvents(b, m, v) \in Seq({x, y})
      BY <2>1, <2>3 DEF ProcessedEvents
    <2> QED BY <2>4, ConcatEmptySeq
  <1> QED BY <1>1, <1>2

\* The history of a wager that a step does not touch stays told.
LEMMA ToldKept ==
    ASSUME NEW t, Told(t), outbox'[t] = outbox[t], t \in DOMAIN wagers' <=> t \in DOMAIN wagers,
           t \in DOMAIN wagers => /\ wagers'[t].status = wagers[t].status
                                  /\ wagers'[t].balance = wagers[t].balance,
           EntriesOf(t)' = EntriesOf(t),
           \A x \in EntriesOf(t) : ledger'[x[1]][x[2]] = ledger[x[1]][x[2]]
    PROVE  Told(t)'
  <1>1. ASSUME NEW f, FinalEvents(t, f), t \in DOMAIN wagers PROVE FinalEvents(t, f)'
    BY <1>1 DEF FinalEvents
  <1>2. CASE t \in DOMAIN wagers /\ wagers[t].status # "PENDING_REFERENCE"
    <2>1. PICK f : FinalEvents(t, f) /\ (outbox[t] = f \/ outbox[t] = Waited \o f)
      BY <1>2 DEF Told
    <2> QED BY <1>1, <1>2, <2>1 DEF Told, Waited
  <1>3. CASE ~(t \in DOMAIN wagers /\ wagers[t].status # "PENDING_REFERENCE")
    BY <1>3 DEF Told, Waited
  <1> QED BY <1>2, <1>3

\* The entries of other wagers are where they were.
LEMMA EntriesKept ==
    ASSUME TypeOK, NEW w \in Wallets, NEW e, ledger'[w] = Append(ledger[w], e),
           \A v \in Wallets : v # w => ledger'[v] = ledger[v], NEW t, t # e.tx
    PROVE  /\ EntriesOf(t)' = EntriesOf(t)
           /\ \A x \in EntriesOf(t) : ledger'[x[1]][x[2]] = ledger[x[1]][x[2]]
  <1>1. ledger[w] \in Seq(Entry) BY DEF TypeOK
  <1>2. /\ \A i \in DOMAIN ledger[w] : i \in DOMAIN ledger'[w] /\ ledger'[w][i] = ledger[w][i]
        /\ \A i \in DOMAIN ledger'[w] : i \in DOMAIN ledger[w] \/ ledger'[w][i] = e
    BY <1>1
  <1>3. ASSUME NEW v \in Wallets
        PROVE  {i \in DOMAIN ledger'[v] : ledger'[v][i].tx = t}
                  = {i \in DOMAIN ledger[v] : ledger[v][i].tx = t}
    BY <1>2
  <1>4. EntriesOf(t)' = EntriesOf(t)
    BY <1>3 DEF EntriesOf
  <1>5. ASSUME NEW x \in EntriesOf(t) PROVE ledger'[x[1]][x[2]] = ledger[x[1]][x[2]]
    <2>1. PICK v \in Wallets : \E i \in DOMAIN ledger[v] :
             x = <<v, i>> /\ ledger[v][i].tx = t
      BY EntryPlaces
    <2>2. PICK i \in DOMAIN ledger[v] : x = <<v, i>> /\ ledger[v][i].tx = t
      BY <2>1
    <2> QED BY <1>2, <2>2
  <1> QED BY <1>4, <1>5

\* The events of a commit are those of its own row, and are new.
LEMMA CommitTells ==
    ASSUME SafetyInv, IdentityInv, DecisionInv, EffectInv, \A t \in TxIds : Told(t),
           NEW a \in Actors, pc[a] = "commit", ApplyWrites(a)
    PROVE  \A t \in TxIds : Told(t)'
  <1>0. TypeOK /\ EffectInv' /\ ActorInv(a)
    BY CommitEffect DEF SafetyInv
  <1>1. ASSUME ~Writes(plan[a]), NEW t \in TxIds PROVE Told(t)'
    <2>1. UNCHANGED <<ledger, outbox>>
      BY <1>1 DEF ApplyWrites, Moves
    <2>2. /\ t \in DOMAIN wagers' <=> t \in DOMAIN wagers
          /\ t \in DOMAIN wagers => /\ wagers'[t].status = wagers[t].status
                                    /\ wagers'[t].balance = wagers[t].balance
      BY <1>1, CommitRows
      DEF CommitsNothing, CommitsSchedule, CommitsRow, SameButSchedule
    <2> QED BY <2>1, <2>2, ToldKept DEF EntriesOf
  <1>2. ASSUME Writes(plan[a]) PROVE \A t \in TxIds : Told(t)'
    <2>0. PICK t, w, e : t = TxOf(a) /\ w = req[a].wallet /\ e = WrittenEntry(a) OBVIOUS
    <2>1. CommitsRow(a) /\ t \in TxIds
      BY <1>0, <1>2, <2>0, CommitRows, TxOfTyped
      DEF CommitsNothing, CommitsSchedule, Writes
    <2>2. /\ DOMAIN wagers' = DOMAIN wagers \cup {t}
          /\ \A u \in DOMAIN wagers : u # t => wagers'[u] = wagers[u]
          /\ wagers'[t].req = req[a]
          /\ wagers'[t].status = plan[a].answer.status
          /\ wagers'[t].balance = plan[a].answer.balance
          /\ a \in Sessions => t \notin DOMAIN wagers
          /\ t \in DOMAIN wagers => wagers[t].status = "PENDING_REFERENCE"
      BY <2>0, <2>1 DEF CommitsRow
    <2>3. /\ outbox' = [outbox EXCEPT ![t] = @ \o WrittenEvents(a)]
          /\ outbox'[t] = outbox[t] \o WrittenEvents(a)
          /\ \A u \in TxIds : u # t => outbox'[u] = outbox[u]
      <3>1. outbox' = [outbox EXCEPT ![t] = @ \o WrittenEvents(a)]
        BY <1>2, <2>0 DEF ApplyWrites
      <3> QED BY <1>0, <2>1, <3>1 DEF TypeOK
    <2>4. e.tx = t /\ e.version = acct[a].version + 1
      BY <2>0 DEF WrittenEntry
    <2>5. \/ ~Moves(plan[a]) /\ UNCHANGED ledger
          \/ /\ Moves(plan[a]) /\ w \in Wallets /\ ledger'[w] = Append(ledger[w], e)
             /\ \A v \in Wallets : v # w => ledger'[v] = ledger[v]
      <3>1. CASE Moves(plan[a])
        <4>1. w \in Wallets BY <2>0, <3>1, WrittenEntryGood
        <4>2. ledger' = [ledger EXCEPT ![w] = Append(@, e)]
          BY <2>0, <3>1 DEF ApplyWrites
        <4> QED BY <1>0, <3>1, <4>1, <4>2 DEF TypeOK
      <3>2. CASE ~Moves(plan[a])
        BY <3>2 DEF ApplyWrites
      <3> QED BY <3>1, <3>2
    <2>6. ASSUME NEW u \in TxIds, u # t PROVE Told(u)'
      <3>1. /\ EntriesOf(u)' = EntriesOf(u)
            /\ \A x \in EntriesOf(u) : ledger'[x[1]][x[2]] = ledger[x[1]][x[2]]
        <4>1. CASE UNCHANGED ledger BY <4>1 DEF EntriesOf
        <4>2. CASE /\ w \in Wallets /\ ledger'[w] = Append(ledger[w], e)
                   /\ \A v \in Wallets : v # w => ledger'[v] = ledger[v]
          BY <1>0, <2>4, <2>6, <4>2, EntriesKept
        <4> QED BY <2>5, <4>1, <4>2
      <3> QED BY <2>2, <2>3, <2>6, <3>1, ToldKept
    <2>7. Told(t)'
      <3>0. PICK f : f = WrittenEvents(a) OBVIOUS
      <3>1. /\ outbox[t] = IF t \in DOMAIN wagers THEN Waited ELSE <<>>
            /\ outbox'[t] = outbox[t] \o f
        BY <2>1, <2>2, <2>3, <3>0 DEF Told
      <3>2. CASE plan[a].answer.status = "PENDING_REFERENCE"
        <4>1. t \notin DOMAIN wagers
          BY <1>2, <2>2, <3>2, PlanMeans
        <4>2. f = <<Event("PendingReference", 0, 0)>>
          BY <1>2, <3>0, <3>2 DEF WrittenEvents
        <4>3. outbox'[t] = Waited
          BY <3>1, <4>1, <4>2, EventsAreSequences DEF Waited
        <4> QED BY <2>2, <3>2, <4>3 DEF Told, Waited
      <3>3. ASSUME plan[a].answer.status # "PENDING_REFERENCE",
                   FinalEvents(t, f)', <<>> \o f = f
            PROVE  Told(t)'
        <4>1. outbox'[t] = f \/ outbox'[t] = Waited \o f
          BY <3>1, <3>3
        <4> QED BY <2>2, <3>3, <4>1 DEF Told, Waited
      <3>4. CASE plan[a].answer.status = "REJECTED"
        <4>1. f = <<Event("Rejected", plan[a].answer.balance, 0)>>
          BY <1>2, <3>0, <3>4 DEF WrittenEvents
        <4>2. FinalEvents(t, f)'
          BY <2>2, <3>4, <4>1 DEF FinalEvents
        <4> QED BY <3>3, <3>4, <4>1, <4>2, EventsAreSequences
      <3>5. CASE plan[a].answer.status = "PROCESSED"
        <4>1. f = ProcessedEvents(plan[a].answer.balance, Moves(plan[a]), acct[a].version + 1)
          BY <1>2, <3>0, <3>5 DEF WrittenEvents
        <4>2. Moves(plan[a]) <=> Effective(wagers'[t])
          BY <1>2, <2>2, <3>5, PlanMeans DEF Effective
        <4>3. CASE ~Moves(plan[a])
          <5>1. ASSUME NEW x \in EntriesOf(t)' PROVE FALSE
            <6>1. PICK v \in Wallets : \E i \in DOMAIN ledger'[v] : ledger'[v][i].tx = t
              BY <5>1 DEF EntriesOf
            <6>2. PICK i \in DOMAIN ledger'[v] : ledger'[v][i].tx = t BY <6>1
            <6>3. EntryInv(v, i)' BY <1>0 DEF EffectInv
            <6>4. Effective(wagers'[t]) BY <6>2, <6>3 DEF EntryInv, Effective
            <6> QED BY <4>2, <4>3, <6>4
          <5>2. f = ProcessedEvents(wagers'[t].balance, FALSE, 0)
            BY <2>2, <4>1, <4>3 DEF ProcessedEvents
          <5>3. FinalEvents(t, f)'
            BY <2>2, <3>5, <5>1, <5>2 DEF FinalEvents
          <5> QED BY <3>3, <3>5, <4>1, <5>3, EventsAreSequences
        <4>4. CASE Moves(plan[a])
          <5>1. PICK i : i \in DOMAIN ledger'[w] /\ ledger'[w][i] = e
            <6>1. ledger[w] \in Seq(Entry) BY <1>0, <2>5, <4>4 DEF TypeOK
            <6>2. /\ Len(ledger[w]) + 1 \in DOMAIN Append(ledger[w], e)
                  /\ Append(ledger[w], e)[Len(ledger[w]) + 1] = e
              BY <6>1
            <6> QED BY <2>5, <4>4, <6>2
          <5>2. PICK x : x = <<w, i>> OBVIOUS
          <5>3. x \in EntriesOf(t)'
            BY <2>4, <2>5, <4>4, <5>1, <5>2 DEF EntriesOf
          <5>4. ledger'[x[1]][x[2]].version = acct[a].version + 1
            BY <2>4, <5>1, <5>2
          <5>5. f = ProcessedEvents(wagers'[t].balance, TRUE, acct[a].version + 1)
            BY <2>2, <4>1, <4>4 DEF ProcessedEvents
          <5>6. f = ProcessedEvents(wagers'[t].balance, TRUE, ledger'[x[1]][x[2]].version)
            BY <5>4, <5>5
          <5>7. FinalEvents(t, f)'
            BY <2>2, <3>5, <5>3, <5>6 DEF FinalEvents
          <5> QED BY <3>3, <3>5, <4>1, <5>7, EventsAreSequences
        <4> QED BY <4>3, <4>4
      <3> QED BY <1>2, <3>2, <3>4, <3>5, PlanMeans DEF Statuses, Terminal
    <2> QED BY <2>6, <2>7
  <1> QED BY <1>1, <1>2

\* The opening of a wallet tells its own credit.
LEMMA OpenTells ==
    ASSUME SafetyInv, DecisionInv, \A t \in TxIds : Told(t),
           NEW o \in Openings, OpenWallet(o)
    PROVE  \A t \in TxIds : Told(t)'
  <1>0. /\ TypeOK /\ o.wallet \in Wallets /\ o.wallet \in TxIds
        /\ o.wallet \notin DOMAIN wallets /\ o.wallet \notin DOMAIN wagers
        /\ ledger[o.wallet] = <<>>
    BY InputsAssumption, ActorsAssumption
    DEF SafetyInv, LedgerContinuity, OpenWallet, TablesInv, TxIds
  <1>1. CASE UNCHANGED <<wagers, ledger, outbox>>
    BY <1>1, ToldKept DEF EntriesOf
  <1>2. CASE o.balance > 0
    <2>0. PICK w, e, f :
             /\ w = o.wallet /\ f = ProcessedEvents(o.balance, TRUE, 1)
             /\ e = [tx |-> w, direction |-> "CREDIT", amount |-> o.balance,
                     before |-> 0, after |-> o.balance, version |-> 1]
      OBVIOUS
    <2>1. /\ wagers' = Extend(wagers, w, OpeningRow(o))
          /\ ledger' = [ledger EXCEPT ![w] = Append(@, e)]
          /\ outbox' = [outbox EXCEPT ![w] = @ \o f]
      BY <1>2, <2>0 DEF OpenWallet
    <2>2. /\ DOMAIN wagers' = DOMAIN wagers \cup {w}
          /\ \A t \in DOMAIN wagers : wagers'[t] = wagers[t]
          /\ wagers'[w].status = "PROCESSED" /\ wagers'[w].balance = o.balance
      BY <1>0, <2>0, <2>1 DEF Extend, OpeningRow
    <2>3. /\ ledger'[w] = Append(ledger[w], e)
          /\ \A v \in Wallets : v # w => ledger'[v] = ledger[v]
          /\ outbox'[w] = outbox[w] \o f
          /\ \A u \in TxIds : u # w => outbox'[u] = outbox[u]
      BY <1>0, <2>0, <2>1 DEF TypeOK
    <2>4. ASSUME NEW u \in TxIds, u # w PROVE Told(u)'
      <3>1. u # e.tx /\ w \in Wallets BY <1>0, <2>0, <2>4
      <3>2. /\ EntriesOf(u)' = EntriesOf(u)
            /\ \A x \in EntriesOf(u) : ledger'[x[1]][x[2]] = ledger[x[1]][x[2]]
        BY <1>0, <2>3, <3>1, EntriesKept
      <3> QED BY <2>2, <2>3, <2>4, <3>2, ToldKept
    <2>5. Told(w)'
      <3>1. outbox'[w] = f
        <4>1. outbox[w] = <<>>
          BY <1>0, <2>0 DEF Told
        <4>2. <<>> \o f = f
          BY <2>0, EventsAreSequences
        <4> QED BY <2>3, <4>1, <4>2
      <3>2. 1 \in DOMAIN ledger'[w] /\ ledger'[w][1] = e
        BY <1>0, <2>0, <2>3
      <3>3. PICK x : x = <<w, 1>> OBVIOUS
      <3>4. x \in EntriesOf(w)'
        BY <1>0, <2>0, <3>2, <3>3 DEF EntriesOf
      <3>5. f = ProcessedEvents(wagers'[w].balance, TRUE, ledger'[x[1]][x[2]].version)
        <4>1. ledger'[x[1]][x[2]].version = 1
          BY <2>0, <3>2, <3>3
        <4> QED BY <2>0, <2>2, <4>1
      <3>6. FinalEvents(w, f)'
        BY <2>2, <3>4, <3>5 DEF FinalEvents
      <3> QED BY <2>2, <3>1, <3>6 DEF Told
    <2> QED BY <2>4, <2>5
  <1> QED BY <1>1, <1>2 DEF OpenWallet

\* Every step keeps the outbox true.
LEMMA NextTells ==
    ASSUME SafetyInv, IdentityInv, DecisionInv, EffectInv, OutboxTellsHistory, [Next]_vars
    PROVE  OutboxTellsHistory'
  <1>0. \A t \in TxIds : Told(t) BY ToldIs
  <1> SUFFICES \A t \in TxIds : Told(t)'
    BY DEF OutboxTellsHistory, Told, FinalEvents, Waited
  <1>1. ASSUME UNCHANGED <<wagers, ledger, outbox>> PROVE \A t \in TxIds : Told(t)'
    BY <1>0, <1>1, ToldKept DEF EntriesOf
  <1>2. ASSUME NEW a \in Actors, ReadStep(a) PROVE \A t \in TxIds : Told(t)'
    BY <1>1, <1>2, ReadStepFrame DEF SafetyInv, tables
  <1>3. ASSUME NEW a \in Actors, Commit(a) \/ CommitReplyLost(a)
        PROVE  \A t \in TxIds : Told(t)'
    BY <1>0, <1>3, CommitTells DEF Commit, CommitReplyLost
  <1>4. ASSUME NEW o \in Openings, OpenWallet(o) PROVE \A t \in TxIds : Told(t)'
    BY <1>0, <1>4, OpenTells
  <1>5. ASSUME NEW u \in DOMAIN wagers, DOMAIN wagers' = DOMAIN wagers,
               SameButSchedule(wagers'[u], wagers[u]), UNCHANGED <<ledger, outbox>>,
               \A v \in DOMAIN wagers : v # u => wagers'[v] = wagers[v]
        PROVE  \A t \in TxIds : Told(t)'
    <2>1. \A t \in DOMAIN wagers : /\ wagers'[t].status = wagers[t].status
                                   /\ wagers'[t].balance = wagers[t].balance
      BY <1>5 DEF SameButSchedule
    <2> QED BY <1>0, <1>5, <2>1, ToldKept DEF EntriesOf
  <1>6. ASSUME NEW r \in Workers, NEW t \in TxIds, Claim(r, t)
        PROVE  \A u \in TxIds : Told(u)'
    BY <1>5, <1>6, ClaimRow DEF Claim
  <1>7. ASSUME NEW t \in TxIds, TimePasses(t) PROVE \A u \in TxIds : Told(u)'
    <2>1. UNCHANGED <<ledger, outbox>>
      BY <1>7 DEF TimePasses, BecomeDue, LeaseExpires, TTLPasses, Scheduled
    <2> QED BY <1>5, <1>7, <2>1, TimeRow
  <1>8. ASSUME UNCHANGED vars PROVE \A t \in TxIds : Told(t)'
    BY <1>1, <1>8 DEF vars, tables
  <1> QED BY <1>2, <1>3, <1>4, <1>6, <1>7, <1>8, NextShape

\* The outbox tells the history of every wager, each fact once and in order, with
\* the balance the wager reports and the version of its ledger entry: what is
\* published follows from what was committed, however often the commit was tried.
THEOREM OutboxIsTrue == Spec => []OutboxTellsHistory
  <1>1. Init => OutboxTellsHistory
    BY DEF Init, OutboxTellsHistory
  <1>2. SafetyInv /\ IdentityInv /\ DecisionInv /\ EffectInv /\ OutboxTellsHistory
           /\ [Next]_vars => OutboxTellsHistory'
    BY NextTells
  <1> QED BY <1>1, <1>2, Effects, PTL DEF Spec
===============================================================================
