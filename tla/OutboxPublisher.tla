--------------------------- MODULE OutboxPublisher ---------------------------
(***************************************************************************)
(* The workers that publish outbox_events to the output queue.  A worker   *)
(* claims a due event in a transaction of its own, sends it, and confirms  *)
(* it or gives it back for a retry; a lease frees the events of a worker   *)
(* that died or lost its answer.                                           *)
(*                                                                         *)
(* Claim, Confirm and Retry are one SQL statement each and are atomic.     *)
(* What can go wrong between them is an action: a send that fails, one     *)
(* that arrives although it fails, a statement that fails, a claim whose   *)
(* answer is lost, a crash, a lease that ends while its worker still runs. *)
(***************************************************************************)
EXTENDS Integers, FiniteSets

CONSTANTS
    Events,       \* ids of events
    Publishers,   \* workers, over all instances of the service
    MaxFaults,    \* bound: failures injected in one behaviour
    None

ASSUME PublisherAssumption == None \notin Events /\ MaxFaults \in Nat

VARIABLES
    rows,     \* table outbox_events: a function on the events recorded
    copies,   \* how often the output queue accepted an event (external)
    pc,       \* the next call of ProcessOne
    held,     \* the event a worker has claimed
    token,    \* the lease token it was given
    faults    \* failures injected so far

vars == <<rows, copies, pc, held, token, faults>>

\* The lease token is a fresh UUID; the number of the attempt, counted up by the
\* same UPDATE, names it.  0 is SQL NULL.  due says that next_attempt_at passed.
Row == [published : BOOLEAN, token : Nat, lease : {"free", "live", "over"},
        due : BOOLEAN, attempts : Nat]

Init ==
    /\ rows = [e \in {} |-> None]
    /\ copies = [e \in Events |-> 0]
    /\ pc = [p \in Publishers |-> "poll"]
    /\ held = [p \in Publishers |-> None]
    /\ token = [p \in Publishers |-> 0]
    /\ faults = 0

\* OutboxRepository.Insert, made visible by the commit of the operation.
Record(e) ==
    /\ e \notin DOMAIN rows
    /\ rows' = [x \in DOMAIN rows \cup {e} |->
                   IF x = e THEN [published |-> FALSE, token |-> 0, lease |-> "free",
                                  due |-> FALSE, attempts |-> 0]
                   ELSE rows[x]]
    /\ UNCHANGED <<copies, pc, held, token, faults>>

-----------------------------------------------------------------------------
\* One failure more; every action that is one has this conjunct.
Fault == faults < MaxFaults /\ faults' = faults + 1

\* ProcessOne returns: the worker forgets the event and polls again.
Return(p) ==
    /\ pc' = [pc EXCEPT ![p] = "poll"]
    /\ held' = [held EXCEPT ![p] = None]
    /\ token' = [token EXCEPT ![p] = 0]

\* Mutants: the lease of a claimed event is not looked at; it is never over.
ClaimableIgnoringLease(e) ==
    /\ e \in DOMAIN rows
    /\ ~rows[e].published
ClaimableFreeOnly(e) ==
    /\ e \in DOMAIN rows
    /\ ~rows[e].published
    /\ rows[e].due
    /\ rows[e].lease = "free"

\* The WHERE clause of Claim.
Claimable(e) ==
    /\ e \in DOMAIN rows
    /\ ~rows[e].published
    /\ rows[e].due
    /\ rows[e].lease # "live"

\* Its UPDATE: next_attempt_at is set to the end of the lease.
Claimed(e) ==
    [rows EXCEPT ![e] = [@ EXCEPT !.token = rows[e].attempts + 1, !.lease = "live",
                                  !.due = FALSE, !.attempts = rows[e].attempts + 1]]

Claim(p, e) ==
    /\ pc[p] = "poll"
    /\ Claimable(e)
    /\ rows' = Claimed(e)
    /\ pc' = [pc EXCEPT ![p] = "publish"]
    /\ held' = [held EXCEPT ![p] = e]
    /\ token' = [token EXCEPT ![p] = rows[e].attempts + 1]
    /\ UNCHANGED <<copies, faults>>

\* The claim is committed and its answer is lost: nobody works on the event.
ClaimReplyLost(p, e) ==
    /\ pc[p] = "poll"
    /\ Claimable(e)
    /\ Fault
    /\ rows' = Claimed(e)
    /\ UNCHANGED <<copies, pc, held, token>>

-----------------------------------------------------------------------------
\* Publish: the queue accepts the message and the worker learns it.
Send(p) ==
    /\ pc[p] = "publish"
    /\ copies' = [copies EXCEPT ![held[p]] = @ + 1]
    /\ pc' = [pc EXCEPT ![p] = "confirm"]
    /\ UNCHANGED <<rows, held, token, faults>>

\* Mutant: the error of Publish is dropped.
SendFailsUnnoticed(p) ==
    /\ pc[p] = "publish"
    /\ Fault
    /\ pc' = [pc EXCEPT ![p] = "confirm"]
    /\ UNCHANGED <<rows, copies, held, token>>

\* Publish returns an error, also when its context is cancelled by a shutdown;
\* the message may have been accepted all the same.
SendFails(p) ==
    /\ pc[p] = "publish"
    /\ Fault
    /\ \/ UNCHANGED copies
       \/ copies' = [copies EXCEPT ![held[p]] = @ + 1]
    /\ pc' = [pc EXCEPT ![p] = "retry"]
    /\ UNCHANGED <<rows, held, token>>

\* Mutant: the event is updated by its id, whoever holds its lease.
HoldsByIdOnly(p) == ~rows[held[p]].published

\* The WHERE clause of Confirm and Retry.  That the lease may be over does not
\* matter as long as nobody has claimed the event since.
Holds(p) ==
    /\ rows[held[p]].token = token[p]
    /\ ~rows[held[p]].published

\* Zero rows updated is ErrConcurrentWrite: the worker gives up.  An answer that
\* is lost after the update leaves the same state.
Confirm(p) ==
    /\ pc[p] = "confirm"
    /\ IF Holds(p)
       THEN rows' = [rows EXCEPT ![held[p]] =
                        [@ EXCEPT !.published = TRUE, !.token = 0, !.lease = "free"]]
       ELSE UNCHANGED rows
    /\ Return(p)
    /\ UNCHANGED <<copies, faults>>

\* The event is given back and is due again after the backoff.
Retry(p) ==
    /\ pc[p] = "retry"
    /\ IF Holds(p)
       THEN rows' = [rows EXCEPT ![held[p]] =
                        [@ EXCEPT !.token = 0, !.lease = "free", !.due = FALSE]]
       ELSE UNCHANGED rows
    /\ Return(p)
    /\ UNCHANGED <<copies, faults>>

\* Confirm or Retry fails, or the process dies anywhere in ProcessOne.
GiveUp(p) ==
    /\ pc[p] # "poll"
    /\ Fault
    /\ Return(p)
    /\ UNCHANGED <<rows, copies>>

-----------------------------------------------------------------------------
\* next_attempt_at passes for an event nobody has claimed.
BecomeDue(e) ==
    /\ e \in DOMAIN rows
    /\ ~rows[e].published /\ rows[e].lease = "free" /\ ~rows[e].due
    /\ rows' = [rows EXCEPT ![e].due = TRUE]
    /\ UNCHANGED <<copies, pc, held, token, faults>>

\* A worker is within the processing timeout of its attempt.
InProgress(e) ==
    \E p \in Publishers : held[p] = e /\ token[p] = rows[e].token /\ pc[p] # "retry"

\* locked_until, and with it next_attempt_at, passes for an abandoned claim, or
\* during Retry, which has a time of its own after that of the attempt.
LeaseExpires(e) ==
    /\ e \in DOMAIN rows
    /\ rows[e].lease = "live"
    /\ ~InProgress(e)
    /\ rows' = [rows EXCEPT ![e].lease = "over", ![e].due = TRUE]
    /\ UNCHANGED <<copies, pc, held, token, faults>>

\* The same under an attempt that still runs: config.validate makes the lease
\* longer than its timeout, so a stalled process is needed.
LeaseExpiresEarly(e) ==
    /\ e \in DOMAIN rows
    /\ rows[e].lease = "live"
    /\ InProgress(e)
    /\ Fault
    /\ rows' = [rows EXCEPT ![e].lease = "over", ![e].due = TRUE]
    /\ UNCHANGED <<copies, pc, held, token>>

-----------------------------------------------------------------------------
Work(p) == Send(p) \/ Confirm(p) \/ Retry(p)

\* Everything is published, nobody works.
Idle == /\ \A e \in DOMAIN rows : rows[e].published
        /\ \A p \in Publishers : pc[p] = "poll"
        /\ UNCHANGED vars

Publish ==
    \/ \E p \in Publishers, e \in Events : Claim(p, e) \/ ClaimReplyLost(p, e)
    \/ \E p \in Publishers : Work(p) \/ SendFails(p) \/ GiveUp(p)
    \/ \E e \in Events : BecomeDue(e) \/ LeaseExpires(e) \/ LeaseExpiresEarly(e)

Next ==
    \/ \E e \in Events : Record(e)
    \/ Publish
    \/ Idle

Spec == Init /\ [][Next]_vars

\* The workers' loop goes on, a send succeeds unless a failure is injected, time
\* passes, and Claim takes the event that is due for longest, so none is passed
\* over for ever.
Fairness ==
    /\ \A p \in Publishers : WF_vars(Work(p))
    /\ \A e \in Events : /\ SF_vars(\E p \in Publishers : Claim(p, e))
                         /\ WF_vars(BecomeDue(e))
                         /\ WF_vars(LeaseExpires(e))

FairSpec == Spec /\ Fairness

-----------------------------------------------------------------------------
Labels == {"poll", "publish", "confirm", "retry"}

\* Every variable has its type; exactly a worker outside poll has an event and a
\* token.
TypeOK ==
    /\ DOMAIN rows \subseteq Events /\ rows \in [DOMAIN rows -> Row]
    /\ copies \in [Events -> Nat]
    /\ pc \in [Publishers -> Labels]
    /\ held \in [Publishers -> Events \cup {None}]
    /\ token \in [Publishers -> Nat]
    /\ faults \in 0 .. MaxFaults
    /\ \A p \in Publishers :
          IF pc[p] = "poll" THEN held[p] = None /\ token[p] = 0
          ELSE held[p] \in DOMAIN rows /\ token[p] > 0

\* Each copy beyond the first costs a failure of its own: without failures every
\* event is sent exactly once, however the workers interleave, and a failure
\* causes at most one copy too many, over all events together.
ExtraCopiesNeedFailures ==
    LET extra(e) == IF copies[e] = 0 THEN {} ELSE {e} \X (2 .. copies[e])
    IN  Cardinality(UNION {extra(e) : e \in Events}) <= faults

\* Only the worker of the latest claim may mark an event published or give it
\* back: one whose lease was taken over no longer has any effect, not even when
\* its send was the one that arrived.
LatestClaimDecides ==
    [][\A e \in DOMAIN rows :
          /\ rows[e].token # 0
          /\ rows'[e].token = 0
          => \E p \in Publishers : /\ held[p] = e
                                   /\ token[p] = rows[e].attempts
                                   /\ pc[p] \in {"confirm", "retry"}]_vars

\* The outbox implements the delivery it promises: recorded, delivered and
\* published are read off the table and the queue.
Delivery == INSTANCE EventDelivery WITH
               recorded <- DOMAIN rows,
               delivered <- {e \in Events : copies[e] > 0},
               published <- {e \in DOMAIN rows : rows[e].published}

\* Every recorded event reaches the queue and is published in the end, through
\* failed sends, lost answers, crashes and stalls; it is published only after it
\* was delivered, and never forgotten again.
DeliversEveryEvent == Delivery!FairSpec

=============================================================================
