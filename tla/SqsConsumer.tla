----------------------------- MODULE SqsConsumer -----------------------------
(***************************************************************************)
(* The instances of the service that consume the input queue: the polling  *)
(* loop, the handlers it starts, and the shutdown that has to end both.    *)
(*                                                                         *)
(* The queue is external.  A message is visible, hidden (in flight),       *)
(* deleted or in the dead letter queue.  The n-th time it is received, the *)
(* receipt handle is <<m, n>>; only the latest receipt has an effect.      *)
(* What Consume does to the database is the subject of Wagering; here it   *)
(* commits, refuses the message for good, fails or is cut off.             *)
(***************************************************************************)
EXTENDS Integers, FiniteSets

CONSTANTS
    Msgs,           \* messages of the input queue
    Content,        \* how Consume takes a message
    Instances,      \* processes that run a Consumer
    Concurrency,    \* capacity of the semaphore
    ReceiveBatch,   \* messages asked for at once
    MaxReceive,     \* maxReceiveCount of the redrive policy
    MaxFaults,      \* bound: failures injected in one behaviour
    MaxStops,       \* bound: shutdowns in one behaviour
    None

\* Envelopes that do not decode, that are refused for good, that are accepted,
\* and that are refused until something else happens (a wallet not yet open).
Contents == {"invalid", "refused", "valid", "unsure"}

ASSUME ConsumerAssumption ==
    /\ Content \in [Msgs -> Contents]
    /\ {Concurrency, ReceiveBatch, MaxReceive} \subseteq Nat \ {0}
    /\ MaxFaults \in Nat /\ MaxStops \in Nat
    /\ None \notin Instances

VARIABLES
    queue,       \* per message: where it is and how often it was received
    committed,   \* messages whose wager and inbox row are committed
    phase,       \* how far the shutdown of an instance is
    loop,        \* the next step of run
    room,        \* the batch size availableBatch returned, until Receive has
    work,        \* per delivery: what is done with it, and by which instance
    faults,      \* failures injected so far
    stops        \* shutdowns so far

vars == <<queue, committed, phase, loop, room, work, faults, stops>>

Deliveries == Msgs \X (1 .. MaxReceive)
Latest(m) == <<m, queue[m].count>>

Batch(i) == {d \in Deliveries : work[d] = [at |-> "batch", by |-> i]}
Handling == {"consume", "delete", "release", "defer"}
Busy(i) == {d \in Deliveries : work[d].by = i /\ work[d].at \in Handling}

Init ==
    /\ queue = [m \in Msgs |-> [place |-> "visible", count |-> 0]]
    /\ committed = {}
    /\ phase = [i \in Instances |-> "running"]
    /\ loop = [i \in Instances |-> "poll"]
    /\ room = [i \in Instances |-> 0]
    /\ work = [d \in Deliveries |-> [at |-> "none", by |-> None]]
    /\ faults = 0
    /\ stops = 0

Fault == faults < MaxFaults /\ faults' = faults + 1

-----------------------------------------------------------------------------
(* THE POLLING LOOP.  pollCtx is cancelled as soon as the phase is no       *)
(* longer "running".                                                        *)

\* Mutant: busy handlers are not subtracted.
AvailableBatchIgnoringBusy(i) ==
    /\ loop[i] = "poll"
    /\ loop' = [loop EXCEPT ![i] = "receive"]
    /\ room' = [room EXCEPT ![i] = ReceiveBatch]
    /\ UNCHANGED <<queue, committed, phase, work, faults, stops>>

\* With all slots taken the loop waits for one; it does not look at pollCtx
\* when one is free.
AvailableBatch(i) ==
    LET free == Concurrency - Cardinality(Busy(i))
    IN  /\ loop[i] = "poll"
        /\ free > 0
        /\ loop' = [loop EXCEPT ![i] = "receive"]
        /\ room' = [room EXCEPT ![i] = IF free < ReceiveBatch THEN free ELSE ReceiveBatch]
        /\ UNCHANGED <<queue, committed, phase, work, faults, stops>>

NoSlotCancelled(i) ==
    /\ loop[i] = "poll"
    /\ Cardinality(Busy(i)) = Concurrency
    /\ phase[i] # "running"
    /\ loop' = [loop EXCEPT ![i] = "ended"]
    /\ UNCHANGED <<queue, committed, phase, room, work, faults, stops>>

\* The queue hands out messages: each is hidden and its count grows.
HandOut(S) ==
    queue' = [m \in Msgs |-> IF m \in S
                             THEN [place |-> "hidden", count |-> queue[m].count + 1]
                             ELSE queue[m]]

\* Messages a Receive may return: one received MaxReceive times is left for
\* the redrive.
Available(S, n) ==
    /\ IsFiniteSet(S) /\ Cardinality(S) <= n
    /\ \A m \in S : queue[m].place = "visible" /\ queue[m].count < MaxReceive

\* The deliveries those messages are.
Delivered(S, state) ==
    work' = [d \in Deliveries |->
                IF d[1] \in S /\ d[2] = queue[d[1]].count + 1 THEN state ELSE work[d]]

Receive(i, S) ==
    /\ loop[i] = "receive"
    /\ phase[i] = "running"
    /\ Available(S, room[i])
    /\ HandOut(S)
    /\ Delivered(S, [at |-> "batch", by |-> i])
    /\ loop' = [loop EXCEPT ![i] = IF S = {} THEN "poll" ELSE "dispatch"]
    /\ room' = [room EXCEPT ![i] = 0]
    /\ UNCHANGED <<committed, phase, faults, stops>>

\* The messages of an answer that never arrives are hidden and with nobody; so is
\* one that the adapter drops for want of an id, a body or a receipt.
LostAnswer(i, S) ==
    /\ Available(S, room[i])
    /\ HandOut(S)
    /\ Delivered(S, [at |-> "over", by |-> None])

\* Receive returns an error; the loop goes on a second later.
ReceiveFails(i, S) ==
    /\ loop[i] = "receive"
    /\ phase[i] = "running"
    /\ Fault
    /\ LostAnswer(i, S)
    /\ loop' = [loop EXCEPT ![i] = "poll"]
    /\ room' = [room EXCEPT ![i] = 0]
    /\ UNCHANGED <<committed, phase, stops>>

\* Mutant: the cancelled context is taken for one more error.
ReceiveCancelledContinue(i, S) ==
    /\ loop[i] = "receive"
    /\ phase[i] # "running"
    /\ LostAnswer(i, S)
    /\ loop' = [loop EXCEPT ![i] = "poll"]
    /\ room' = [room EXCEPT ![i] = 0]
    /\ UNCHANGED <<committed, phase, faults, stops>>

\* Receive returns because pollCtx is cancelled.
ReceiveCancelled(i, S) ==
    /\ loop[i] = "receive"
    /\ phase[i] # "running"
    /\ LostAnswer(i, S)
    /\ loop' = [loop EXCEPT ![i] = "ended"]
    /\ room' = [room EXCEPT ![i] = 0]
    /\ UNCHANGED <<committed, phase, faults, stops>>

\* A slot is taken and a handler started for one message of the batch.
Dispatch(i, d) ==
    /\ loop[i] = "dispatch"
    /\ d \in Batch(i)
    /\ Cardinality(Busy(i)) < Concurrency
    /\ work' = [work EXCEPT ![d].at = "consume"]
    /\ loop' = [loop EXCEPT ![i] = IF Batch(i) = {d} THEN "poll" ELSE "dispatch"]
    /\ UNCHANGED <<queue, committed, phase, room, faults, stops>>

\* Once pollCtx is cancelled both cases of the select are ready and either may
\* be taken: the loop returns and what is left of the batch is dropped.
DispatchCancelled(i) ==
    /\ loop[i] = "dispatch"
    /\ phase[i] # "running"
    /\ work' = [d \in Deliveries |-> IF d \in Batch(i) THEN [work[d] EXCEPT !.at = "over"]
                                                       ELSE work[d]]
    /\ loop' = [loop EXCEPT ![i] = "ended"]
    /\ UNCHANGED <<queue, committed, phase, room, faults, stops>>

-----------------------------------------------------------------------------
(* HANDLE.  workCtx is cancelled in the phases "cancelled" and "abandoned". *)

WorkCancelled(d) == phase[work[d].by] \in {"cancelled", "abandoned"}

\* The handler goes on with the given step, or ends ("over").
Proceed(d, at) ==
    /\ work' = [work EXCEPT ![d].at = at]
    /\ UNCHANGED <<phase, loop, room, stops>>

\* Mutant: the handler does not give up a message it cannot decode.
DecodeFailsAgain(d) ==
    /\ work[d].at = "consume"
    /\ Content[d[1]] = "invalid"
    /\ Proceed(d, "consume")
    /\ UNCHANGED <<queue, committed, faults>>

\* A message that does not decode is left for the redrive.
DecodeFails(d) ==
    /\ work[d].at = "consume"
    /\ Content[d[1]] = "invalid"
    /\ Proceed(d, "over")
    /\ UNCHANGED <<queue, committed, faults>>

\* Mutant: a message found already processed is left to the queue.
ConsumeKeepsDuplicate(d) ==
    /\ work[d].at = "consume"
    /\ Content[d[1]] \in {"valid", "unsure"}
    /\ committed' = committed \cup {d[1]}
    /\ Proceed(d, IF d[1] \in committed THEN "over" ELSE "delete")
    /\ UNCHANGED <<queue, faults>>

\* Consume commits, or finds the message committed before.
Consume(d) ==
    /\ work[d].at = "consume"
    /\ Content[d[1]] \in {"valid", "unsure"}
    /\ committed' = committed \cup {d[1]}
    /\ Proceed(d, "delete")
    /\ UNCHANGED <<queue, faults>>

\* An error that is not retryable leaves the message for the redrive.
ConsumeRefuses(d) ==
    /\ work[d].at = "consume"
    /\ Content[d[1]] \in {"refused", "unsure"}
    /\ d[1] \notin committed
    /\ ~WorkCancelled(d)
    /\ Proceed(d, "over")
    /\ UNCHANGED <<queue, committed, faults>>

\* The commit of a failed or cancelled Consume may have taken effect.
MaybeCommitted(m) ==
    \/ UNCHANGED committed
    \/ Content[m] \in {"valid", "unsure"} /\ committed' = committed \cup {m}

\* A retryable error while the context is alive: deferRetry follows.
ConsumeFails(d) ==
    /\ work[d].at = "consume"
    /\ Content[d[1]] # "invalid"
    /\ ~WorkCancelled(d)
    /\ Fault
    /\ MaybeCommitted(d[1])
    /\ Proceed(d, "defer")
    /\ UNCHANGED queue

\* Mutant: the error of a cancelled Consume is dropped.
ConsumeTimesOutUnnoticed(d) ==
    /\ work[d].at = "consume"
    /\ Content[d[1]] # "invalid"
    /\ Fault
    /\ MaybeCommitted(d[1])
    /\ Proceed(d, "delete")
    /\ UNCHANGED queue

\* The context is over, by the processing timeout or by the shutdown: release
\* follows, whatever the error was.
ConsumeTimesOut(d) ==
    /\ work[d].at = "consume"
    /\ Content[d[1]] # "invalid"
    /\ Fault
    /\ MaybeCommitted(d[1])
    /\ Proceed(d, "release")
    /\ UNCHANGED queue

ConsumeCancelled(d) ==
    /\ work[d].at = "consume"
    /\ Content[d[1]] # "invalid"
    /\ WorkCancelled(d)
    /\ MaybeCommitted(d[1])
    /\ Proceed(d, "release")
    /\ UNCHANGED <<queue, faults>>

-----------------------------------------------------------------------------
(* The calls that end a delivery use a context of their own.  A receipt     *)
(* that is no longer the latest has no effect; neither has one whose        *)
(* visibility is over, except that a delete may still go through.           *)

InForce(d) == d = Latest(d[1]) /\ queue[d[1]].place = "hidden"
Move(m, place) == queue' = [queue EXCEPT ![m].place = place]

Deletes(d) ==
    \/ InForce(d) /\ Move(d[1], "deleted")
    \/ ~InForce(d) /\ UNCHANGED queue
    \/ /\ d = Latest(d[1])
       /\ queue[d[1]].place = "visible"
       /\ Move(d[1], "deleted")

Delete(d) ==
    /\ work[d].at = "delete"
    /\ Deletes(d)
    /\ Proceed(d, "over")
    /\ UNCHANGED <<committed, faults>>

Release(d) ==
    /\ work[d].at = "release"
    /\ IF InForce(d) THEN Move(d[1], "visible") ELSE UNCHANGED queue
    /\ Proceed(d, "over")
    /\ UNCHANGED <<committed, faults>>

\* The message stays hidden for the seconds of retryVisibilitySeconds.
DeferRetry(d) ==
    /\ work[d].at = "defer"
    /\ Proceed(d, "over")
    /\ UNCHANGED <<queue, committed, faults>>

\* One of them fails or loses its answer: logged, and nothing more is done.
BrokerCallFails(d) ==
    /\ work[d].at \in {"delete", "release", "defer"}
    /\ Fault
    /\ \/ UNCHANGED queue
       \/ work[d].at = "delete" /\ Deletes(d)
       \/ work[d].at = "release" /\ InForce(d) /\ Move(d[1], "visible")
    /\ Proceed(d, "over")
    /\ UNCHANGED committed

-----------------------------------------------------------------------------
(* THE QUEUE (external)                                                     *)

Attended(m) == queue[m].count > 0 /\ work[Latest(m)].at \in Handling \cup {"batch"}

\* The visibility of a message nobody works on any more is over.
VisibilityExpires(m) ==
    /\ queue[m].place = "hidden"
    /\ ~Attended(m)
    /\ Move(m, "visible")
    /\ UNCHANGED <<committed, phase, loop, room, work, faults, stops>>

\* The same under a handler: config.validate makes the visibility longer than
\* the processing timeout, so a stalled process is needed, or a call after the
\* processing that takes more than what is left; both count as failures.
VisibilityExpiresEarly(m) ==
    /\ queue[m].place = "hidden"
    /\ Attended(m)
    /\ Fault
    /\ Move(m, "visible")
    /\ UNCHANGED <<committed, phase, loop, room, work, stops>>

Redrive(m) ==
    /\ queue[m].place = "visible"
    /\ queue[m].count = MaxReceive
    /\ Move(m, "dlq")
    /\ UNCHANGED <<committed, phase, loop, room, work, faults, stops>>

-----------------------------------------------------------------------------
(* SHUTDOWN                                                                 *)

Shift(i, from, to) ==
    /\ phase[i] = from
    /\ phase' = [phase EXCEPT ![i] = to]
    /\ UNCHANGED <<queue, committed, room>>

\* stop cancels the polling and waits for the loop.
Stop(i) ==
    /\ stops < MaxStops
    /\ stops' = stops + 1
    /\ Shift(i, "running", "stopping")
    /\ UNCHANGED <<loop, work, faults>>

\* Mutant: the handlers are waited for while the loop may still start some.
LoopDoneUnchecked(i) ==
    /\ Shift(i, "stopping", "draining")
    /\ UNCHANGED <<loop, work, faults, stops>>

LoopDone(i) ==
    /\ loop[i] = "ended"
    /\ Shift(i, "stopping", "draining")
    /\ UNCHANGED <<loop, work, faults, stops>>

Drained(i) ==
    /\ Busy(i) = {}
    /\ Shift(i, "draining", "stopped")
    /\ UNCHANGED <<loop, work, faults, stops>>

\* SQSShutdown, or the time Fx gives the hook, is over: the handlers are
\* cancelled and then waited for.
ShutdownTimeout(i) ==
    /\ Busy(i) # {}
    /\ Shift(i, "draining", "cancelled")
    /\ UNCHANGED <<loop, work, faults, stops>>

CancelledDone(i) ==
    /\ Busy(i) = {}
    /\ Shift(i, "cancelled", "stopped")
    /\ UNCHANGED <<loop, work, faults, stops>>

\* The time Fx gives is over before the loop has ended: stop returns at once.
StopAbandons(i) ==
    /\ loop[i] # "ended"
    /\ Fault
    /\ Shift(i, "stopping", "abandoned")
    /\ UNCHANGED <<loop, work, stops>>

\* The process is gone, with everything it was doing.
Gone(i) ==
    /\ work' = [d \in Deliveries |-> IF d \in Batch(i) \cup Busy(i)
                                     THEN [work[d] EXCEPT !.at = "over"] ELSE work[d]]
    /\ loop' = [loop EXCEPT ![i] = "ended"]

Exit(i) ==
    /\ Gone(i)
    /\ Shift(i, "abandoned", "dead")
    /\ UNCHANGED <<faults, stops>>

Crash(i) ==
    /\ phase[i] # "abandoned"
    /\ Fault
    /\ Gone(i)
    /\ Shift(i, phase[i], "dead")
    /\ UNCHANGED stops

\* A new process takes the place of one that ended.
Start(i) ==
    /\ phase[i] \in {"stopped", "dead"}
    /\ phase' = [phase EXCEPT ![i] = "running"]
    /\ loop' = [loop EXCEPT ![i] = "poll"]
    /\ room' = [room EXCEPT ![i] = 0]
    /\ UNCHANGED <<queue, committed, work, faults, stops>>

-----------------------------------------------------------------------------
LoopStep(i) ==
    \/ AvailableBatch(i)
    \/ NoSlotCancelled(i)
    \/ DispatchCancelled(i)
    \/ \E S \in SUBSET Msgs : Receive(i, S) \/ ReceiveCancelled(i, S)
    \/ \E d \in Deliveries : Dispatch(i, d)

Handle(d) ==
    \/ DecodeFails(d)
    \/ Consume(d)
    \/ ConsumeRefuses(d)
    \/ ConsumeCancelled(d)
    \/ Delete(d)
    \/ Release(d)
    \/ DeferRetry(d)

ShutdownStep(i) == \/ LoopDone(i) \/ Drained(i) \/ CancelledDone(i)
                   \/ Exit(i) \/ Start(i)

Failure ==
    \/ \E i \in Instances : \/ StopAbandons(i) \/ Crash(i)
                            \/ \E S \in SUBSET Msgs : ReceiveFails(i, S)
    \/ \E d \in Deliveries : \/ ConsumeFails(d) \/ ConsumeTimesOut(d)
                             \/ BrokerCallFails(d)
    \/ \E m \in Msgs : VisibilityExpiresEarly(m)

Next ==
    \/ \E i \in Instances : LoopStep(i) \/ ShutdownStep(i) \/ Stop(i) \/ ShutdownTimeout(i)
    \/ \E d \in Deliveries : Handle(d)
    \/ \E m \in Msgs : VisibilityExpires(m) \/ Redrive(m)
    \/ Failure

Spec == Init /\ [][Next]_vars

\* Goroutines are scheduled, a process that ended is replaced, time passes, and
\* a long poll returns a message that stays available.
Fairness ==
    /\ \A i \in Instances :
          /\ WF_vars(LoopStep(i))
          /\ WF_vars(ShutdownStep(i))
    /\ SF_vars(\E i \in Instances, S \in SUBSET Msgs \ {{}} : Receive(i, S))
    /\ \A d \in Deliveries : WF_vars(Handle(d))
    /\ \A m \in Msgs : WF_vars(VisibilityExpires(m)) /\ WF_vars(Redrive(m))

FairSpec == Spec /\ Fairness

-----------------------------------------------------------------------------
(* PROPERTIES                                                               *)

\* Every variable has its type; exactly a loop that dispatches has a batch.
TypeOK ==
    /\ queue \in [Msgs -> [place : {"visible", "hidden", "deleted", "dlq"},
                           count : 0 .. MaxReceive]]
    /\ committed \subseteq Msgs
    /\ phase \in [Instances -> {"running", "stopping", "draining", "cancelled",
                                "abandoned", "stopped", "dead"}]
    /\ loop \in [Instances -> {"poll", "receive", "dispatch", "ended"}]
    /\ room \in [Instances -> 0 .. ReceiveBatch]
    /\ work \in [Deliveries -> [at : Handling \cup {"none", "batch", "over"},
                                by : Instances \cup {None}]]
    /\ faults \in 0 .. MaxFaults /\ stops \in 0 .. MaxStops
    /\ \A i \in Instances : (Batch(i) # {}) = (loop[i] = "dispatch")

\* A message leaves the queue only when its wager and its inbox row are
\* committed, or by way of the dead letter queue: no message is lost between
\* the failures of Consume, of the broker and of the process.
DeletedOnlyWhenCommitted ==
    \A m \in Msgs : queue[m].place = "deleted" => m \in committed

\* What the loop has received and what its handlers work on never exceed the
\* semaphore: a received message never waits for a slot while its visibility
\* runs.
DispatchNeverWaits ==
    \A i \in Instances : Cardinality(Batch(i) \cup Busy(i)) <= Concurrency

\* Each delivery of an acceptable message beyond the first costs a failure or a
\* shutdown of its own: no handler works against another, and a message reaches
\* the dead letter queue only after MaxReceive of them.
RedeliveriesNeedFailures ==
    \A m \in Msgs : Content[m] = "valid" =>
        /\ queue[m].count <= 1 + faults + stops
        /\ queue[m].place = "dlq" => MaxReceive <= faults + stops

\* Once stop has returned in time, nothing of the instance runs any more: what
\* is closed after it (the database pool) is used by nobody.
NoWorkAfterStop ==
    \A i \in Instances : phase[i] = "stopped" =>
        loop[i] = "ended" /\ Batch(i) \cup Busy(i) = {}

\* Every message ends, through failures, a crash and a shutdown: there comes a
\* time when each has been deleted or is in the dead letter queue.
MessagesEnd ==
    <>(\A m \in Msgs : queue[m].place \in {"deleted", "dlq"})

\* Every shutdown ends, by itself or because the process is gone.
ShutdownsEnd ==
    \A i \in Instances : (phase[i] = "stopping") ~> (phase[i] \in {"stopped", "dead"})

-----------------------------------------------------------------------------
(* What the documentation says and the code does not do                     *)

\* ARCHITECTURE.md: the consumer waits for the messages it already received and
\* frees the visibility of the others.  So when a shutdown ends without any
\* failure, no acceptable message it received is left hidden.
ShutdownReturnsMessages ==
    \A i \in Instances : phase[i] = "stopped" /\ faults = 0 =>
        \A m \in Msgs : /\ Content[m] = "valid"
                        /\ queue[m].place = "hidden"
                        => work[Latest(m)].by # i

\* README.md: transient processing failures are deferred by 5 seconds or more,
\* and it is the shutdown that releases a message at once.
ReleasesOnlyOnShutdown ==
    [][\A d \in Deliveries :
          /\ work[d].at = "release" /\ work'[d].at = "over"
          /\ queue[d[1]].place = "hidden" /\ queue'[d[1]].place = "visible"
          => phase[work[d].by] # "running"]_vars
=============================================================================
