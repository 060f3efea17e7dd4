--------------------------- MODULE ConsumerProofs ---------------------------
(***************************************************************************)
(* Theorems about SqsConsumer, for any number of messages and instances,   *)
(* any capacity of the semaphore, any failures and any shutdowns.          *)
(***************************************************************************)
EXTENDS SqsConsumer, FiniteSetTheorems, TLAPS

-----------------------------------------------------------------------------
(* THE INVARIANTS                                                           *)

\* What an instance has in hand: the rest of the batch, and its handlers.
InHand(i) == Batch(i) \cup Busy(i)

\* stop waits for the loop before it waits for the handlers, and for both before
\* it returns.
ShutdownInv ==
    \A i \in Instances :
        /\ phase[i] \in {"draining", "cancelled", "stopped", "dead"} => loop[i] = "ended"
        /\ phase[i] \in {"stopped", "dead"} => Busy(i) = {}

\* A delivery in hand belongs to an instance, a handler deletes only what Consume has
\* committed, and nobody has a delivery that has not happened.
HandlerInv ==
    \A d \in Deliveries :
        /\ work[d].at \in Handling \cup {"batch"} => work[d].by \in Instances
        /\ work[d].at = "delete" => d[1] \in committed
        /\ d[2] > queue[d[1]].count => work[d].at = "none"

\* What availableBatch leaves room for: the messages of the next answer.
RoomInv ==
    \A i \in Instances :
        /\ IsFiniteSet(InHand(i)) /\ Cardinality(InHand(i)) <= Concurrency
        /\ loop[i] = "receive" => Cardinality(Busy(i)) + room[i] <= Concurrency

\* Where a message is, and how often it was received.
QueueInv ==
    \A m \in Msgs :
        /\ queue[m].place = "deleted" => m \in committed
        /\ queue[m].place = "hidden" => queue[m].count > 0
        /\ queue[m].place = "dlq" => queue[m].count = MaxReceive

ConsumerInv == TypeOK /\ ShutdownInv /\ HandlerInv /\ RoomInv /\ QueueInv

\* The latest delivery of a message is under way: hidden, and nothing has gone wrong.
Underway(m) ==
    /\ queue[m].place = "hidden"
    /\ work[Latest(m)].at \in {"batch", "consume", "delete"}

\* A shutdown that may still cost a message one delivery: its loop may still receive
\* the message in vain, or its instance is the one that works on it.
Unspent(m) ==
    {i \in Instances :
        /\ phase[i] \in {"stopping", "draining", "cancelled", "abandoned"}
        /\ \/ loop[i] # "ended"
           \/ /\ phase[i] # "abandoned"
              /\ Underway(m) /\ work[Latest(m)].by = i}

\* The delivery that no failure and no shutdown has to answer for: the one that is
\* under way in an instance that stop has not abandoned, or that ended well.
Free(m) ==
    IF \/ queue[m].place = "deleted"
       \/ Underway(m) /\ phase[work[Latest(m)].by] # "abandoned"
    THEN 1 ELSE 0

\* The deliveries that something has to answer for.
Debt(m) == queue[m].count - Free(m)

\* Each has a failure or a shutdown of its own, beside the shutdowns still unspent.
Paid(m) ==
    /\ IsFiniteSet(Unspent(m))
    /\ Debt(m) + Cardinality(Unspent(m)) <= faults + stops

PaidInv == \A m \in Msgs : Content[m] = "valid" => Paid(m)

-----------------------------------------------------------------------------
(* WHAT IS IN HAND                                                          *)

WorkType == [Deliveries -> [at : Handling \cup {"none", "batch", "over"},
                            by : Instances \cup {None}]]

\* A delivery of a batch, by its two fields.
LEMMA BatchFields ==
    ASSUME NEW w \in WorkType, NEW d \in Deliveries, NEW i
    PROVE  w[d] = [at |-> "batch", by |-> i] <=> w[d].at = "batch" /\ w[d].by = i
  BY DEF WorkType

\* The latest delivery of a message that was received.
LEMMA LatestIsDelivery ==
    ASSUME TypeOK, NEW m \in Msgs, queue[m].count > 0
    PROVE  Latest(m) \in Deliveries /\ Latest(m)[1] = m
  <1>1. queue[m].count \in 0 .. MaxReceive BY DEF TypeOK
  <1>2. MaxReceive \in Nat BY ConsumerAssumption
  <1>3. queue[m].count \in 1 .. MaxReceive BY <1>1, <1>2
  <1> QED BY <1>3 DEF Latest, Deliveries

\* A step of work: batches and handlers lose deliveries and win none.
Shrinks ==
    \A d \in Deliveries :
        /\ work'[d].by = work[d].by
        /\ \/ work'[d].at = work[d].at
           \/ work'[d].at = "over"
           \/ work[d].at \in Handling /\ work'[d].at \in Handling

\* Then no instance has more in hand.
LEMMA ShrinksMeans ==
    ASSUME TypeOK, work' \in WorkType, Shrinks, NEW i \in Instances
    PROVE  Batch(i)' \subseteq Batch(i) /\ Busy(i)' \subseteq Busy(i)
  <1>0. work \in WorkType BY DEF TypeOK, WorkType
  <1>1. ASSUME NEW d \in Batch(i)' PROVE d \in Batch(i)
    <2>1. d \in Deliveries /\ work'[d] = [at |-> "batch", by |-> i] BY <1>1 DEF Batch
    <2>2. work'[d].at = "batch" /\ work'[d].by = i BY <2>1
    <2>3. work[d].at = "batch" /\ work[d].by = i
      BY <2>1, <2>2 DEF Shrinks, Handling
    <2> QED BY <1>0, <2>1, <2>3, BatchFields DEF Batch
  <1>2. ASSUME NEW d \in Busy(i)' PROVE d \in Busy(i)
    <2>1. d \in Deliveries /\ work'[d].by = i /\ work'[d].at \in Handling
      BY <1>2 DEF Busy
    <2>2. work[d].at \in Handling BY <2>1 DEF Shrinks, Handling
    <2> QED BY <2>1, <2>2 DEF Busy, Shrinks
  <1> QED BY <1>1, <1>2

\* If it happens to no delivery of a batch, the batches stay.
LEMMA BatchStays ==
    ASSUME TypeOK, work' \in WorkType, Shrinks, NEW i \in Instances,
           \A d \in Batch(i) : work'[d] = work[d]
    PROVE  Batch(i)' = Batch(i)
  <1>1. Batch(i)' \subseteq Batch(i) BY ShrinksMeans
  <1>2. ASSUME NEW d \in Batch(i) PROVE d \in Batch(i)'
    BY <1>2 DEF Batch
  <1> QED BY <1>1, <1>2

\* A smaller set of deliveries, or of instances, is as finite and no larger.
LEMMA Fewer ==
    ASSUME NEW S, IsFiniteSet(S), NEW T, T \subseteq S
    PROVE  IsFiniteSet(T) /\ Cardinality(T) <= Cardinality(S)
           /\ Cardinality(T) \in Nat /\ Cardinality(S) \in Nat
  <1>1. IsFiniteSet(T) /\ Cardinality(T) <= Cardinality(S) BY FS_Subset
  <1> QED BY <1>1, FS_CardinalityType

\* An instance whose work shrinks, and that gets no new room, keeps within the semaphore.
LEMMA RoomStays ==
    ASSUME TypeOK, RoomInv, work' \in WorkType, Shrinks, NEW i \in Instances,
           loop'[i] = "receive" => loop[i] = "receive" /\ room'[i] = room[i]
    PROVE  /\ IsFiniteSet(InHand(i)') /\ Cardinality(InHand(i)') <= Concurrency
           /\ loop'[i] = "receive" => Cardinality(Busy(i)') + room'[i] <= Concurrency
  <1>1. InHand(i)' \subseteq InHand(i) /\ Busy(i)' \subseteq Busy(i)
    BY ShrinksMeans DEF InHand
  <1>2. IsFiniteSet(InHand(i)) /\ Cardinality(InHand(i)) <= Concurrency
    BY DEF RoomInv
  <1>3. IsFiniteSet(Busy(i)) BY <1>2, Fewer DEF InHand
  <1>4. Concurrency \in Nat BY ConsumerAssumption
  <1>5. IsFiniteSet(InHand(i)') /\ Cardinality(InHand(i)') <= Concurrency
    <2>1. PICK S : S = InHand(i)' OBVIOUS
    <2>2. IsFiniteSet(S) /\ Cardinality(S) <= Cardinality(InHand(i))
          /\ Cardinality(S) \in Nat /\ Cardinality(InHand(i)) \in Nat
      BY <1>1, <1>2, <2>1, Fewer
    <2> QED BY <1>2, <1>4, <2>1, <2>2
  <1>6. ASSUME loop'[i] = "receive"
        PROVE  Cardinality(Busy(i)') + room'[i] <= Concurrency
    <2>1. PICK S : S = Busy(i)' OBVIOUS
    <2>2. Cardinality(S) <= Cardinality(Busy(i))
          /\ Cardinality(S) \in Nat /\ Cardinality(Busy(i)) \in Nat
      BY <1>1, <1>3, <2>1, Fewer
    <2>3. Cardinality(Busy(i)) + room[i] <= Concurrency /\ room'[i] = room[i]
      BY <1>6 DEF RoomInv
    <2>4. room[i] \in Nat BY ConsumerAssumption DEF TypeOK
    <2> QED BY <1>4, <2>1, <2>2, <2>3, <2>4
  <1> QED BY <1>5, <1>6

-----------------------------------------------------------------------------
(* HANDLERS                                                                 *)

\* What a step of handle for one delivery does to the queue.
HandlerMoves(d) ==
    \/ queue' = queue
    \/ /\ work[d].at = "delete" /\ d = Latest(d[1])
       /\ queue[d[1]].place \in {"hidden", "visible"}
       /\ Move(d[1], "deleted")
    \/ /\ work[d].at = "release" /\ InForce(d)
       /\ Move(d[1], "visible")

\* What every step of handle has in common: it goes on or ends, commits before it
\* deletes, and never undoes a commit.
HandlerStep(d) ==
    /\ work[d].at \in Handling
    /\ \E at \in {"delete", "release", "defer", "over"} :
          /\ Proceed(d, at)
          /\ at = "delete" => d[1] \in committed'
    /\ committed \subseteq committed' /\ committed' \subseteq Msgs
    /\ faults' \in 0 .. MaxFaults
    /\ HandlerMoves(d)

\* Handle, and the failures of a handler.
HandlerFails(d) == ConsumeFails(d) \/ ConsumeTimesOut(d) \/ BrokerCallFails(d)

\* A failure is counted, within the bound.
LEMMA FaultCounts ==
    ASSUME TypeOK, Fault
    PROVE  faults' = faults + 1 /\ faults' \in 0 .. MaxFaults /\ faults \in Nat
  BY ConsumerAssumption DEF TypeOK, Fault

\* The actions of a handler are such steps.
LEMMA HandlerActions ==
    ASSUME TypeOK, NEW d \in Deliveries, Handle(d) \/ HandlerFails(d)
    PROVE  HandlerStep(d)
  <1>0. d[1] \in Msgs /\ committed \subseteq Msgs /\ faults \in 0 .. MaxFaults
    BY DEF TypeOK, Deliveries
  <1>1. CASE DecodeFails(d)
    BY <1>0, <1>1 DEF DecodeFails, HandlerStep, HandlerMoves, Handling
  <1>2. CASE Consume(d)
    BY <1>0, <1>2 DEF Consume, HandlerStep, HandlerMoves, Handling
  <1>3. CASE ConsumeRefuses(d)
    BY <1>0, <1>3 DEF ConsumeRefuses, HandlerStep, HandlerMoves, Handling
  <1>4. CASE ConsumeCancelled(d)
    BY <1>0, <1>4 DEF ConsumeCancelled, MaybeCommitted, HandlerStep, HandlerMoves, Handling
  <1>5. CASE Delete(d)
    BY <1>0, <1>5 DEF Delete, Deletes, InForce, HandlerStep, HandlerMoves, Handling
  <1>6. CASE Release(d)
    BY <1>0, <1>6 DEF Release, HandlerStep, HandlerMoves, Handling
  <1>7. CASE DeferRetry(d)
    BY <1>0, <1>7 DEF DeferRetry, HandlerStep, HandlerMoves, Handling
  <1>8. CASE ConsumeFails(d)
    BY <1>0, <1>8, FaultCounts DEF ConsumeFails, MaybeCommitted, HandlerStep, HandlerMoves,
                                   Handling
  <1>9. CASE ConsumeTimesOut(d)
    BY <1>0, <1>9, FaultCounts DEF ConsumeTimesOut, MaybeCommitted, HandlerStep,
                                   HandlerMoves, Handling
  <1>10. CASE BrokerCallFails(d)
    BY <1>0, <1>10, FaultCounts DEF BrokerCallFails, Deletes, InForce, HandlerStep,
                                    HandlerMoves, Handling
  <1> QED BY <1>1, <1>2, <1>3, <1>4, <1>5, <1>6, <1>7, <1>8, <1>9, <1>10
          DEF Handle, HandlerFails

\* A step of a handler only shrinks the work, and touches no batch.
LEMMA HandlerShrinks ==
    ASSUME TypeOK, NEW d \in Deliveries, HandlerStep(d)
    PROVE  /\ work' \in WorkType /\ Shrinks
           /\ \A i \in Instances : Batch(i)' = Batch(i)
           /\ \A x \in Deliveries : x # d => work'[x] = work[x]
  <1>1. PICK at \in {"delete", "release", "defer", "over"} : Proceed(d, at)
    BY DEF HandlerStep
  <1>2. /\ work \in WorkType /\ work[d].at \in Handling
    BY DEF TypeOK, WorkType, HandlerStep
  <1>3. work' = [work EXCEPT ![d].at = at] BY <1>1 DEF Proceed
  <1>4. /\ work' \in WorkType
        /\ \A x \in Deliveries : x # d => work'[x] = work[x]
        /\ work'[d].by = work[d].by /\ work'[d].at = at
    BY <1>2, <1>3 DEF WorkType, Handling
  <1>5. Shrinks
    BY <1>2, <1>4 DEF Shrinks, Handling
  <1>6. ASSUME NEW i \in Instances PROVE Batch(i)' = Batch(i)
    <2>1. d \notin Batch(i) BY <1>2, BatchFields DEF Batch, Handling
    <2>2. \A x \in Batch(i) : work'[x] = work[x]
      BY <1>4, <2>1 DEF Batch
    <2> QED BY <1>4, <1>5, <2>2, BatchStays
  <1> QED BY <1>4, <1>5, <1>6

\* A message moves to another place with its count.
LEMMA MoveKeeps ==
    ASSUME TypeOK, NEW m \in Msgs,
           NEW place \in {"visible", "hidden", "deleted", "dlq"}, Move(m, place)
    PROVE  /\ queue' \in [Msgs -> [place : {"visible", "hidden", "deleted", "dlq"},
                                   count : 0 .. MaxReceive]]
           /\ queue'[m].place = place /\ queue'[m].count = queue[m].count
           /\ \A x \in Msgs : x # m => queue'[x] = queue[x]
  BY DEF TypeOK, Move

\* A step of a handler keeps the invariants.
LEMMA HandlerKeeps ==
    ASSUME ConsumerInv, NEW d \in Deliveries, HandlerStep(d)
    PROVE  ConsumerInv'
  <1>0. TypeOK BY DEF ConsumerInv
  <1>1. /\ work' \in WorkType /\ Shrinks
        /\ \A i \in Instances : Batch(i)' = Batch(i)
        /\ \A x \in Deliveries : x # d => work'[x] = work[x]
    BY <1>0, HandlerShrinks
  <1>2. UNCHANGED <<phase, loop, room, stops>>
    BY DEF HandlerStep, Proceed
  <1>3. d[1] \in Msgs BY DEF Deliveries
  <1>4. /\ queue' \in [Msgs -> [place : {"visible", "hidden", "deleted", "dlq"},
                                count : 0 .. MaxReceive]]
        /\ \A m \in Msgs : /\ queue'[m].count = queue[m].count
                           /\ queue'[m].place = queue[m].place
                              \/ queue'[m].place = "visible"
                              \/ (m = d[1] /\ work[d].at = "delete"
                                  /\ queue'[m].place = "deleted")
    <2>1. CASE queue' = queue BY <1>0, <2>1 DEF TypeOK
    <2>2. CASE work[d].at = "delete" /\ Move(d[1], "deleted")
      BY <1>0, <1>3, <2>2, MoveKeeps
    <2>3. CASE Move(d[1], "visible")
      BY <1>0, <1>3, <2>3, MoveKeeps
    <2> QED BY <2>1, <2>2, <2>3 DEF HandlerStep, HandlerMoves
  <1>5. committed \subseteq committed' /\ committed' \subseteq Msgs
        /\ faults' \in 0 .. MaxFaults
    BY DEF HandlerStep
  <1>6. TypeOK'
    BY <1>0, <1>1, <1>2, <1>4, <1>5 DEF TypeOK, WorkType
  <1>7. ShutdownInv'
    BY <1>0, <1>1, <1>2, ShrinksMeans DEF ConsumerInv, ShutdownInv
  <1>8. HandlerInv'
    <2>1. ASSUME NEW x \in Deliveries
          PROVE  /\ work'[x].at \in Handling \cup {"batch"} => work'[x].by \in Instances
                 /\ work'[x].at = "delete" => x[1] \in committed'
                 /\ x[2] > queue'[x[1]].count => work'[x].at = "none"
      <3>0. x[1] \in Msgs /\ queue'[x[1]].count = queue[x[1]].count
        BY <1>4 DEF Deliveries
      <3>1. CASE x # d
        BY <1>1, <1>5, <3>0, <3>1 DEF ConsumerInv, HandlerInv
      <3>2. CASE x = d
        <4>1. PICK at \in {"delete", "release", "defer", "over"} :
                 Proceed(d, at) /\ (at = "delete" => d[1] \in committed')
          BY DEF HandlerStep
        <4>2. work'[d].at = at /\ work'[d].by = work[d].by
          BY <1>0, <4>1 DEF Proceed, TypeOK
        <4>3. work[d].at \in Handling /\ work[d].at # "none"
          BY DEF HandlerStep, Handling
        <4> QED BY <3>0, <3>2, <4>1, <4>2, <4>3 DEF ConsumerInv, HandlerInv
      <3> QED BY <3>1, <3>2
    <2> QED BY <2>1 DEF HandlerInv
  <1>9. RoomInv'
    <2>1. RoomInv BY DEF ConsumerInv
    <2>2. \A i \in Instances : loop'[i] = loop[i] /\ room'[i] = room[i] BY <1>2
    <2>3. \A i \in Instances :
             /\ IsFiniteSet(InHand(i)') /\ Cardinality(InHand(i)') <= Concurrency
             /\ loop'[i] = "receive" => Cardinality(Busy(i)') + room'[i] <= Concurrency
      BY <1>0, <1>1, <2>1, <2>2, RoomStays
    <2> QED BY <2>3 DEF RoomInv
  <1>10. QueueInv'
    <2>1. work[d].at = "delete" => d[1] \in committed BY DEF ConsumerInv, HandlerInv
    <2> QED BY <1>4, <1>5, <2>1 DEF ConsumerInv, QueueInv
  <1> QED BY <1>6, <1>7, <1>8, <1>9, <1>10 DEF ConsumerInv

-----------------------------------------------------------------------------
(* THE QUEUE AND THE SHUTDOWN                                               *)

\* A message whose visibility ends, or that the queue gives up.
QueueStep(m) == VisibilityExpires(m) \/ VisibilityExpiresEarly(m) \/ Redrive(m)

\* The queue's own steps keep the invariants.
LEMMA QueueKeeps ==
    ASSUME ConsumerInv, NEW m \in Msgs, QueueStep(m)
    PROVE  ConsumerInv'
  <1>0. TypeOK BY DEF ConsumerInv
  <1>1. UNCHANGED <<committed, phase, loop, room, work, stops>> /\ faults' \in 0 .. MaxFaults
    BY <1>0, FaultCounts
    DEF QueueStep, VisibilityExpires, VisibilityExpiresEarly, Redrive, TypeOK
  <1>2. PICK place \in {"visible", "dlq"} :
            /\ Move(m, place)
            /\ place = "dlq" => queue[m].count = MaxReceive
            /\ queue[m].place # "deleted"
    BY DEF QueueStep, VisibilityExpires, VisibilityExpiresEarly, Redrive
  <1>3. /\ queue' \in [Msgs -> [place : {"visible", "hidden", "deleted", "dlq"},
                                count : 0 .. MaxReceive]]
        /\ queue'[m].place = place /\ queue'[m].count = queue[m].count
        /\ \A x \in Msgs : x # m => queue'[x] = queue[x]
    BY <1>0, <1>2, MoveKeeps
  <1>4. \A i \in Instances : Batch(i)' = Batch(i) /\ Busy(i)' = Busy(i)
    BY <1>1 DEF Batch, Busy
  <1>5. TypeOK' BY <1>0, <1>1, <1>3, <1>4 DEF TypeOK
  <1>6. ShutdownInv' BY <1>1, <1>4 DEF ConsumerInv, ShutdownInv
  <1>7. \A d \in Deliveries : d[1] \in Msgs /\ queue'[d[1]].count = queue[d[1]].count
    BY <1>3 DEF Deliveries
  <1>8. HandlerInv' BY <1>1, <1>7 DEF ConsumerInv, HandlerInv
  <1>9. RoomInv' BY <1>1, <1>4 DEF ConsumerInv, RoomInv, InHand
  <1>10. QueueInv' BY <1>1, <1>2, <1>3 DEF ConsumerInv, QueueInv
  <1> QED BY <1>5, <1>6, <1>8, <1>9, <1>10 DEF ConsumerInv

\* The steps of stop that leave loops and handlers alone.
StopStep(i) ==
    \/ Stop(i) \/ LoopDone(i) \/ Drained(i) \/ ShutdownTimeout(i)
    \/ CancelledDone(i) \/ StopAbandons(i)

\* They keep the invariants.
LEMMA StopKeeps ==
    ASSUME ConsumerInv, NEW i \in Instances, StopStep(i)
    PROVE  ConsumerInv'
  <1>0. TypeOK BY DEF ConsumerInv
  <1>1. UNCHANGED <<queue, committed, room, loop, work>>
    BY DEF StopStep, Stop, LoopDone, Drained, ShutdownTimeout, CancelledDone, StopAbandons,
           Shift
  <1>2. faults' \in 0 .. MaxFaults /\ stops' \in 0 .. MaxStops
    <2>1. CASE Stop(i)
      BY <1>0, <2>1, ConsumerAssumption DEF Stop, TypeOK
    <2>2. CASE StopAbandons(i) BY <1>0, <2>2, FaultCounts DEF StopAbandons, TypeOK
    <2>3. CASE LoopDone(i) \/ Drained(i) \/ ShutdownTimeout(i) \/ CancelledDone(i)
      BY <1>0, <2>3 DEF LoopDone, Drained, ShutdownTimeout, CancelledDone, TypeOK
    <2> QED BY <2>1, <2>2, <2>3 DEF StopStep
  <1>3. PICK to : /\ phase' = [phase EXCEPT ![i] = to]
                  /\ to \in {"stopping", "draining", "cancelled", "abandoned", "stopped"}
                  /\ to \in {"draining", "cancelled", "stopped"} => loop[i] = "ended"
                  /\ to = "stopped" => Busy(i) = {}
    BY DEF StopStep, Stop, LoopDone, Drained, ShutdownTimeout, CancelledDone, StopAbandons,
           Shift, ConsumerInv, ShutdownInv
  <1>4. \A j \in Instances : Batch(j)' = Batch(j) /\ Busy(j)' = Busy(j)
    BY <1>1 DEF Batch, Busy
  <1>5. TypeOK' BY <1>0, <1>1, <1>2, <1>3, <1>4 DEF TypeOK
  <1>6. ShutdownInv'
    <2>1. ASSUME NEW j \in Instances
          PROVE  /\ phase'[j] \in {"draining", "cancelled", "stopped", "dead"}
                       => loop'[j] = "ended"
                 /\ phase'[j] \in {"stopped", "dead"} => Busy(j)' = {}
      BY <1>0, <1>1, <1>3, <1>4 DEF TypeOK, ConsumerInv, ShutdownInv
    <2> QED BY <2>1 DEF ShutdownInv
  <1>7. HandlerInv' BY <1>1 DEF ConsumerInv, HandlerInv
  <1>8. RoomInv' BY <1>1, <1>4 DEF ConsumerInv, RoomInv, InHand
  <1>9. QueueInv' BY <1>1 DEF ConsumerInv, QueueInv
  <1> QED BY <1>5, <1>6, <1>7, <1>8, <1>9 DEF ConsumerInv

\* Deliveries that are dropped: the rest of a batch, or all that an instance had.
Dropped(D) ==
    work' = [d \in Deliveries |-> IF d \in D THEN [work[d] EXCEPT !.at = "over"] ELSE work[d]]

\* What is dropped is over, and the rest stays as it is.
LEMMA DroppedMeans ==
    ASSUME TypeOK, NEW D, Dropped(D)
    PROVE  /\ work' \in WorkType /\ Shrinks
           /\ \A d \in Deliveries : /\ d \in D => work'[d].at = "over"
                                    /\ d \notin D => work'[d] = work[d]
  <1>1. work \in WorkType BY DEF TypeOK, WorkType
  <1>2. \A d \in Deliveries :
           /\ d \in D => work'[d] = [work[d] EXCEPT !.at = "over"]
           /\ d \notin D => work'[d] = work[d]
    BY DEF Dropped
  <1>3. \A d \in Deliveries : d \in D => /\ work'[d].at = "over"
                                         /\ work'[d].by = work[d].by
                                         /\ work'[d] \in [at : Handling \cup {"none", "batch", "over"},
                                                          by : Instances \cup {None}]
    BY <1>1, <1>2 DEF WorkType
  <1>4. work' \in WorkType BY <1>1, <1>2, <1>3 DEF WorkType, Dropped
  <1>5. Shrinks BY <1>2, <1>3 DEF Shrinks
  <1> QED BY <1>2, <1>3, <1>4, <1>5

\* An instance drops what it has from D, and its loop ends.
Drops(i, D) ==
    /\ Dropped(D)
    /\ D \in {Batch(i), Batch(i) \cup Busy(i)}
    /\ loop' = [loop EXCEPT ![i] = "ended"]
    /\ UNCHANGED <<queue, committed, room>>
    /\ faults' \in 0 .. MaxFaults /\ stops' = stops
    /\ \E to \in {phase[i], "dead"} :
          /\ phase' = [phase EXCEPT ![i] = to]
          /\ to = "dead" => D = Batch(i) \cup Busy(i)

\* The loop that drops its batch, and the process that ends.
LEMMA DropActions ==
    ASSUME TypeOK, ShutdownInv, NEW i \in Instances,
           DispatchCancelled(i) \/ Exit(i) \/ Crash(i)
    PROVE  \E D : Drops(i, D)
  <1>1. CASE DispatchCancelled(i)
    <2>1. phase[i] # "dead" /\ phase' = [phase EXCEPT ![i] = phase[i]]
      BY <1>1 DEF DispatchCancelled, TypeOK, ShutdownInv
    <2>2. Drops(i, Batch(i))
      BY <1>1, <2>1 DEF DispatchCancelled, Drops, Dropped, TypeOK
    <2> QED BY <2>2
  <1>2. CASE Exit(i)
    <2>1. Drops(i, Batch(i) \cup Busy(i))
      BY <1>2 DEF Exit, Gone, Shift, Drops, Dropped, TypeOK
    <2> QED BY <2>1
  <1>3. CASE Crash(i)
    <2>1. Drops(i, Batch(i) \cup Busy(i))
      BY <1>3, FaultCounts DEF Crash, Gone, Shift, Drops, Dropped, TypeOK
    <2> QED BY <2>1
  <1> QED BY <1>1, <1>2, <1>3

\* Nobody else's work is dropped.
LEMMA DropsKeep ==
    ASSUME ConsumerInv, NEW i \in Instances, NEW D, Drops(i, D)
    PROVE  ConsumerInv'
  <1>0. TypeOK BY DEF ConsumerInv
  <1>1. /\ work' \in WorkType /\ Shrinks
        /\ \A d \in Deliveries : /\ d \in D => work'[d].at = "over"
                                 /\ d \notin D => work'[d] = work[d]
    BY <1>0, DroppedMeans DEF Drops
  <1>2. Batch(i) \subseteq D /\ D \subseteq Batch(i) \cup Busy(i)
    BY DEF Drops
  <1>3. ASSUME NEW d \in Deliveries, work[d].by # i PROVE d \notin D
    <2>1. d \notin Batch(i) BY <1>0, <1>3, BatchFields DEF Batch, TypeOK, WorkType
    <2>2. d \notin Busy(i) BY <1>3 DEF Busy
    <2> QED BY <1>2, <2>1, <2>2
  <1>4. Batch(i)' = {}
    <2> SUFFICES ASSUME NEW d \in Batch(i)' PROVE FALSE OBVIOUS
    <2>1. d \in Batch(i) BY <1>0, <1>1, ShrinksMeans
    <2>2. d \in Deliveries /\ work'[d].at = "over" BY <1>1, <1>2, <2>1 DEF Batch
    <2>3. work'[d].at = "batch" BY DEF Batch
    <2> QED BY <2>2, <2>3
  <1>5. ASSUME NEW j \in Instances, j # i PROVE Batch(j)' = Batch(j)
    <2>1. \A d \in Batch(j) : work'[d] = work[d]
      BY <1>1, <1>3, <1>5 DEF Batch
    <2> QED BY <1>0, <1>1, <2>1, BatchStays
  <1>6. PICK to \in {phase[i], "dead"} :
            /\ phase' = [phase EXCEPT ![i] = to]
            /\ to = "dead" => D = Batch(i) \cup Busy(i)
    BY DEF Drops
  <1>7. UNCHANGED <<queue, committed, room, stops>> /\ faults' \in 0 .. MaxFaults
        /\ loop' = [loop EXCEPT ![i] = "ended"]
    BY DEF Drops
  <1>8. TypeOK'
    <2>1. phase' \in [Instances -> {"running", "stopping", "draining", "cancelled",
                                    "abandoned", "stopped", "dead"}]
      BY <1>0, <1>6 DEF TypeOK
    <2>2. loop' \in [Instances -> {"poll", "receive", "dispatch", "ended"}]
          /\ \A j \in Instances : loop'[j] = IF j = i THEN "ended" ELSE loop[j]
      BY <1>0, <1>7 DEF TypeOK
    <2>3. \A j \in Instances : (Batch(j)' # {}) = (loop'[j] = "dispatch")
      BY <1>0, <1>4, <1>5, <2>2 DEF TypeOK
    <2> QED BY <1>0, <1>1, <1>7, <2>1, <2>2, <2>3 DEF TypeOK, WorkType
  <1>9. ShutdownInv'
    <2>1. to = "dead" => Busy(i)' = {}
      <3> SUFFICES ASSUME to = "dead", NEW d \in Busy(i)' PROVE FALSE OBVIOUS
      <3>1. d \in Busy(i) BY <1>0, <1>1, ShrinksMeans
      <3>2. d \in Deliveries /\ d \in D /\ work'[d].at = "over"
        BY <1>1, <1>6, <3>1 DEF Busy
      <3> QED BY <3>2 DEF Busy, Handling
    <2>2. ASSUME NEW j \in Instances
          PROVE  /\ phase'[j] \in {"draining", "cancelled", "stopped", "dead"}
                       => loop'[j] = "ended"
                 /\ phase'[j] \in {"stopped", "dead"} => Busy(j)' = {}
      <3>1. Busy(j)' \subseteq Busy(j) BY <1>0, <1>1, ShrinksMeans
      <3>2. CASE j = i
        BY <1>0, <1>6, <1>7, <2>1, <3>1, <3>2 DEF TypeOK, ConsumerInv, ShutdownInv
      <3>3. CASE j # i
        BY <1>0, <1>6, <1>7, <3>1, <3>3 DEF TypeOK, ConsumerInv, ShutdownInv
      <3> QED BY <3>2, <3>3
    <2> QED BY <2>2 DEF ShutdownInv
  <1>10. HandlerInv'
    <2>1. ASSUME NEW d \in Deliveries
          PROVE  /\ work'[d].at \in Handling \cup {"batch"} => work'[d].by \in Instances
                 /\ work'[d].at = "delete" => d[1] \in committed'
                 /\ d[2] > queue'[d[1]].count => work'[d].at = "none"
      <3>1. CASE d \notin D
        BY <1>1, <1>7, <3>1 DEF ConsumerInv, HandlerInv
      <3>2. CASE d \in D
        <4>1. work[d].at \in Handling \cup {"batch"}
          BY <1>2, <3>2 DEF Batch, Busy
        <4>2. work[d].at # "none" BY <4>1 DEF Handling
        <4> QED BY <1>1, <1>7, <3>2, <4>2 DEF ConsumerInv, HandlerInv, Handling
      <3> QED BY <3>1, <3>2
    <2> QED BY <2>1 DEF HandlerInv
  <1>11. RoomInv'
    <2>1. RoomInv BY DEF ConsumerInv
    <2>2. \A j \in Instances : loop'[j] = "receive" => loop[j] = "receive" /\ room'[j] = room[j]
      BY <1>0, <1>7 DEF TypeOK
    <2>3. \A j \in Instances :
             /\ IsFiniteSet(InHand(j)') /\ Cardinality(InHand(j)') <= Concurrency
             /\ loop'[j] = "receive" => Cardinality(Busy(j)') + room'[j] <= Concurrency
      BY <1>0, <1>1, <2>1, <2>2, RoomStays
    <2> QED BY <2>3 DEF RoomInv
  <1>12. QueueInv' BY <1>7 DEF ConsumerInv, QueueInv
  <1> QED BY <1>8, <1>9, <1>10, <1>11, <1>12 DEF ConsumerInv

\* The loop takes a turn without touching a message, or a process starts anew.
Turn(i) == AvailableBatch(i) \/ NoSlotCancelled(i) \/ Start(i)

\* The room it then has is what the semaphore leaves.
LEMMA TurnKeeps ==
    ASSUME ConsumerInv, NEW i \in Instances, Turn(i)
    PROVE  ConsumerInv'
  <1>0. TypeOK BY DEF ConsumerInv
  <1>1. UNCHANGED <<queue, committed, work, faults, stops>>
    BY DEF Turn, AvailableBatch, NoSlotCancelled, Start
  <1>2. \A j \in Instances : Batch(j)' = Batch(j) /\ Busy(j)' = Busy(j)
    BY <1>1 DEF Batch, Busy
  <1>3. /\ Concurrency \in Nat \ {0} /\ ReceiveBatch \in Nat \ {0}
        /\ Cardinality(Busy(i)) \in Nat /\ Cardinality(Busy(i)) <= Concurrency
    <2>1. /\ Busy(i) \subseteq InHand(i) /\ IsFiniteSet(InHand(i))
          /\ Cardinality(InHand(i)) <= Concurrency
      BY DEF ConsumerInv, RoomInv, InHand
    <2>2. /\ Cardinality(Busy(i)) <= Cardinality(InHand(i))
          /\ Cardinality(Busy(i)) \in Nat /\ Cardinality(InHand(i)) \in Nat
      BY <2>1, Fewer
    <2>3. Concurrency \in Nat \ {0} /\ ReceiveBatch \in Nat \ {0} BY ConsumerAssumption
    <2> QED BY <2>1, <2>2, <2>3
  <1>4. PICK n \in 0 .. ReceiveBatch, at \in {"poll", "receive", "ended"},
             to \in {"running", phase[i]} :
          /\ room' = [room EXCEPT ![i] = n] /\ loop' = [loop EXCEPT ![i] = at]
          /\ phase' = [phase EXCEPT ![i] = to]
          /\ at = "receive" => Cardinality(Busy(i)) + n <= Concurrency
          /\ to # "running" => at = "ended" \/ loop[i] # "ended"
          /\ loop[i] # "dispatch"
    <2>1. CASE AvailableBatch(i)
      <3>1. PICK free \in Int : free = Concurrency - Cardinality(Busy(i)) BY <1>3
      <3>2. PICK n \in 0 .. ReceiveBatch :
               n = IF free < ReceiveBatch THEN free ELSE ReceiveBatch
        BY <1>3, <2>1, <3>1 DEF AvailableBatch
      <3>3. room' = [room EXCEPT ![i] = n] /\ Cardinality(Busy(i)) + n <= Concurrency
        BY <1>3, <2>1, <3>1, <3>2 DEF AvailableBatch
      <3>4. phase' = [phase EXCEPT ![i] = phase[i]] BY <1>0, <2>1 DEF AvailableBatch, TypeOK
      <3> QED BY <2>1, <3>2, <3>3, <3>4 DEF AvailableBatch
    <2>2. CASE NoSlotCancelled(i)
      <3>1. /\ phase' = [phase EXCEPT ![i] = phase[i]] /\ room' = [room EXCEPT ![i] = room[i]]
            /\ room[i] \in 0 .. ReceiveBatch
        BY <1>0, <2>2 DEF NoSlotCancelled, TypeOK
      <3> QED BY <2>2, <3>1 DEF NoSlotCancelled
    <2>3. CASE Start(i)
      <3>1. loop[i] = "ended" BY <2>3 DEF Start, ConsumerInv, ShutdownInv
      <3>2. 0 \in 0 .. ReceiveBatch BY <1>3
      <3> QED BY <2>3, <3>1, <3>2 DEF Start
    <2> QED BY <2>1, <2>2, <2>3 DEF Turn
  <1>5. TypeOK'
    <2>1. loop' \in [Instances -> {"poll", "receive", "dispatch", "ended"}]
          /\ room' \in [Instances -> 0 .. ReceiveBatch]
          /\ phase' \in [Instances -> {"running", "stopping", "draining", "cancelled",
                                       "abandoned", "stopped", "dead"}]
      BY <1>0, <1>4 DEF TypeOK
    <2>2. \A j \in Instances : (loop'[j] = "dispatch") = (loop[j] = "dispatch")
      BY <1>0, <1>4 DEF TypeOK
    <2> QED BY <1>0, <1>1, <1>2, <2>1, <2>2 DEF TypeOK
  <1>6. ShutdownInv'
    <2>1. ASSUME NEW j \in Instances
          PROVE  /\ phase'[j] \in {"draining", "cancelled", "stopped", "dead"}
                       => loop'[j] = "ended"
                 /\ phase'[j] \in {"stopped", "dead"} => Busy(j)' = {}
      BY <1>0, <1>2, <1>4 DEF TypeOK, ConsumerInv, ShutdownInv
    <2> QED BY <2>1 DEF ShutdownInv
  <1>7. HandlerInv' BY <1>1 DEF ConsumerInv, HandlerInv
  <1>8. RoomInv'
    <2>1. ASSUME NEW j \in Instances, loop'[j] = "receive"
          PROVE  Cardinality(Busy(j)) + room'[j] <= Concurrency
      <3>1. CASE j = i BY <1>0, <1>4, <2>1, <3>1 DEF TypeOK
      <3>2. CASE j # i
        <4>1. loop[j] = "receive" /\ room'[j] = room[j] BY <1>0, <1>4, <2>1, <3>2 DEF TypeOK
        <4> QED BY <4>1 DEF ConsumerInv, RoomInv
      <3> QED BY <3>1, <3>2
    <2> QED BY <1>2, <2>1 DEF ConsumerInv, RoomInv, InHand
  <1>9. QueueInv' BY <1>1 DEF ConsumerInv, QueueInv
  <1> QED BY <1>5, <1>6, <1>7, <1>8, <1>9 DEF ConsumerInv

-----------------------------------------------------------------------------
(* THE MESSAGES OF A BATCH                                                  *)

\* A handler is started: a delivery of the batch becomes one of its handlers.
LEMMA DispatchKeeps ==
    ASSUME ConsumerInv, NEW i \in Instances, NEW d \in Deliveries, Dispatch(i, d)
    PROVE  ConsumerInv'
  <1>0. TypeOK BY DEF ConsumerInv
  <1>1. /\ work \in WorkType /\ work[d].at = "batch" /\ work[d].by = i
        /\ work' = [work EXCEPT ![d].at = "consume"]
        /\ UNCHANGED <<queue, committed, phase, room, faults, stops>>
        /\ loop[i] = "dispatch"
        /\ loop' = [loop EXCEPT ![i] = IF Batch(i) = {d} THEN "poll" ELSE "dispatch"]
    BY <1>0 DEF Dispatch, Batch, TypeOK, WorkType
  <1>2. /\ work' \in WorkType /\ work'[d].at = "consume" /\ work'[d].by = i
        /\ \A x \in Deliveries : x # d => work'[x] = work[x]
    BY <1>1 DEF WorkType, Handling
  <1>3. Batch(i)' = Batch(i) \ {d}
    <2>1. d \notin Batch(i)' BY <1>2, BatchFields DEF Batch
    <2>2. \A x \in Deliveries : x # d => (x \in Batch(i)' <=> x \in Batch(i))
      BY <1>2 DEF Batch
    <2>3. Batch(i)' \subseteq Deliveries /\ Batch(i) \subseteq Deliveries BY DEF Batch
    <2> QED BY <2>1, <2>2, <2>3
  <1>4. Busy(i)' = Busy(i) \cup {d}
    <2>1. d \in Busy(i)' BY <1>2 DEF Busy, Handling
    <2>2. \A x \in Deliveries : x # d => (x \in Busy(i)' <=> x \in Busy(i))
      BY <1>2 DEF Busy
    <2>3. Busy(i)' \subseteq Deliveries /\ Busy(i) \subseteq Deliveries BY DEF Busy
    <2> QED BY <2>1, <2>2, <2>3
  <1>5. InHand(i)' = InHand(i)
    <2>1. d \in Batch(i) BY DEF Dispatch
    <2> QED BY <1>3, <1>4, <2>1 DEF InHand
  <1>6. ASSUME NEW j \in Instances, j # i
        PROVE  Batch(j)' = Batch(j) /\ Busy(j)' = Busy(j)
    <2>1. d \notin Batch(j) /\ d \notin Batch(j)'
      BY <1>1, <1>2, <1>6, BatchFields DEF Batch
    <2>2. d \notin Busy(j) /\ d \notin Busy(j)' BY <1>1, <1>2, <1>6 DEF Busy
    <2> QED BY <1>2, <2>1, <2>2 DEF Batch, Busy
  <1>7. TypeOK'
    <2>1. loop' \in [Instances -> {"poll", "receive", "dispatch", "ended"}]
          /\ \A j \in Instances : j # i => loop'[j] = loop[j]
      BY <1>0, <1>1 DEF TypeOK
    <2>2. (Batch(i)' # {}) = (loop'[i] = "dispatch")
      <3>1. loop'[i] = IF Batch(i) = {d} THEN "poll" ELSE "dispatch"
        BY <1>0, <1>1 DEF TypeOK
      <3>2. Batch(i) = {d} <=> Batch(i)' = {}
        BY <1>3 DEF Dispatch
      <3> QED BY <3>1, <3>2
    <2>3. \A j \in Instances : (Batch(j)' # {}) = (loop'[j] = "dispatch")
      BY <1>0, <1>6, <2>1, <2>2 DEF TypeOK
    <2> QED BY <1>0, <1>1, <1>2, <2>1, <2>3 DEF TypeOK, WorkType
  <1>8. ShutdownInv'
    <2>1. phase[i] \notin {"draining", "cancelled", "stopped", "dead"}
      BY <1>1 DEF ConsumerInv, ShutdownInv
    <2>2. \A j \in Instances : j # i => loop'[j] = loop[j]
      BY <1>0, <1>1 DEF TypeOK
    <2> QED BY <1>1, <1>6, <2>1, <2>2 DEF ConsumerInv, ShutdownInv
  <1>9. HandlerInv'
    BY <1>1, <1>2 DEF ConsumerInv, HandlerInv, Handling
  <1>10. RoomInv'
    <2>1. loop'[i] # "receive" /\ \A j \in Instances : j # i => loop'[j] = loop[j]
      BY <1>0, <1>1 DEF TypeOK
    <2>2. \A j \in Instances : j # i => InHand(j)' = InHand(j)
      BY <1>6 DEF InHand
    <2> QED BY <1>1, <1>5, <1>6, <2>1, <2>2 DEF ConsumerInv, RoomInv
  <1>11. QueueInv' BY <1>1 DEF ConsumerInv, QueueInv
  <1> QED BY <1>7, <1>8, <1>9, <1>10, <1>11 DEF ConsumerInv

\* The deliveries that an answer with the messages S makes.
Fresh(S) == {d \in Deliveries : d[1] \in S /\ d[2] = queue[d[1]].count + 1}

\* What happens to the messages of an answer, whether it arrives or not.
LEMMA AnswerMeans ==
    ASSUME ConsumerInv, NEW S \in SUBSET Msgs, NEW n, Available(S, n), HandOut(S),
           NEW at \in {"batch", "over"}, NEW by \in Instances \cup {None},
           Delivered(S, [at |-> at, by |-> by])
    PROVE  /\ queue' \in [Msgs -> [place : {"visible", "hidden", "deleted", "dlq"},
                                   count : 0 .. MaxReceive]]
           /\ \A m \in S : /\ queue[m].place = "visible"
                           /\ queue'[m].place = "hidden"
                           /\ queue'[m].count = queue[m].count + 1
           /\ \A m \in Msgs \ S : queue'[m] = queue[m]
           /\ work' \in WorkType
           /\ \A d \in Fresh(S) : /\ work[d].at = "none"
                                  /\ work'[d].at = at /\ work'[d].by = by
           /\ \A d \in Deliveries \ Fresh(S) : work'[d] = work[d]
  <1>0. TypeOK BY DEF ConsumerInv
  <1>1. ASSUME NEW m \in S
        PROVE  /\ queue[m].place = "visible"
               /\ queue'[m] = [place |-> "hidden", count |-> queue[m].count + 1]
               /\ queue[m].count + 1 \in 0 .. MaxReceive
    <2>1. queue[m].place = "visible" /\ queue[m].count < MaxReceive BY DEF Available
    <2>2. queue[m].count \in 0 .. MaxReceive /\ MaxReceive \in Nat
      BY <1>0, ConsumerAssumption DEF TypeOK
    <2> QED BY <2>1, <2>2 DEF HandOut
  <1>2. \A m \in Msgs \ S : queue'[m] = queue[m] BY DEF HandOut
  <1>3. queue' \in [Msgs -> [place : {"visible", "hidden", "deleted", "dlq"},
                             count : 0 .. MaxReceive]]
    <2>1. ASSUME NEW m \in Msgs
          PROVE  queue'[m] \in [place : {"visible", "hidden", "deleted", "dlq"},
                                count : 0 .. MaxReceive]
      <3>1. CASE m \in S
        <4>1. /\ queue'[m] = [place |-> "hidden", count |-> queue[m].count + 1]
              /\ queue[m].count + 1 \in 0 .. MaxReceive
          BY <1>1, <3>1
        <4>2. PICK c \in 0 .. MaxReceive : c = queue[m].count + 1 BY <4>1
        <4>3. queue'[m] = [place |-> "hidden", count |-> c] BY <4>1, <4>2
        <4> QED BY <4>3
      <3>2. CASE m \notin S BY <1>0, <1>2, <3>2 DEF TypeOK
      <3> QED BY <3>1, <3>2
    <2> QED BY <2>1 DEF HandOut
  <1>4. \A d \in Deliveries : work'[d] = IF d \in Fresh(S) THEN [at |-> at, by |-> by]
                                                         ELSE work[d]
    BY DEF Delivered, Fresh
  <1>5. work' \in WorkType
    <2>1. \A d \in Deliveries : work'[d] \in [at : Handling \cup {"none", "batch", "over"},
                                              by : Instances \cup {None}]
      BY <1>0, <1>4 DEF TypeOK
    <2> QED BY <2>1 DEF Delivered, WorkType
  <1>6. ASSUME NEW d \in Fresh(S) PROVE work[d].at = "none"
    <2>1. d \in Deliveries /\ d[1] \in Msgs /\ d[2] = queue[d[1]].count + 1 BY DEF Fresh
    <2>2. queue[d[1]].count \in 0 .. MaxReceive BY <1>0, <2>1 DEF TypeOK
    <2>3. MaxReceive \in Nat BY ConsumerAssumption
    <2>4. d[2] > queue[d[1]].count BY <2>1, <2>2, <2>3
    <2> QED BY <2>1, <2>4 DEF ConsumerInv, HandlerInv
  <1>7. Fresh(S) \subseteq Deliveries BY DEF Fresh
  <1>8. ASSUME NEW m \in S
        PROVE  /\ queue[m].place = "visible"
               /\ queue'[m].place = "hidden"
               /\ queue'[m].count = queue[m].count + 1
    <2>1. PICK c : c = queue[m].count + 1 OBVIOUS
    <2>2. queue[m].place = "visible" /\ queue'[m] = [place |-> "hidden", count |-> c]
      BY <1>1, <2>1
    <2> QED BY <2>1, <2>2
  <1>9. \A d \in Fresh(S) : work'[d].at = at /\ work'[d].by = by
    BY <1>4, <1>7
  <1> QED BY <1>2, <1>3, <1>4, <1>5, <1>6, <1>8, <1>9

\* Its deliveries are no more than its messages.
LEMMA FreshAreFew ==
    ASSUME NEW S \in SUBSET Msgs, IsFiniteSet(S)
    PROVE  /\ IsFiniteSet(Fresh(S)) /\ Cardinality(Fresh(S)) <= Cardinality(S)
           /\ Cardinality(Fresh(S)) \in Nat /\ Cardinality(S) \in Nat
  <1>1. PICK f : f = [m \in S |-> <<m, queue[m].count + 1>>] OBVIOUS
  <1>2. PICK T : T = {f[m] : m \in S} OBVIOUS
  <1>3. f \in Surjection(S, T) BY <1>1, <1>2 DEF Surjection
  <1>4. IsFiniteSet(T) /\ Cardinality(T) <= Cardinality(S) BY <1>3, FS_Surjection
  <1>5. Fresh(S) \subseteq T
    <2>1. ASSUME NEW d \in Fresh(S) PROVE d \in T
      <3>1. d \in Msgs \X (1 .. MaxReceive) /\ d[1] \in S /\ d[2] = queue[d[1]].count + 1
        BY DEF Fresh, Deliveries
      <3>2. d = <<d[1], d[2]>> BY <3>1
      <3>3. d = f[d[1]] BY <1>1, <3>1, <3>2
      <3> QED BY <1>2, <3>1, <3>3
    <2> QED BY <2>1
  <1>6. IsFiniteSet(Fresh(S)) /\ Cardinality(Fresh(S)) <= Cardinality(T)
        /\ Cardinality(Fresh(S)) \in Nat /\ Cardinality(T) \in Nat
    BY <1>4, <1>5, Fewer
  <1>7. Cardinality(S) \in Nat BY FS_CardinalityType
  <1> QED BY <1>4, <1>6, <1>7

\* What the invariants of the messages need of an answer, whether it arrives or not.
LEMMA AnswerKeeps ==
    ASSUME ConsumerInv, NEW S \in SUBSET Msgs, NEW n, Available(S, n), HandOut(S),
           NEW at \in {"batch", "over"}, NEW by \in Instances \cup {None},
           at = "batch" => by \in Instances,
           Delivered(S, [at |-> at, by |-> by]),
           committed' = committed
    PROVE  /\ HandlerInv' /\ QueueInv'
           /\ \A j \in Instances : Busy(j)' = Busy(j)
           /\ \A j \in Instances : IF at = "batch" /\ j = by
                                   THEN Batch(j)' = Batch(j) \cup Fresh(S)
                                   ELSE Batch(j)' = Batch(j)
  <1>0. TypeOK /\ work \in WorkType BY DEF ConsumerInv, TypeOK, WorkType
  <1>1. /\ \A m \in S : /\ queue[m].place = "visible"
                        /\ queue'[m].place = "hidden"
                        /\ queue'[m].count = queue[m].count + 1
        /\ \A m \in Msgs \ S : queue'[m] = queue[m]
        /\ work' \in WorkType
        /\ \A d \in Fresh(S) : /\ work[d].at = "none"
                               /\ work'[d].at = at /\ work'[d].by = by
        /\ \A d \in Deliveries \ Fresh(S) : work'[d] = work[d]
    BY AnswerMeans
  <1>2. \A m \in Msgs : queue[m].count \in Nat /\ queue'[m].count >= queue[m].count
    <2>1. ASSUME NEW m \in Msgs
          PROVE  queue[m].count \in Nat /\ queue'[m].count >= queue[m].count
      <3>1. PICK c \in Nat : c = queue[m].count BY <1>0, ConsumerAssumption DEF TypeOK
      <3>2. queue'[m].count = c + 1 \/ queue'[m].count = c BY <1>1, <3>1
      <3> QED BY <3>1, <3>2
    <2> QED BY <2>1
  <1>3. HandlerInv'
    <2>1. ASSUME NEW d \in Deliveries
          PROVE  /\ work'[d].at \in Handling \cup {"batch"} => work'[d].by \in Instances
                 /\ work'[d].at = "delete" => d[1] \in committed'
                 /\ d[2] > queue'[d[1]].count => work'[d].at = "none"
      <3>0. d[1] \in Msgs /\ d[2] \in Nat BY ConsumerAssumption DEF Deliveries
      <3>1. PICK c \in Nat : c = queue[d[1]].count BY <1>2, <3>0
      <3>2. CASE d \in Fresh(S)
        <4>1. d[1] \in S /\ d[2] = c + 1 BY <3>1, <3>2 DEF Fresh
        <4>2. queue'[d[1]].count = c + 1 BY <1>1, <3>1, <4>1
        <4> QED BY <1>1, <3>2, <4>1, <4>2 DEF Handling
      <3>3. CASE d \notin Fresh(S)
        <4>1. work'[d] = work[d] BY <1>1, <3>3
        <4>2. queue'[d[1]].count = c + 1 \/ queue'[d[1]].count = c
          BY <1>1, <3>0, <3>1
        <4>3. d[2] > queue'[d[1]].count => d[2] > queue[d[1]].count
          BY <3>0, <3>1, <4>2
        <4> QED BY <4>1, <4>3 DEF ConsumerInv, HandlerInv
      <3> QED BY <3>2, <3>3
    <2> QED BY <2>1 DEF HandlerInv
  <1>4. QueueInv'
    <2>1. ASSUME NEW m \in Msgs
          PROVE  /\ queue'[m].place = "deleted" => m \in committed'
                 /\ queue'[m].place = "hidden" => queue'[m].count > 0
                 /\ queue'[m].place = "dlq" => queue'[m].count = MaxReceive
      <3>1. CASE m \in S
        <4>1. PICK c \in Nat : c = queue[m].count BY <1>2
        <4> QED BY <1>1, <3>1, <4>1
      <3>2. CASE m \notin S BY <1>1, <3>2 DEF ConsumerInv, QueueInv
      <3> QED BY <3>1, <3>2
    <2> QED BY <2>1 DEF QueueInv
  <1>5. ASSUME NEW j \in Instances PROVE Busy(j)' = Busy(j)
    <2>1. \A d \in Deliveries : d \in Busy(j)' <=> d \in Busy(j)
      <3>1. \A d \in Fresh(S) : d \notin Busy(j)' /\ d \notin Busy(j)
        BY <1>1 DEF Busy, Handling
      <3>2. \A d \in Deliveries \ Fresh(S) : d \in Busy(j)' <=> d \in Busy(j)
        BY <1>1 DEF Busy
      <3> QED BY <3>1, <3>2
    <2> QED BY <2>1 DEF Busy
  <1>6. ASSUME NEW j \in Instances
        PROVE  IF at = "batch" /\ j = by THEN Batch(j)' = Batch(j) \cup Fresh(S)
                                         ELSE Batch(j)' = Batch(j)
    <2>1. \A d \in Fresh(S) : d \in Deliveries BY DEF Fresh
    <2>2. \A d \in Fresh(S) : /\ d \notin Batch(j)
                              /\ d \in Batch(j)' <=> at = "batch" /\ j = by
      BY <1>0, <1>1, <2>1, BatchFields DEF Batch
    <2>3. \A d \in Deliveries \ Fresh(S) : d \in Batch(j)' <=> d \in Batch(j)
      BY <1>1 DEF Batch
    <2>4. Batch(j) \subseteq Deliveries /\ Batch(j)' \subseteq Deliveries BY DEF Batch
    <2> QED BY <2>1, <2>2, <2>3, <2>4
  <1> QED BY <1>3, <1>4, <1>5, <1>6

\* An answer that arrives: the messages are a batch that the semaphore has room for.
LEMMA ReceiveKeeps ==
    ASSUME ConsumerInv, NEW i \in Instances, NEW S \in SUBSET Msgs, Receive(i, S)
    PROVE  ConsumerInv'
  <1>0. TypeOK BY DEF ConsumerInv
  <1>1. /\ loop[i] = "receive" /\ Available(S, room[i]) /\ HandOut(S)
        /\ Delivered(S, [at |-> "batch", by |-> i])
        /\ UNCHANGED <<committed, phase, faults, stops>>
        /\ loop' = [loop EXCEPT ![i] = IF S = {} THEN "poll" ELSE "dispatch"]
        /\ room' = [room EXCEPT ![i] = 0]
    BY DEF Receive
  <1>2. /\ queue' \in [Msgs -> [place : {"visible", "hidden", "deleted", "dlq"},
                                count : 0 .. MaxReceive]]
        /\ work' \in WorkType
    BY <1>1, AnswerMeans
  <1>3. /\ HandlerInv' /\ QueueInv'
        /\ \A j \in Instances : Busy(j)' = Busy(j)
        /\ \A j \in Instances : IF j = i THEN Batch(j)' = Batch(j) \cup Fresh(S)
                                         ELSE Batch(j)' = Batch(j)
    BY <1>1, AnswerKeeps
  <1>4. Batch(i) = {} /\ Batch(i)' = Fresh(S)
    BY <1>0, <1>1, <1>3 DEF TypeOK
  <1>5. Fresh(S) = {} <=> S = {}
    <2>1. S = {} => Fresh(S) = {} BY DEF Fresh
    <2>2. ASSUME NEW m \in S PROVE Fresh(S) # {}
      <3>1. PICK c : c = queue[m].count OBVIOUS
      <3>2. c \in 0 .. MaxReceive /\ c < MaxReceive /\ MaxReceive \in Nat
        BY <1>0, <1>1, <3>1, ConsumerAssumption DEF TypeOK, Available
      <3>3. <<m, c + 1>> \in Deliveries BY <3>2 DEF Deliveries
      <3>4. <<m, c + 1>> \in Fresh(S) BY <3>1, <3>3 DEF Fresh
      <3> QED BY <3>4
    <2> QED BY <2>1, <2>2
  <1>6. TypeOK'
    <2>1. /\ loop' \in [Instances -> {"poll", "receive", "dispatch", "ended"}]
          /\ loop'[i] = (IF S = {} THEN "poll" ELSE "dispatch")
          /\ \A j \in Instances : j # i => loop'[j] = loop[j]
      BY <1>0, <1>1 DEF TypeOK
    <2>2. room' \in [Instances -> 0 .. ReceiveBatch]
      BY <1>0, <1>1, ConsumerAssumption DEF TypeOK
    <2>3. \A j \in Instances : (Batch(j)' # {}) = (loop'[j] = "dispatch")
      BY <1>0, <1>3, <1>4, <1>5, <2>1 DEF TypeOK
    <2> QED BY <1>0, <1>1, <1>2, <2>1, <2>2, <2>3 DEF TypeOK, WorkType
  <1>7. ShutdownInv'
    <2>1. phase[i] = "running" BY DEF Receive
    <2>2. \A j \in Instances : j # i => loop'[j] = loop[j]
      BY <1>0, <1>1 DEF TypeOK
    <2> QED BY <1>1, <1>3, <2>1, <2>2 DEF ConsumerInv, ShutdownInv
  <1>8. RoomInv'
    <2>1. \A j \in Instances : j # i => /\ InHand(j)' = InHand(j)
                                        /\ loop'[j] = loop[j] /\ room'[j] = room[j]
      BY <1>0, <1>1, <1>3 DEF InHand, TypeOK
    <2>2. loop'[i] # "receive" BY <1>0, <1>1 DEF TypeOK
    <2>3. IsFiniteSet(S) /\ Cardinality(S) <= room[i] BY <1>1 DEF Available
    <2>4. /\ IsFiniteSet(Fresh(S)) /\ Cardinality(Fresh(S)) <= Cardinality(S)
          /\ Cardinality(Fresh(S)) \in Nat /\ Cardinality(S) \in Nat
      BY <2>3, FreshAreFew
    <2>5. /\ InHand(i)' = Fresh(S) \cup Busy(i)
          /\ Fresh(S) \cap Busy(i) = {}
      <3>1. \A d \in Fresh(S) : work[d].at = "none" BY <1>1, AnswerMeans
      <3> QED BY <1>3, <1>4, <3>1 DEF InHand, Busy, Handling
    <2>6. IsFiniteSet(Busy(i)) /\ Cardinality(Busy(i)) \in Nat
      <3>1. IsFiniteSet(InHand(i)) BY DEF ConsumerInv, RoomInv
      <3> QED BY <3>1, Fewer DEF InHand
    <2>7. PICK U : U = Fresh(S) \cup Busy(i) OBVIOUS
    <2>8. IsFiniteSet(U) BY <2>4, <2>6, <2>7, FS_Union
    <2>9. Cardinality(U) = Cardinality(Fresh(S)) + Cardinality(Busy(i))
      <3>1. Cardinality(U) = Cardinality(Fresh(S)) + Cardinality(Busy(i))
                               - Cardinality(Fresh(S) \cap Busy(i))
        BY <2>4, <2>6, <2>7, FS_Union
      <3>2. Cardinality(Fresh(S) \cap Busy(i)) = 0 BY <2>5, FS_EmptySet
      <3> QED BY <2>4, <2>6, <3>1, <3>2
    <2>10. Cardinality(Busy(i)) + room[i] <= Concurrency
      BY <1>1 DEF ConsumerInv, RoomInv
    <2>11. room[i] \in Nat /\ Concurrency \in Nat
      BY <1>0, ConsumerAssumption DEF TypeOK
    <2>12. Cardinality(U) <= Concurrency
      BY <2>3, <2>4, <2>6, <2>9, <2>10, <2>11
    <2>13. IsFiniteSet(InHand(i)') /\ Cardinality(InHand(i)') <= Concurrency
      BY <2>5, <2>7, <2>8, <2>12
    <2> QED BY <1>3, <2>1, <2>2, <2>13 DEF ConsumerInv, RoomInv
  <1> QED BY <1>3, <1>6, <1>7, <1>8 DEF ConsumerInv

\* An answer that is lost leaves every instance with what it had.
Misses(i, S) == ReceiveFails(i, S) \/ ReceiveCancelled(i, S)

\* Its messages are in no hand, and wait for their visibility to end.
LEMMA MissKeeps ==
    ASSUME ConsumerInv, NEW i \in Instances, NEW S \in SUBSET Msgs, Misses(i, S)
    PROVE  ConsumerInv'
  <1>0. TypeOK BY DEF ConsumerInv
  <1>1. /\ loop[i] = "receive" /\ Available(S, room[i]) /\ HandOut(S)
        /\ Delivered(S, [at |-> "over", by |-> None])
        /\ UNCHANGED <<committed, phase, stops>>
        /\ faults' \in 0 .. MaxFaults
        /\ room' = [room EXCEPT ![i] = 0]
    BY <1>0, FaultCounts DEF Misses, ReceiveFails, ReceiveCancelled, LostAnswer, TypeOK
  <1>2. PICK at \in {"poll", "ended"} :
            /\ loop' = [loop EXCEPT ![i] = at]
            /\ at = "ended" \/ phase[i] = "running"
    BY DEF Misses, ReceiveFails, ReceiveCancelled
  <1>3. /\ queue' \in [Msgs -> [place : {"visible", "hidden", "deleted", "dlq"},
                                count : 0 .. MaxReceive]]
        /\ work' \in WorkType
    BY <1>1, AnswerMeans
  <1>4. /\ HandlerInv' /\ QueueInv'
        /\ \A j \in Instances : Batch(j)' = Batch(j) /\ Busy(j)' = Busy(j)
    BY <1>1, AnswerKeeps
  <1>5. /\ loop' \in [Instances -> {"poll", "receive", "dispatch", "ended"}]
        /\ loop'[i] = at /\ \A j \in Instances : j # i => loop'[j] = loop[j]
    BY <1>0, <1>2 DEF TypeOK
  <1>6. /\ room' \in [Instances -> 0 .. ReceiveBatch]
        /\ \A j \in Instances : j # i => room'[j] = room[j]
    BY <1>0, <1>1, ConsumerAssumption DEF TypeOK
  <1>7. TypeOK'
    <2>1. \A j \in Instances : (Batch(j)' # {}) = (loop'[j] = "dispatch")
      BY <1>0, <1>1, <1>4, <1>5 DEF TypeOK
    <2> QED BY <1>0, <1>1, <1>3, <1>5, <1>6, <2>1 DEF TypeOK, WorkType
  <1>8. ShutdownInv'
    BY <1>1, <1>2, <1>4, <1>5 DEF ConsumerInv, ShutdownInv
  <1>9. RoomInv'
    BY <1>1, <1>4, <1>5, <1>6 DEF ConsumerInv, RoomInv, InHand
  <1> QED BY <1>4, <1>7, <1>8, <1>9 DEF ConsumerInv

-----------------------------------------------------------------------------
(* THE THEOREMS OF THE CONSUMER                                             *)

\* Nothing is received before the first poll.
LEMMA InitConsumer == Init => ConsumerInv
  <1> SUFFICES ASSUME Init PROVE ConsumerInv OBVIOUS
  <1>1. \A d \in Deliveries : work[d].at = "none" /\ work[d].by = None BY DEF Init
  <1>2. \A i \in Instances : Batch(i) = {} /\ Busy(i) = {}
    <2>1. \A d \in Deliveries, i \in Instances : work[d] # [at |-> "batch", by |-> i]
      BY <1>1
    <2> QED BY <1>1, <2>1 DEF Batch, Busy, Handling
  <1>3. 0 \in 0 .. MaxReceive /\ 0 \in 0 .. ReceiveBatch /\ 0 \in 0 .. MaxFaults
        /\ 0 \in 0 .. MaxStops /\ 0 <= Concurrency
    BY ConsumerAssumption
  <1>4. TypeOK BY <1>2, <1>3 DEF Init, TypeOK
  <1>5. RoomInv
    <2>1. \A i \in Instances : InHand(i) = {} /\ loop[i] # "receive"
      BY <1>2 DEF InHand, Init
    <2>2. IsFiniteSet({}) /\ Cardinality({}) = 0 BY FS_EmptySet
    <2> QED BY <1>3, <2>1, <2>2 DEF RoomInv
  <1>6. ShutdownInv /\ HandlerInv /\ QueueInv
    BY <1>1, <1>2 DEF Init, ShutdownInv, HandlerInv, QueueInv, Handling
  <1> QED BY <1>4, <1>5, <1>6 DEF ConsumerInv

\* Every step is one of those above.
LEMMA NextShape ==
    ASSUME Next
    PROVE  \/ \E i \in Instances :
                 \/ Turn(i) \/ StopStep(i)
                 \/ DispatchCancelled(i) \/ Exit(i) \/ Crash(i)
                 \/ \E S \in SUBSET Msgs : Receive(i, S) \/ Misses(i, S)
                 \/ \E d \in Deliveries : Dispatch(i, d)
           \/ \E d \in Deliveries : Handle(d) \/ HandlerFails(d)
           \/ \E m \in Msgs : QueueStep(m)
  BY DEF Next, LoopStep, ShutdownStep, Failure, Turn, StopStep, Misses, HandlerFails, QueueStep

\* The invariants are inductive.
LEMMA NextConsumer == ConsumerInv /\ [Next]_vars => ConsumerInv'
  <1> SUFFICES ASSUME ConsumerInv, [Next]_vars PROVE ConsumerInv' OBVIOUS
  <1>1. CASE Next
    <2>1. ASSUME NEW i \in Instances, DispatchCancelled(i) \/ Exit(i) \/ Crash(i)
          PROVE  ConsumerInv'
      BY <2>1, DropActions, DropsKeep DEF ConsumerInv
    <2>2. ASSUME NEW d \in Deliveries, Handle(d) \/ HandlerFails(d) PROVE ConsumerInv'
      BY <2>2, HandlerActions, HandlerKeeps DEF ConsumerInv
    <2> QED BY <1>1, <2>1, <2>2, NextShape, TurnKeeps, StopKeeps, ReceiveKeeps, MissKeeps,
               DispatchKeeps, QueueKeeps
  <1>2. CASE UNCHANGED vars
    <2>1. UNCHANGED <<queue, committed, phase, loop, room, work, faults, stops>>
      BY <1>2 DEF vars
    <2>2. \A i \in Instances : /\ Batch(i)' = Batch(i) /\ Busy(i)' = Busy(i)
                             /\ InHand(i)' = InHand(i)
      BY <2>1 DEF InHand, Batch, Busy
    <2>3. TypeOK' BY <2>1, <2>2 DEF ConsumerInv, TypeOK
    <2>4. ShutdownInv' /\ RoomInv'
      BY <2>1, <2>2 DEF ConsumerInv, ShutdownInv, RoomInv
    <2>5. HandlerInv' /\ QueueInv'
      BY <2>1 DEF ConsumerInv, HandlerInv, QueueInv
    <2> QED BY <2>3, <2>4, <2>5 DEF ConsumerInv
  <1> QED BY <1>1, <1>2

\* The inductive invariant: polling loops, handlers and shutdowns of any number of
\* instances agree on what each of them has in hand.
THEOREM Consumers == Spec => []ConsumerInv
  BY InitConsumer, NextConsumer, PTL DEF Spec

\* handle deletes a message only after its Consume has committed, whatever the broker,
\* a shutdown or a crash does to it, its other deliveries and other instances.
THEOREM NothingIsLost == Spec => []DeletedOnlyWhenCommitted
  <1>1. ConsumerInv => DeletedOnlyWhenCommitted
    BY DEF ConsumerInv, QueueInv, DeletedOnlyWhenCommitted
  <1> QED BY <1>1, Consumers, PTL

\* availableBatch asks for no more than the semaphore will take, so no message waits
\* for a slot while its visibility runs.
THEOREM NobodyWaitsForASlot == Spec => []DispatchNeverWaits
  <1>1. ConsumerInv => DispatchNeverWaits
    BY DEF ConsumerInv, RoomInv, DispatchNeverWaits, InHand
  <1> QED BY <1>1, Consumers, PTL

\* When stop returns in time, the loop and all its handlers have ended.
THEOREM StoppedIsIdle == Spec => []NoWorkAfterStop
  <1>1. ConsumerInv => NoWorkAfterStop
    <2> SUFFICES ASSUME ConsumerInv, NEW i \in Instances, phase[i] = "stopped"
                 PROVE  loop[i] = "ended" /\ Batch(i) \cup Busy(i) = {}
      BY DEF NoWorkAfterStop
    <2>1. loop[i] = "ended" /\ Busy(i) = {} BY DEF ConsumerInv, ShutdownInv
    <2>2. Batch(i) = {} BY <2>1 DEF ConsumerInv, TypeOK
    <2> QED BY <2>1, <2>2
  <1> QED BY <1>1, Consumers, PTL

-----------------------------------------------------------------------------
(* WHAT REDELIVERIES COST                                                   *)

\* The numbers of the account of a message.
LEMMA AccountTypes ==
    ASSUME TypeOK, NEW m \in Msgs
    PROVE  /\ queue[m].count \in Nat /\ Free(m) \in {0, 1} /\ Debt(m) \in Int
           /\ faults \in Nat /\ stops \in Nat
  <1>1. queue[m].count \in Nat /\ faults \in Nat /\ stops \in Nat
    BY ConsumerAssumption DEF TypeOK
  <1>2. Free(m) \in {0, 1} BY DEF Free
  <1> QED BY <1>1, <1>2 DEF Debt

\* Nothing new to answer for.
LEMMA PaidStays ==
    ASSUME TypeOK, TypeOK', NEW m \in Msgs, Paid(m),
           Unspent(m)' \subseteq Unspent(m), Debt(m)' <= Debt(m),
           faults <= faults', stops <= stops'
    PROVE  Paid(m)'
  <1>1. PICK U : U = Unspent(m)' OBVIOUS
  <1>2. /\ IsFiniteSet(U) /\ Cardinality(U) <= Cardinality(Unspent(m))
        /\ Cardinality(U) \in Nat /\ Cardinality(Unspent(m)) \in Nat
    BY <1>1, Fewer DEF Paid
  <1>3. Debt(m) \in Int /\ faults \in Nat /\ stops \in Nat BY AccountTypes
  <1>4. Debt(m)' \in Int /\ faults' \in Nat /\ stops' \in Nat
    <2>1. queue'[m].count \in Nat /\ faults' \in Nat /\ stops' \in Nat
      BY ConsumerAssumption DEF TypeOK
    <2>2. Free(m)' \in {0, 1} BY DEF Free
    <2> QED BY <2>1, <2>2 DEF Debt
  <1>5. Debt(m) + Cardinality(Unspent(m)) <= faults + stops BY DEF Paid
  <1>6. Debt(m)' + Cardinality(U) <= faults' + stops'
    BY <1>2, <1>3, <1>4, <1>5
  <1> QED BY <1>1, <1>2, <1>6 DEF Paid

\* One delivery more, and one failure more.
LEMMA PaidByFailure ==
    ASSUME TypeOK, TypeOK', NEW m \in Msgs, Paid(m),
           Unspent(m)' \subseteq Unspent(m), Debt(m)' <= Debt(m) + 1,
           faults' = faults + 1, stops' = stops
    PROVE  Paid(m)'
  <1>1. PICK U : U = Unspent(m)' OBVIOUS
  <1>2. /\ IsFiniteSet(U) /\ Cardinality(U) <= Cardinality(Unspent(m))
        /\ Cardinality(U) \in Nat /\ Cardinality(Unspent(m)) \in Nat
    BY <1>1, Fewer DEF Paid
  <1>3. Debt(m) \in Int /\ faults \in Nat /\ stops \in Nat BY AccountTypes
  <1>4. Debt(m)' \in Int
    <2>1. queue'[m].count \in Nat BY ConsumerAssumption DEF TypeOK
    <2>2. Free(m)' \in {0, 1} BY DEF Free
    <2> QED BY <2>1, <2>2 DEF Debt
  <1>5. Debt(m) + Cardinality(Unspent(m)) <= faults + stops BY DEF Paid
  <1>6. Debt(m)' + Cardinality(U) <= faults' + stops'
    BY <1>2, <1>3, <1>4, <1>5
  <1> QED BY <1>1, <1>2, <1>6 DEF Paid

\* One delivery more, and one shutdown spent on it.
LEMMA PaidByShutdown ==
    ASSUME TypeOK, TypeOK', NEW m \in Msgs, Paid(m), NEW i \in Unspent(m),
           Unspent(m)' \subseteq Unspent(m) \ {i}, Debt(m)' <= Debt(m) + 1,
           faults' = faults, stops' = stops
    PROVE  Paid(m)'
  <1>1. PICK U : U = Unspent(m)' OBVIOUS
  <1>2. PICK V : V = Unspent(m) \ {i} OBVIOUS
  <1>3. IsFiniteSet(Unspent(m)) BY DEF Paid
  <1>4. IsFiniteSet(V) /\ Cardinality(V) = Cardinality(Unspent(m)) - 1
    BY <1>2, <1>3, FS_RemoveElement
  <1>5. /\ IsFiniteSet(U) /\ Cardinality(U) <= Cardinality(V)
        /\ Cardinality(U) \in Nat /\ Cardinality(V) \in Nat
    BY <1>1, <1>2, <1>4, Fewer
  <1>6. Cardinality(Unspent(m)) \in Nat BY <1>3, FS_CardinalityType
  <1>7. Debt(m) \in Int /\ faults \in Nat /\ stops \in Nat BY AccountTypes
  <1>8. Debt(m)' \in Int
    <2>1. queue'[m].count \in Nat BY ConsumerAssumption DEF TypeOK
    <2>2. Free(m)' \in {0, 1} BY DEF Free
    <2> QED BY <2>1, <2>2 DEF Debt
  <1>9. Debt(m) + Cardinality(Unspent(m)) <= faults + stops BY DEF Paid
  <1>10. Debt(m)' + Cardinality(U) <= faults' + stops'
    BY <1>4, <1>5, <1>6, <1>7, <1>8, <1>9
  <1> QED BY <1>1, <1>5, <1>10 DEF Paid

\* A shutdown that begins is unspent.
LEMMA ShutdownIsUnspent ==
    ASSUME TypeOK, NEW m \in Msgs, Paid(m), NEW i,
           Unspent(m)' \subseteq Unspent(m) \cup {i}, Debt(m)' = Debt(m),
           faults' = faults, stops' = stops + 1
    PROVE  Paid(m)'
  <1>1. PICK U : U = Unspent(m)' OBVIOUS
  <1>2. PICK V : V = Unspent(m) \cup {i} OBVIOUS
  <1>3. IsFiniteSet(Unspent(m)) BY DEF Paid
  <1>4. IsFiniteSet(V) /\ (Cardinality(V) = Cardinality(Unspent(m))
                           \/ Cardinality(V) = Cardinality(Unspent(m)) + 1)
    BY <1>2, <1>3, FS_AddElement
  <1>5. /\ IsFiniteSet(U) /\ Cardinality(U) <= Cardinality(V)
        /\ Cardinality(U) \in Nat /\ Cardinality(V) \in Nat
    BY <1>1, <1>2, <1>4, Fewer
  <1>6. Cardinality(Unspent(m)) \in Nat BY <1>3, FS_CardinalityType
  <1>7. Debt(m) \in Int /\ faults \in Nat /\ stops \in Nat BY AccountTypes
  <1>8. Debt(m) + Cardinality(Unspent(m)) <= faults + stops BY DEF Paid
  <1>9. Debt(m)' + Cardinality(U) <= faults' + stops'
    BY <1>4, <1>5, <1>6, <1>7, <1>8
  <1> QED BY <1>1, <1>5, <1>9 DEF Paid

\* What a message owes depends on its row, its latest delivery and who has it.
LEMMA SameAccount ==
    ASSUME ConsumerInv, NEW m \in Msgs, queue'[m] = queue[m],
           queue[m].count > 0 => work'[Latest(m)] = work[Latest(m)]
    PROVE  /\ Underway(m)' <=> Underway(m)
           /\ Underway(m) => work'[Latest(m)'] = work[Latest(m)]
  <1>1. Latest(m)' = Latest(m) BY DEF Latest
  <1>2. queue[m].place = "hidden" => queue[m].count > 0
    BY DEF ConsumerInv, QueueInv
  <1> QED BY <1>1, <1>2 DEF Underway

\* Who works on a message that is under way.
LEMMA UnderwayMeans ==
    ASSUME ConsumerInv, NEW m \in Msgs, Underway(m)
    PROVE  /\ queue[m].count > 0 /\ Latest(m) \in Deliveries
           /\ work[Latest(m)].by \in Instances
           /\ LET i == work[Latest(m)].by
              IN  Latest(m) \in Batch(i) \cup Busy(i)
  <1>1. queue[m].place = "hidden" /\ work[Latest(m)].at \in {"batch", "consume", "delete"}
    BY DEF Underway
  <1>2. queue[m].count > 0 BY <1>1 DEF ConsumerInv, QueueInv
  <1>3. Latest(m) \in Deliveries BY <1>2, LatestIsDelivery DEF ConsumerInv
  <1>4. work[Latest(m)].by \in Instances
    BY <1>1, <1>3 DEF ConsumerInv, HandlerInv, Handling
  <1>5. work \in WorkType BY DEF ConsumerInv, TypeOK, WorkType
  <1>6. Latest(m) \in Batch(work[Latest(m)].by) \cup Busy(work[Latest(m)].by)
    BY <1>1, <1>3, <1>5, BatchFields DEF Batch, Busy, Handling
  <1> QED BY <1>2, <1>3, <1>4, <1>6

\* A shutdown has begun and its process is still there.
Halting == {"stopping", "draining", "cancelled", "abandoned"}

\* No shutdown becomes unspent by itself.
LEMMA UnspentShrinks ==
    ASSUME NEW m \in Msgs,
           Underway(m)' => Underway(m) /\ work'[Latest(m)'].by = work[Latest(m)].by,
           \A j \in Instances : phase'[j] \in Halting =>
               /\ phase[j] \in Halting
               /\ loop'[j] # "ended" => loop[j] # "ended"
               /\ phase[j] = "abandoned" => phase'[j] = "abandoned"
    PROVE  Unspent(m)' \subseteq Unspent(m)
  <1> SUFFICES ASSUME NEW j \in Unspent(m)' PROVE j \in Unspent(m) OBVIOUS
  <1>1. /\ j \in Instances /\ phase'[j] \in Halting
        /\ \/ loop'[j] # "ended"
           \/ phase'[j] # "abandoned" /\ Underway(m)' /\ work'[Latest(m)'].by = j
    BY DEF Unspent, Halting
  <1> QED BY <1>1 DEF Unspent, Halting

\* The message is where it was, with the same worker.
LEMMA DebtStays ==
    ASSUME ConsumerInv, NEW m \in Msgs, queue'[m] = queue[m],
           queue[m].count > 0 => work'[Latest(m)] = work[Latest(m)],
           Underway(m) => (phase'[work[Latest(m)].by] = "abandoned"
                               => phase[work[Latest(m)].by] = "abandoned")
    PROVE  Debt(m)' <= Debt(m)
  <1>1. /\ Underway(m)' <=> Underway(m)
        /\ Underway(m) => work'[Latest(m)'] = work[Latest(m)]
    BY SameAccount
  <1>2. queue'[m].count = queue[m].count /\ queue'[m].place = queue[m].place OBVIOUS
  <1>3. Free(m) = 1 => Free(m)' = 1 BY <1>1, <1>2 DEF Free
  <1>4. Free(m) \in {0, 1} /\ Free(m)' \in {0, 1} BY DEF Free
  <1>5. PICK c \in Nat : c = queue[m].count BY AccountTypes DEF ConsumerInv
  <1>6. Debt(m) = c - Free(m) BY <1>5 DEF Debt
  <1>7. Debt(m)' = c - Free(m)' BY <1>2, <1>5 DEF Debt
  <1> QED BY <1>3, <1>4, <1>5, <1>6, <1>7

\* At worst, one delivery more has to be answered for.
LEMMA DebtGrows ==
    ASSUME TypeOK, NEW m \in Msgs, queue'[m].count = queue[m].count
    PROVE  Debt(m)' <= Debt(m) + 1
  <1>1. PICK c \in Nat : c = queue[m].count BY AccountTypes
  <1>2. Free(m) \in {0, 1} /\ Free(m)' \in {0, 1} BY DEF Free
  <1>3. Debt(m) = c - Free(m) BY <1>1 DEF Debt
  <1>4. Debt(m)' = c - Free(m)' BY <1>1 DEF Debt
  <1> QED BY <1>1, <1>2, <1>3, <1>4

\* Polling without a message, and a new process.
LEMMA TurnPaid ==
    ASSUME ConsumerInv, TypeOK', NEW m \in Msgs, Paid(m), NEW i \in Instances, Turn(i)
    PROVE  Paid(m)'
  <1>0. TypeOK BY DEF ConsumerInv
  <1>1. UNCHANGED <<queue, work, faults, stops>>
    BY DEF Turn, AvailableBatch, NoSlotCancelled, Start
  <1>2. \A j \in Instances : phase'[j] \in Halting =>
           /\ phase[j] = phase'[j]
           /\ loop'[j] # "ended" => loop[j] # "ended"
    <2>1. CASE AvailableBatch(i) BY <1>0, <2>1 DEF AvailableBatch, TypeOK
    <2>2. CASE NoSlotCancelled(i) BY <1>0, <2>2 DEF NoSlotCancelled, TypeOK
    <2>3. CASE Start(i) BY <1>0, <2>3 DEF Start, TypeOK, Halting
    <2> QED BY <2>1, <2>2, <2>3 DEF Turn
  <1>3. /\ Underway(m)' <=> Underway(m)
        /\ Underway(m) => work'[Latest(m)'] = work[Latest(m)]
    BY <1>1, SameAccount
  <1>4. Unspent(m)' \subseteq Unspent(m)
    BY <1>2, <1>3, UnspentShrinks
  <1>5. Debt(m)' <= Debt(m)
    BY <1>1, <1>2, DebtStays, UnderwayMeans DEF Halting
  <1>6. faults <= faults' /\ stops <= stops' BY <1>0, <1>1, AccountTypes
  <1> QED BY <1>0, <1>4, <1>5, <1>6, PaidStays

\* The steps of stop: one that begins is unspent, one that is given up is a failure.
LEMMA StopPaid ==
    ASSUME ConsumerInv, TypeOK', NEW m \in Msgs, Paid(m), NEW i \in Instances, StopStep(i)
    PROVE  Paid(m)'
  <1>0. TypeOK BY DEF ConsumerInv
  <1>1. UNCHANGED <<queue, loop, work>>
    BY DEF StopStep, Stop, LoopDone, Drained, ShutdownTimeout, CancelledDone, StopAbandons,
           Shift
  <1>2. /\ Underway(m)' <=> Underway(m)
        /\ Underway(m) => work'[Latest(m)'] = work[Latest(m)]
    BY <1>1, SameAccount
  <1>3. faults \in Nat /\ stops \in Nat BY <1>0, AccountTypes
  <1>4. CASE Stop(i)
    <2>1. /\ phase[i] = "running" /\ phase' = [phase EXCEPT ![i] = "stopping"]
          /\ stops' = stops + 1 /\ faults' = faults
      BY <1>4 DEF Stop, Shift
    <2>2. Unspent(m)' \subseteq Unspent(m) \cup {i}
      <3> SUFFICES ASSUME NEW j \in Unspent(m)', j # i PROVE j \in Unspent(m) OBVIOUS
      <3>1. j \in Instances /\ phase'[j] = phase[j]
        BY <1>0, <2>1 DEF Unspent, TypeOK
      <3> QED BY <1>1, <1>2, <3>1 DEF Unspent
    <2>3. Debt(m)' = Debt(m)
      <3>1. \A j \in Instances : phase'[j] = "abandoned" <=> phase[j] = "abandoned"
        BY <1>0, <2>1 DEF TypeOK
      <3>2. Free(m)' = Free(m) BY <1>1, <1>2, <3>1, UnderwayMeans DEF Free
      <3> QED BY <1>1, <3>2 DEF Debt
    <2> QED BY <1>0, <2>1, <2>2, <2>3, ShutdownIsUnspent
  <1>5. CASE StopAbandons(i)
    <2>1. /\ phase[i] = "stopping" /\ phase' = [phase EXCEPT ![i] = "abandoned"]
          /\ faults' = faults + 1 /\ stops' = stops
      BY <1>0, <1>5, FaultCounts DEF StopAbandons, Shift
    <2>2. \A j \in Instances : phase'[j] \in Halting =>
               /\ phase[j] \in Halting
               /\ loop'[j] # "ended" => loop[j] # "ended"
               /\ phase[j] = "abandoned" => phase'[j] = "abandoned"
      BY <1>0, <1>1, <2>1 DEF TypeOK, Halting
    <2>3. Unspent(m)' \subseteq Unspent(m) BY <1>2, <2>2, UnspentShrinks
    <2>4. Debt(m)' <= Debt(m) + 1 BY <1>0, <1>1, DebtGrows
    <2> QED BY <1>0, <2>1, <2>3, <2>4, PaidByFailure
  <1>6. CASE LoopDone(i) \/ Drained(i) \/ ShutdownTimeout(i) \/ CancelledDone(i)
    <2>1. PICK to \in {"draining", "cancelled", "stopped"} :
              phase' = [phase EXCEPT ![i] = to]
      BY <1>6 DEF LoopDone, Drained, ShutdownTimeout, CancelledDone, Shift
    <2>2. faults' = faults /\ stops' = stops
          /\ phase[i] \in {"stopping", "draining", "cancelled"}
      BY <1>6 DEF LoopDone, Drained, ShutdownTimeout, CancelledDone, Shift
    <2>3. \A j \in Instances : phase'[j] \in Halting =>
               /\ phase[j] \in Halting
               /\ loop'[j] # "ended" => loop[j] # "ended"
               /\ phase[j] = "abandoned" => phase'[j] = "abandoned"
      BY <1>0, <1>1, <2>1, <2>2 DEF TypeOK, Halting
    <2>4. Unspent(m)' \subseteq Unspent(m) BY <1>2, <2>3, UnspentShrinks
    <2>5. \A j \in Instances : phase'[j] = "abandoned" => phase[j] = "abandoned"
      BY <1>0, <2>1 DEF TypeOK
    <2>6. Debt(m)' <= Debt(m) BY <1>1, <2>5, DebtStays, UnderwayMeans
    <2> QED BY <1>0, <1>3, <2>2, <2>4, <2>6, PaidStays
  <1> QED BY <1>4, <1>5, <1>6 DEF StopStep

\* The queue takes a message back: only under a handler is that a failure.
LEMMA QueuePaid ==
    ASSUME ConsumerInv, TypeOK', NEW m \in Msgs, Paid(m), NEW x \in Msgs, QueueStep(x)
    PROVE  Paid(m)'
  <1>0. TypeOK BY DEF ConsumerInv
  <1>1. UNCHANGED <<phase, loop, work, stops>>
    BY DEF QueueStep, VisibilityExpires, VisibilityExpiresEarly, Redrive
  <1>2. faults \in Nat /\ stops \in Nat BY <1>0, AccountTypes
  <1>3. \A y \in Msgs : queue'[y].count = queue[y].count
    <2>1. PICK place \in {"visible", "dlq"} : Move(x, place)
      BY DEF QueueStep, VisibilityExpires, VisibilityExpiresEarly, Redrive
    <2> QED BY <1>0, <2>1, MoveKeeps
  <1>4. queue'[m] = queue[m] \/ (x = m /\ ~Underway(m)')
    <2>1. PICK place \in {"visible", "dlq"} : Move(x, place)
      BY DEF QueueStep, VisibilityExpires, VisibilityExpiresEarly, Redrive
    <2> QED BY <1>0, <2>1, MoveKeeps DEF Underway
  <1>5. \A j \in Instances : phase'[j] \in Halting =>
               /\ phase[j] \in Halting
               /\ loop'[j] # "ended" => loop[j] # "ended"
               /\ phase[j] = "abandoned" => phase'[j] = "abandoned"
    BY <1>1
  <1>6. Underway(m)' => Underway(m) /\ work'[Latest(m)'].by = work[Latest(m)].by
    BY <1>1, <1>4, SameAccount
  <1>7. Unspent(m)' \subseteq Unspent(m) BY <1>5, <1>6, UnspentShrinks
  <1>8. CASE VisibilityExpiresEarly(x)
    <2>1. Debt(m)' <= Debt(m) + 1 BY <1>0, <1>3, DebtGrows
    <2>2. faults' = faults + 1 BY <1>8 DEF VisibilityExpiresEarly, Fault
    <2> QED BY <1>0, <1>1, <1>7, <2>1, <2>2, PaidByFailure
  <1>9. CASE VisibilityExpires(x) \/ Redrive(x)
    <2>1. faults' = faults BY <1>9 DEF VisibilityExpires, Redrive
    <2>2. Debt(m)' <= Debt(m)
      <3>1. CASE queue'[m] = queue[m] BY <1>1, <3>1, DebtStays
      <3>2. CASE x = m
        <4>1. Free(m) = 0
          BY <1>9, <3>2, UnderwayMeans
          DEF VisibilityExpires, Redrive, Free, Underway, Attended, Handling
        <4>2. Free(m)' \in {0, 1} BY DEF Free
        <4>3. PICK c \in Nat : c = queue[m].count BY <1>0, AccountTypes
        <4>4. Debt(m) = c - Free(m) BY <4>3 DEF Debt
        <4>5. Debt(m)' = c - Free(m)' BY <1>3, <4>3 DEF Debt
        <4> QED BY <4>1, <4>2, <4>3, <4>4, <4>5
      <3> QED BY <1>4, <3>1, <3>2
    <2> QED BY <1>0, <1>1, <1>2, <1>7, <2>1, <2>2, PaidStays
  <1> QED BY <1>8, <1>9 DEF QueueStep

\* A loop that drops its batch spends its shutdown on it; a process that was given up
\* or crashes has been, or is, counted as a failure.
LEMMA DropPaid ==
    ASSUME ConsumerInv, TypeOK', NEW m \in Msgs, Paid(m), NEW i \in Instances,
           DispatchCancelled(i) \/ Exit(i) \/ Crash(i)
    PROVE  Paid(m)'
  <1>0. TypeOK BY DEF ConsumerInv
  <1>1. PICK D : Drops(i, D) /\ (DispatchCancelled(i) => D = Batch(i))
    <2>1. CASE DispatchCancelled(i)
      <3>1. phase[i] # "dead" /\ phase' = [phase EXCEPT ![i] = phase[i]]
        BY <2>1 DEF DispatchCancelled, TypeOK, ConsumerInv, ShutdownInv
      <3>2. Drops(i, Batch(i))
        BY <1>0, <2>1, <3>1 DEF DispatchCancelled, Drops, Dropped, TypeOK
      <3> QED BY <3>2
    <2>2. CASE ~DispatchCancelled(i)
      BY <1>0, <2>2, DropActions DEF ConsumerInv
    <2> QED BY <2>1, <2>2
  <1>2. /\ \A d \in Deliveries : /\ d \in D => work'[d].at = "over"
                                 /\ d \notin D => work'[d] = work[d]
        /\ \A d \in Deliveries : work'[d].by = work[d].by
        /\ queue' = queue /\ stops' = stops
    BY <1>0, <1>1, DroppedMeans DEF Drops, Shrinks
  <1>3. faults \in Nat /\ stops \in Nat BY <1>0, AccountTypes
  <1>4. \A j \in Instances : /\ loop'[j] # "ended" => loop[j] # "ended"
                             /\ phase'[j] = phase[j] \/ phase'[j] = "dead"
    BY <1>0, <1>1 DEF Drops, TypeOK
  <1>5. Latest(m)' = Latest(m) BY <1>2 DEF Latest
  <1>6. Underway(m)' => Underway(m) /\ work'[Latest(m)'].by = work[Latest(m)].by
    <2> SUFFICES ASSUME Underway(m)'
                 PROVE  Underway(m) /\ work'[Latest(m)].by = work[Latest(m)].by
      BY <1>5
    <2>1. queue[m].place = "hidden" BY <1>2 DEF Underway
    <2>2. Latest(m) \in Deliveries
      BY <2>1, LatestIsDelivery DEF ConsumerInv, QueueInv
    <2>3. work'[Latest(m)].at # "over" BY <1>5 DEF Underway
    <2>4. work'[Latest(m)] = work[Latest(m)] BY <1>2, <2>2, <2>3
    <2> QED BY <1>2, <1>5, <2>4 DEF Underway
  <1>7. Unspent(m)' \subseteq Unspent(m)
    <2>1. \A j \in Instances : phase'[j] \in Halting =>
               /\ phase[j] \in Halting
               /\ loop'[j] # "ended" => loop[j] # "ended"
               /\ phase[j] = "abandoned" => phase'[j] = "abandoned"
      BY <1>4 DEF Halting
    <2> QED BY <1>6, <2>1, UnspentShrinks
  <1>8. Debt(m)' <= Debt(m) + 1 BY <1>0, <1>2, DebtGrows
  <1>9. CASE Crash(i)
    <2>1. faults' = faults + 1 BY <1>9 DEF Crash, Fault
    <2> QED BY <1>0, <1>2, <1>7, <1>8, <2>1, PaidByFailure
  <1>10. CASE Underway(m) /\ work[Latest(m)].by = i /\ Latest(m) \in D
               /\ DispatchCancelled(i) /\ phase[i] # "abandoned"
    <2>1. /\ loop[i] = "dispatch" /\ phase[i] = "stopping" /\ faults' = faults
          /\ loop'[i] = "ended"
      BY <1>0, <1>10 DEF DispatchCancelled, TypeOK, ConsumerInv, ShutdownInv
    <2>2. i \in Unspent(m) BY <2>1 DEF Unspent
    <2>3. ~Underway(m)'
      <3>1. Latest(m) \in Deliveries BY <1>10, UnderwayMeans
      <3>2. work'[Latest(m)].at = "over" BY <1>2, <1>10, <3>1
      <3> QED BY <1>5, <3>2 DEF Underway
    <2>4. i \notin Unspent(m)' BY <2>1, <2>3 DEF Unspent
    <2> QED BY <1>0, <1>2, <1>7, <1>8, <2>1, <2>2, <2>4, PaidByShutdown
  <1>11. CASE /\ ~Crash(i)
              /\ ~(Underway(m) /\ work[Latest(m)].by = i /\ Latest(m) \in D
                      /\ DispatchCancelled(i) /\ phase[i] # "abandoned")
    <2>1. faults' = faults BY <1>11 DEF DispatchCancelled, Exit
    <2>2. Free(m) = 1 => Free(m)' = 1
      <3> SUFFICES ASSUME Underway(m), phase[work[Latest(m)].by] # "abandoned"
                   PROVE  Underway(m)' /\ phase'[work'[Latest(m)'].by] # "abandoned"
        BY <1>2 DEF Free
      <3>1. Latest(m) \in Deliveries /\ work[Latest(m)].by \in Instances BY UnderwayMeans
      <3>2. Latest(m) \notin D
        <4> SUFFICES ASSUME Latest(m) \in D PROVE FALSE OBVIOUS
        <4>1. work[Latest(m)].by = i
          <5>1. work \in WorkType BY <1>0 DEF TypeOK, WorkType
          <5>2. Latest(m) \in Batch(i) \/ Latest(m) \in Busy(i) BY <1>1 DEF Drops
          <5> QED BY <3>1, <5>1, <5>2, BatchFields DEF Batch, Busy
        <4>2. Exit(i) BY <1>11, <4>1
        <4>3. phase[i] = "abandoned" BY <4>2 DEF Exit, Shift
        <4> QED BY <4>1, <4>3
      <3>3. work'[Latest(m)] = work[Latest(m)] BY <1>2, <3>1, <3>2
      <3> QED BY <1>2, <1>4, <1>5, <3>1, <3>3 DEF Underway
    <2>3. Debt(m)' <= Debt(m)
      <3>1. PICK c \in Nat : c = queue[m].count BY <1>0, AccountTypes
      <3>2. Free(m) \in {0, 1} /\ Free(m)' \in {0, 1} BY DEF Free
      <3>3. Debt(m) = c - Free(m) BY <3>1 DEF Debt
      <3>4. Debt(m)' = c - Free(m)' BY <1>2, <3>1 DEF Debt
      <3> QED BY <2>2, <3>2, <3>3, <3>4
    <2> QED BY <1>0, <1>2, <1>3, <1>7, <2>1, <2>3, PaidStays
  <1> QED BY <1>9, <1>10, <1>11

\* A handler is started: the delivery stays under way.
LEMMA DispatchPaid ==
    ASSUME ConsumerInv, TypeOK', NEW m \in Msgs, Paid(m), NEW i \in Instances,
           NEW d \in Deliveries, Dispatch(i, d)
    PROVE  Paid(m)'
  <1>0. TypeOK BY DEF ConsumerInv
  <1>1. /\ work[d].at = "batch" /\ work' = [work EXCEPT ![d].at = "consume"]
        /\ UNCHANGED <<queue, phase, faults, stops>>
        /\ loop[i] = "dispatch"
        /\ loop' = [loop EXCEPT ![i] = IF Batch(i) = {d} THEN "poll" ELSE "dispatch"]
    BY DEF Dispatch, Batch
  <1>2. /\ work'[d].at = "consume" /\ work'[d].by = work[d].by
        /\ \A x \in Deliveries : x # d => work'[x] = work[x]
    BY <1>0, <1>1 DEF TypeOK
  <1>3. Latest(m)' = Latest(m) BY <1>1 DEF Latest
  <1>4. queue[m].place = "hidden" => Latest(m) \in Deliveries
    BY LatestIsDelivery DEF ConsumerInv, QueueInv
  <1>5. Underway(m)' <=> Underway(m) BY <1>1, <1>2, <1>3, <1>4 DEF Underway
  <1>6. Underway(m) => work'[Latest(m)'].by = work[Latest(m)].by
    BY <1>2, <1>3, UnderwayMeans
  <1>7. \A j \in Instances : loop'[j] # "ended" => loop[j] # "ended"
    BY <1>0, <1>1 DEF TypeOK
  <1>8. Unspent(m)' \subseteq Unspent(m)
    BY <1>1, <1>5, <1>6, <1>7, UnspentShrinks
  <1>9. Debt(m)' <= Debt(m)
    <2>1. Free(m)' = Free(m) BY <1>1, <1>5, <1>6 DEF Free
    <2> QED BY <1>0, <1>1, <2>1, AccountTypes DEF Debt
  <1>10. faults <= faults' /\ stops <= stops' BY <1>0, <1>1, AccountTypes
  <1> QED BY <1>0, <1>8, <1>9, <1>10, PaidStays

\* A message that an answer hands out was visible: whatever was to be paid is paid.
LEMMA AnswerAccount ==
    ASSUME ConsumerInv, TypeOK', NEW m \in Msgs, NEW S \in SUBSET Msgs, NEW n,
           Available(S, n), HandOut(S),
           NEW at \in {"batch", "over"}, NEW by \in Instances \cup {None},
           Delivered(S, [at |-> at, by |-> by])
    PROVE  /\ m \notin S => /\ queue'[m] = queue[m]
                            /\ queue[m].count > 0 => work'[Latest(m)] = work[Latest(m)]
           /\ m \in S => /\ Free(m) = 0 /\ ~Underway(m)
                         /\ queue'[m].count = queue[m].count + 1
                         /\ queue'[m].place = "hidden"
                         /\ work'[Latest(m)'].at = at /\ work'[Latest(m)'].by = by
  <1>0. TypeOK BY DEF ConsumerInv
  <1>1. /\ \A x \in S : /\ queue[x].place = "visible"
                        /\ queue'[x].place = "hidden"
                        /\ queue'[x].count = queue[x].count + 1
        /\ \A x \in Msgs \ S : queue'[x] = queue[x]
        /\ \A x \in Fresh(S) : work'[x].at = at /\ work'[x].by = by
        /\ \A x \in Deliveries \ Fresh(S) : work'[x] = work[x]
    BY AnswerMeans
  <1>2. ASSUME m \notin S, queue[m].count > 0
        PROVE  work'[Latest(m)] = work[Latest(m)]
    <2>1. Latest(m) \in Deliveries /\ Latest(m)[1] = m
      BY <1>0, <1>2, LatestIsDelivery
    <2>2. Latest(m) \notin Fresh(S) BY <1>2, <2>1 DEF Fresh
    <2> QED BY <1>1, <2>1, <2>2
  <1>3. ASSUME m \in S
        PROVE  /\ Free(m) = 0 /\ ~Underway(m)
               /\ work'[Latest(m)'].at = at /\ work'[Latest(m)'].by = by
    <2>1. queue[m].place = "visible" BY <1>1, <1>3
    <2>2. ~Underway(m) /\ Free(m) = 0 BY <2>1 DEF Underway, Free
    <2>3. PICK c \in Nat : c = queue[m].count BY <1>0, AccountTypes
    <2>4. Latest(m)' = <<m, c + 1>> BY <1>1, <1>3, <2>3 DEF Latest
    <2>5. c + 1 \in 1 .. MaxReceive
      <3>1. queue'[m].count \in 0 .. MaxReceive /\ queue'[m].count = c + 1
        BY <1>1, <1>3, <2>3 DEF TypeOK
      <3>2. MaxReceive \in Nat BY ConsumerAssumption
      <3> QED BY <2>3, <3>1, <3>2
    <2>6. <<m, c + 1>> \in Fresh(S)
      BY <1>3, <2>3, <2>5 DEF Fresh, Deliveries
    <2>7. work'[<<m, c + 1>>].at = at /\ work'[<<m, c + 1>>].by = by BY <1>1, <2>6
    <2> QED BY <2>2, <2>4, <2>7
  <1> QED BY <1>1, <1>2, <1>3

\* A message that is received is under way, at nobody's expense.
LEMMA ReceivePaid ==
    ASSUME ConsumerInv, TypeOK', NEW m \in Msgs, Paid(m), NEW i \in Instances,
           NEW S \in SUBSET Msgs, Receive(i, S)
    PROVE  Paid(m)'
  <1>0. TypeOK BY DEF ConsumerInv
  <1>1. /\ phase[i] = "running" /\ UNCHANGED <<phase, faults, stops>>
        /\ Available(S, room[i]) /\ HandOut(S)
        /\ Delivered(S, [at |-> "batch", by |-> i])
        /\ loop[i] = "receive"
        /\ loop' = [loop EXCEPT ![i] = IF S = {} THEN "poll" ELSE "dispatch"]
    BY DEF Receive
  <1>2. /\ m \notin S => /\ queue'[m] = queue[m]
                         /\ queue[m].count > 0 => work'[Latest(m)] = work[Latest(m)]
        /\ m \in S => /\ Free(m) = 0 /\ ~Underway(m)
                      /\ queue'[m].count = queue[m].count + 1
                      /\ queue'[m].place = "hidden"
                      /\ work'[Latest(m)'].at = "batch" /\ work'[Latest(m)'].by = i
    BY <1>1, AnswerAccount
  <1>3. \A j \in Instances : loop'[j] # "ended" => loop[j] # "ended"
    BY <1>0, <1>1 DEF TypeOK
  <1>4. faults <= faults' /\ stops <= stops' BY <1>0, <1>1, AccountTypes
  <1>5. CASE m \notin S
    <2>1. /\ Underway(m)' <=> Underway(m)
          /\ Underway(m) => work'[Latest(m)'] = work[Latest(m)]
      BY <1>2, <1>5, SameAccount
    <2>2. Unspent(m)' \subseteq Unspent(m) BY <1>1, <1>3, <2>1, UnspentShrinks
    <2>3. Debt(m)' <= Debt(m) BY <1>1, <1>2, <1>5, DebtStays
    <2> QED BY <1>0, <1>4, <2>2, <2>3, PaidStays
  <1>6. CASE m \in S
    <2>1. Unspent(m)' \subseteq Unspent(m)
      <3> SUFFICES ASSUME NEW j \in Unspent(m)' PROVE j \in Unspent(m) OBVIOUS
      <3>1. /\ j \in Instances /\ phase[j] \in Halting
            /\ loop'[j] # "ended" \/ work'[Latest(m)'].by = j
        BY <1>1 DEF Unspent, Halting
      <3>2. j # i BY <1>1, <3>1 DEF Halting
      <3>3. loop'[j] # "ended" BY <1>2, <1>6, <3>1, <3>2
      <3> QED BY <1>3, <3>1, <3>3 DEF Unspent, Halting
    <2>2. Free(m)' = 1
      BY <1>1, <1>2, <1>6 DEF Free, Underway
    <2>3. PICK c \in Nat : c = queue[m].count BY <1>0, AccountTypes
    <2>4. Debt(m) = c - 0 BY <1>2, <1>6, <2>3 DEF Debt
    <2>5. Debt(m)' = (c + 1) - 1 BY <1>2, <1>6, <2>2, <2>3 DEF Debt
    <2>6. Debt(m)' <= Debt(m) BY <2>3, <2>4, <2>5
    <2> QED BY <1>0, <1>4, <2>1, <2>6, PaidStays
  <1> QED BY <1>5, <1>6

\* An answer that is lost was lost by a failure, or by the shutdown that ends the loop.
LEMMA MissPaid ==
    ASSUME ConsumerInv, TypeOK', NEW m \in Msgs, Paid(m), NEW i \in Instances,
           NEW S \in SUBSET Msgs, Misses(i, S)
    PROVE  Paid(m)'
  <1>0. TypeOK BY DEF ConsumerInv
  <1>1. /\ UNCHANGED <<phase, stops>>
        /\ Available(S, room[i]) /\ HandOut(S)
        /\ Delivered(S, [at |-> "over", by |-> None])
        /\ loop[i] = "receive"
        /\ loop' \in {[loop EXCEPT ![i] = "poll"], [loop EXCEPT ![i] = "ended"]}
    BY DEF Misses, ReceiveFails, ReceiveCancelled, LostAnswer
  <1>2. /\ m \notin S => /\ queue'[m] = queue[m]
                         /\ queue[m].count > 0 => work'[Latest(m)] = work[Latest(m)]
        /\ m \in S => /\ Free(m) = 0 /\ ~Underway(m)
                      /\ queue'[m].count = queue[m].count + 1
                      /\ queue'[m].place = "hidden"
                      /\ work'[Latest(m)'].at = "over" /\ work'[Latest(m)'].by = None
    BY <1>1, AnswerAccount
  <1>3. \A j \in Instances : loop'[j] # "ended" => loop[j] # "ended"
    BY <1>0, <1>1 DEF TypeOK
  <1>4. faults \in Nat /\ stops \in Nat BY <1>0, AccountTypes
  <1>5. Underway(m)' => Underway(m) /\ work'[Latest(m)'].by = work[Latest(m)].by
    <2>1. CASE m \notin S BY <1>2, <2>1, SameAccount
    <2>2. CASE m \in S BY <1>2, <2>2 DEF Underway
    <2> QED BY <2>1, <2>2
  <1>6. Unspent(m)' \subseteq Unspent(m) BY <1>1, <1>3, <1>5, UnspentShrinks
  <1>7. Debt(m)' <= Debt(m) + (IF m \in S THEN 1 ELSE 0)
    <2>1. CASE m \notin S
      <3>1. Debt(m)' <= Debt(m) BY <1>1, <1>2, <2>1, DebtStays
      <3>2. Debt(m) \in Int /\ Debt(m)' \in Int
        <4>1. Debt(m) \in Int BY <1>0, AccountTypes
        <4>2. queue'[m].count \in Nat /\ Free(m)' \in {0, 1}
          BY ConsumerAssumption DEF TypeOK, Free
        <4> QED BY <4>1, <4>2 DEF Debt
      <3> QED BY <2>1, <3>1, <3>2
    <2>2. CASE m \in S
      <3>1. PICK c \in Nat : c = queue[m].count BY <1>0, AccountTypes
      <3>2. Debt(m) = c - 0 BY <1>2, <2>2, <3>1 DEF Debt
      <3>3. Free(m)' \in {0, 1} BY DEF Free
      <3>4. Debt(m)' = (c + 1) - Free(m)' BY <1>2, <2>2, <3>1 DEF Debt
      <3> QED BY <2>2, <3>1, <3>2, <3>3, <3>4
    <2> QED BY <2>1, <2>2
  <1>8. Debt(m) \in Int /\ Debt(m)' \in Int
    <2>1. Debt(m) \in Int BY <1>0, AccountTypes
    <2>2. queue'[m].count \in Nat /\ Free(m)' \in {0, 1}
      BY ConsumerAssumption DEF TypeOK, Free
    <2> QED BY <2>1, <2>2 DEF Debt
  <1>9. CASE ReceiveFails(i, S)
    <2>1. faults' = faults + 1 BY <1>9 DEF ReceiveFails, Fault
    <2>2. Debt(m)' <= Debt(m) + 1 BY <1>7, <1>8
    <2> QED BY <1>0, <1>1, <1>6, <2>1, <2>2, PaidByFailure
  <1>10. CASE ReceiveCancelled(i, S) /\ m \notin S
    <2>1. faults' = faults /\ Debt(m)' <= Debt(m)
      BY <1>7, <1>8, <1>10 DEF ReceiveCancelled
    <2> QED BY <1>0, <1>1, <1>4, <1>6, <2>1, PaidStays
  <1>11. CASE ReceiveCancelled(i, S) /\ m \in S
    <2>1. /\ faults' = faults /\ phase[i] # "running"
          /\ loop' = [loop EXCEPT ![i] = "ended"]
      BY <1>11 DEF ReceiveCancelled
    <2>2. phase[i] \in {"stopping", "abandoned"}
      BY <1>0, <1>1, <2>1 DEF TypeOK, ConsumerInv, ShutdownInv
    <2>3. i \in Unspent(m) BY <1>1, <2>2 DEF Unspent
    <2>4. loop'[i] = "ended" /\ ~Underway(m)'
      BY <1>0, <1>2, <1>11, <2>1 DEF TypeOK, Underway
    <2>5. i \notin Unspent(m)' BY <2>4 DEF Unspent
    <2>6. Unspent(m)' \subseteq Unspent(m) \ {i} BY <1>6, <2>5
    <2>7. Debt(m)' <= Debt(m) + 1 BY <1>7, <1>8
    <2> QED BY <1>0, <1>1, <2>1, <2>3, <2>6, <2>7, PaidByShutdown
  <1> QED BY <1>9, <1>10, <1>11 DEF Misses

\* A handler of an acceptable message ends it well, fails, or is cut off by a shutdown.
LEMMA HandlePaid ==
    ASSUME ConsumerInv, TypeOK', NEW m \in Msgs, Paid(m), Content[m] = "valid",
           NEW d \in Deliveries, Handle(d) \/ HandlerFails(d)
    PROVE  Paid(m)'
  <1>0. TypeOK BY DEF ConsumerInv
  <1>1. HandlerStep(d) BY <1>0, HandlerActions
  <1>2. /\ \A x \in Deliveries : x # d => work'[x] = work[x]
        /\ \A x \in Deliveries : work'[x].by = work[x].by
    BY <1>0, <1>1, HandlerShrinks DEF Shrinks
  <1>3. UNCHANGED <<phase, loop, stops>> BY <1>1 DEF HandlerStep, Proceed
  <1>4. faults \in Nat /\ stops \in Nat BY <1>0, AccountTypes
  <1>5. d[1] \in Msgs BY DEF Deliveries
  <1>6. \A x \in Msgs : queue'[x].count = queue[x].count
    <2>1. CASE queue' = queue BY <2>1
    <2>2. CASE Move(d[1], "deleted") BY <1>0, <1>5, <2>2, MoveKeeps
    <2>3. CASE Move(d[1], "visible") BY <1>0, <1>5, <2>3, MoveKeeps
    <2> QED BY <1>1, <2>1, <2>2, <2>3 DEF HandlerStep, HandlerMoves
  <1>7. d # Latest(m) => queue'[m] = queue[m]
    <2>1. CASE d[1] = m
      BY <1>1, <2>1 DEF HandlerStep, HandlerMoves, InForce
    <2>2. CASE d[1] # m
      <3>1. CASE queue' = queue BY <3>1
      <3>2. CASE Move(d[1], "deleted") BY <1>0, <1>5, <2>2, <3>2, MoveKeeps
      <3>3. CASE Move(d[1], "visible") BY <1>0, <1>5, <2>2, <3>3, MoveKeeps
      <3> QED BY <1>1, <3>1, <3>2, <3>3 DEF HandlerStep, HandlerMoves
    <2> QED BY <2>1, <2>2
  <1>8. Latest(m)' = Latest(m) BY <1>6 DEF Latest
  <1>9. faults' = faults \/ faults' = faults + 1
    BY DEF Handle, HandlerFails, DecodeFails, Consume, ConsumeRefuses, ConsumeCancelled,
           Delete, Release, DeferRetry, ConsumeFails, ConsumeTimesOut, BrokerCallFails, Fault
  <1>10. Underway(m)' => Underway(m) /\ work'[Latest(m)'].by = work[Latest(m)].by
    <2>1. CASE d # Latest(m)
      <3>1. queue[m].count > 0 => work'[Latest(m)] = work[Latest(m)]
        BY <1>0, <1>2, <2>1, LatestIsDelivery
      <3> QED BY <1>7, <2>1, <3>1, SameAccount
    <2>2. CASE d = Latest(m)
      <3> SUFFICES ASSUME Underway(m)' PROVE Underway(m) BY <1>2, <1>8, <2>2
      <3>1. queue'[m].place = "hidden" /\ work'[d].at \in {"batch", "consume", "delete"}
        BY <1>8, <2>2 DEF Underway
      <3>2. d[1] = m BY <2>2 DEF Latest
      <3>3. queue[m].place = "hidden"
        <4>1. CASE queue' = queue BY <3>1, <4>1
        <4>2. CASE Move(d[1], "deleted") BY <1>0, <1>5, <3>1, <3>2, <4>2, MoveKeeps
        <4>3. CASE Move(d[1], "visible") BY <1>0, <1>5, <3>1, <3>2, <4>3, MoveKeeps
        <4> QED BY <1>1, <4>1, <4>2, <4>3 DEF HandlerStep, HandlerMoves
      <3>4. work[d].at \in {"consume", "delete"}
        BY <1>0, <3>1 DEF Handle, HandlerFails, DecodeFails, Consume, ConsumeRefuses,
           ConsumeCancelled, Delete, Release, DeferRetry, ConsumeFails, ConsumeTimesOut,
           BrokerCallFails, Proceed, TypeOK
      <3> QED BY <2>2, <3>3, <3>4 DEF Underway
    <2> QED BY <2>1, <2>2
  <1>11. Unspent(m)' \subseteq Unspent(m) BY <1>3, <1>10, UnspentShrinks
  <1>12. Debt(m)' <= Debt(m) + 1 BY <1>0, <1>6, DebtGrows
  <1>13. CASE faults' = faults + 1
    BY <1>0, <1>3, <1>11, <1>12, <1>13, PaidByFailure
  <1>14. CASE faults' = faults /\ d = Latest(m) /\ Underway(m)
               /\ ConsumeCancelled(d) /\ phase[work[d].by] # "abandoned"
    <2>1. PICK i \in Instances : i = work[Latest(m)].by BY <1>14, UnderwayMeans
    <2>2. phase[i] = "cancelled" /\ loop[i] = "ended"
      BY <1>14, <2>1 DEF ConsumeCancelled, WorkCancelled, ConsumerInv, ShutdownInv
    <2>3. i \in Unspent(m) BY <1>14, <2>1, <2>2 DEF Unspent
    <2>4. work'[d].at = "release"
      BY <1>0, <1>14 DEF ConsumeCancelled, Proceed, TypeOK
    <2>5. ~Underway(m)' BY <1>8, <1>14, <2>4 DEF Underway
    <2>6. i \notin Unspent(m)' BY <1>3, <2>2, <2>5 DEF Unspent
    <2>7. Unspent(m)' \subseteq Unspent(m) \ {i} BY <1>11, <2>6
    <2> QED BY <1>0, <1>3, <1>12, <1>14, <2>3, <2>7, PaidByShutdown
  <1>15. CASE faults' = faults
               /\ ~(d = Latest(m) /\ Underway(m)
                       /\ ConsumeCancelled(d) /\ phase[work[d].by] # "abandoned")
    <2>1. Free(m) = 1 => Free(m)' = 1
      <3>1. CASE queue[m].place = "deleted"
        <4>1. queue'[m].place = "deleted"
          <5>1. CASE d # Latest(m) BY <1>7, <3>1, <5>1
          <5>2. CASE d = Latest(m)
            <6>1. d[1] = m BY <5>2 DEF Latest
            <6> QED BY <1>1, <3>1, <6>1 DEF HandlerStep, HandlerMoves, InForce
          <5> QED BY <5>1, <5>2
        <4> QED BY <4>1 DEF Free
      <3>2. CASE Underway(m) /\ phase[work[Latest(m)].by] # "abandoned" /\ d # Latest(m)
        <4>1. Latest(m) \in Deliveries BY <3>2, UnderwayMeans
        <4>2. work'[Latest(m)] = work[Latest(m)] BY <1>2, <3>2, <4>1
        <4> QED BY <1>3, <1>7, <1>8, <3>2, <4>2 DEF Free, Underway
      <3>3. CASE Underway(m) /\ phase[work[Latest(m)].by] # "abandoned" /\ d = Latest(m)
        <4>0. d[1] = m /\ queue[m].place = "hidden" /\ work[d].at \in {"consume", "delete"}
          BY <1>1, <3>3 DEF Latest, Underway, HandlerStep, Handling
        <4>1. Consume(d) \/ Delete(d)
          <5>1. ~HandlerFails(d)
            BY <1>4, <1>15 DEF HandlerFails, ConsumeFails, ConsumeTimesOut, BrokerCallFails,
                               Fault
          <5>2. ~ConsumeCancelled(d) BY <1>15, <3>3
          <5>3. ~DecodeFails(d) /\ ~ConsumeRefuses(d)
            BY <4>0 DEF DecodeFails, ConsumeRefuses
          <5>4. ~Release(d) /\ ~DeferRetry(d) BY <4>0 DEF Release, DeferRetry
          <5> QED BY <5>1, <5>2, <5>3, <5>4 DEF Handle
        <4>2. CASE Consume(d)
          <5>1. work'[d].at = "delete" /\ work'[d].by = work[d].by /\ queue' = queue
            BY <1>0, <4>2 DEF Consume, Proceed, TypeOK
          <5> QED BY <1>3, <1>8, <3>3, <4>0, <5>1 DEF Free, Underway
        <4>3. CASE Delete(d)
          <5>1. InForce(d) BY <3>3, <4>0 DEF InForce
          <5>2. Move(d[1], "deleted") BY <4>3, <5>1 DEF Delete, Deletes
          <5>3. queue'[m].place = "deleted" BY <1>0, <4>0, <5>2, MoveKeeps
          <5> QED BY <5>3 DEF Free
        <4> QED BY <4>1, <4>2, <4>3
      <3> QED BY <3>1, <3>2, <3>3 DEF Free
    <2>2. Debt(m)' <= Debt(m)
      <3>1. PICK c \in Nat : c = queue[m].count BY <1>0, AccountTypes
      <3>2. Free(m) \in {0, 1} /\ Free(m)' \in {0, 1} BY DEF Free
      <3>3. Debt(m) = c - Free(m) BY <3>1 DEF Debt
      <3>4. Debt(m)' = c - Free(m)' BY <1>6, <3>1 DEF Debt
      <3> QED BY <2>1, <3>2, <3>3, <3>4
    <2> QED BY <1>0, <1>3, <1>4, <1>11, <1>15, <2>2, PaidStays
  <1> QED BY <1>9, <1>13, <1>14, <1>15

\* Before the first delivery there is nothing to pay.
LEMMA InitPaid == Init => PaidInv
  <1> SUFFICES ASSUME Init, NEW m \in Msgs PROVE Paid(m) BY DEF PaidInv
  <1>1. Unspent(m) = {} BY DEF Init, Unspent
  <1>2. Free(m) = 0 /\ Debt(m) = 0 BY DEF Init, Free, Underway, Debt
  <1>3. IsFiniteSet({}) /\ Cardinality({}) = 0 BY FS_EmptySet
  <1> QED BY <1>1, <1>2, <1>3 DEF Init, Paid

\* Every step pays for the delivery it spoils.
LEMMA NextPaid == ConsumerInv /\ PaidInv /\ [Next]_vars => PaidInv'
  <1> SUFFICES ASSUME ConsumerInv, PaidInv, [Next]_vars, NEW m \in Msgs,
                      Content[m] = "valid"
               PROVE  Paid(m)'
    BY DEF PaidInv
  <1>0. TypeOK' /\ Paid(m) BY NextConsumer DEF ConsumerInv, PaidInv
  <1>1. CASE Next
    BY <1>0, <1>1, NextShape, TurnPaid, StopPaid, DropPaid, ReceivePaid, MissPaid,
       DispatchPaid, HandlePaid, QueuePaid
  <1>2. CASE UNCHANGED vars
    BY <1>0, <1>2 DEF vars, Paid, Unspent, Debt, Free, Underway, Latest
  <1> QED BY <1>1, <1>2

\* Each delivery of an acceptable message beyond the first is answered for by a failure
\* or a shutdown that no other delivery of it needs; so no handler works against
\* another, and only a message that failed MaxReceive times is given up.
THEOREM RedeliveriesAreFailures == Spec => []RedeliveriesNeedFailures
  <1>1. ConsumerInv /\ PaidInv => RedeliveriesNeedFailures
    <2> SUFFICES ASSUME ConsumerInv, PaidInv, NEW m \in Msgs, Content[m] = "valid"
                 PROVE  /\ queue[m].count <= 1 + faults + stops
                        /\ queue[m].place = "dlq" => MaxReceive <= faults + stops
      BY DEF RedeliveriesNeedFailures
    <2>1. IsFiniteSet(Unspent(m)) /\ Debt(m) + Cardinality(Unspent(m)) <= faults + stops
      BY DEF PaidInv, Paid
    <2>2. Cardinality(Unspent(m)) \in Nat BY <2>1, FS_CardinalityType
    <2>3. /\ queue[m].count \in Nat /\ Free(m) \in {0, 1} /\ Debt(m) \in Int
          /\ faults \in Nat /\ stops \in Nat
      BY AccountTypes DEF ConsumerInv
    <2>4. Debt(m) <= faults + stops BY <2>1, <2>2, <2>3
    <2>5. PICK c \in Nat : c = queue[m].count BY <2>3
    <2>6. Debt(m) = c - Free(m) BY <2>5 DEF Debt
    <2>7. c <= 1 + faults + stops BY <2>3, <2>4, <2>6
    <2>8. ASSUME queue[m].place = "dlq" PROVE MaxReceive <= faults + stops
      <3>1. Free(m) = 0 /\ c = MaxReceive
        BY <2>5, <2>8 DEF Free, Underway, ConsumerInv, QueueInv
      <3> QED BY <2>3, <2>4, <2>6, <3>1
    <2> QED BY <2>5, <2>7, <2>8
  <1>2. Spec => []PaidInv BY Consumers, InitPaid, NextPaid, PTL DEF Spec
  <1> QED BY <1>1, <1>2, Consumers, PTL
=============================================================================
