--------------------------- MODULE LifecycleProofs ---------------------------
(***************************************************************************)
(* Theorems about Lifecycle, for any timeouts: what a process takes away,  *)
(* nobody uses any more, and what its budget reserves is enough.           *)
(***************************************************************************)
EXTENDS Lifecycle, TLAPS

\* The place of a component among the hooks.
Place(c) == CASE c = "consumer" -> 3 [] c = "outbox" -> 4 [] c = "reference" -> 5
              [] OTHER -> 6

\* The waits of the hook in each place.
StagesOf(n) == CASE n = 2 -> {"none", "pool"}
                 [] n = 3 -> {"none", "loop", "drain", "work"}
                 [] n = 4 -> {"none", "outbox"}
                 [] n = 5 -> {"none", "reference"}
                 [] n = 6 -> {"none", "http"}
                 [] OTHER -> {"none"}

LifeTypes ==
    /\ phase \in {"starting", "running", "rollback", "stopping", "aborted", "exited"}
    /\ started \in 0 .. 6
    /\ stage \in StagesOf(started)
    /\ listener \in {"none", "open", "closed"}
    /\ loop \in [Workers -> {"none", "running", "cancelled", "ended"}]
    /\ busy \subseteq Users
    /\ pool \in {"open", "closing", "closed"}
    /\ due \in [Workers -> Nat]
    /\ timer \in Nat
    /\ left \in Nat

\* A worker that has not started, or has stopped, has no goroutine and no work; one
\* that waits for its loop or for its handlers has been cancelled.
WorkerInv(c) ==
    /\ Place(c) > started => loop[c] \in {"none", "ended"}
    /\ loop[c] \in {"none", "ended"} /\ c # "consumer" => c \notin busy
    /\ Place(c) > started => c \notin busy
    /\ c \in busy => due[c] <= Limit(c)

\* The stages of a stop follow each other.
StageInv ==
    /\ stage # "none" => phase \in {"rollback", "stopping", "aborted", "exited"}
    /\ stage = "loop" => loop["consumer"] \in {"cancelled", "ended"}
    /\ stage \in {"drain", "work"} => loop["consumer"] = "ended"
    /\ stage \in {"reference", "outbox"} => loop[stage] \in {"cancelled", "ended"}
    /\ stage = "http" => listener # "open"

\* The pool is the second to start and the last to close.
PoolInv ==
    /\ pool # "open" => started <= 2 /\ phase \notin {"starting", "running"}
    /\ pool = "closed" => busy = {} /\ started < 2
    /\ started < 2 => pool = "closed" \/ (busy = {} /\ \A c \in Workers : loop[c] = "none")
    /\ started < 6 => listener # "open"
    /\ phase = "starting" => started < 6

\* The process ends with every hook stopped, or with its time over.
EndInv ==
    /\ Ended => started = 0 \/ left = 0
    /\ ~Ended => killed = {}
    /\ phase = "running" => started = 6

StopInv ==
    /\ LifeTypes
    /\ \A c \in Workers : WorkerInv(c)
    /\ StageInv
    /\ PoolInv
    /\ EndInv

\* The longest that the hooks still to be stopped may take, from the consumer's on.
ConsumerNeeds ==
    IF stage \in {"drain", "work"} THEN IF "consumer" \in busy THEN due["consumer"] ELSE 0
    ELSE Limit("consumer")
OutboxNeeds ==
    CASE started > 4 \/ (started = 4 /\ stage = "none") -> Limit("outbox")
      [] started = 4 /\ stage = "outbox" /\ "outbox" \in busy -> due["outbox"]
      [] OTHER -> 0
ReferenceNeeds ==
    CASE started > 5 \/ (started = 5 /\ stage = "none") -> Limit("reference")
      [] started = 5 /\ stage = "reference" /\ "reference" \in busy -> due["reference"]
      [] OTHER -> 0
ServerNeeds ==
    CASE started = 6 /\ stage = "none" -> ShutdownTimeout
      [] started = 6 /\ stage = "http" -> timer
      [] OTHER -> 0

\* The time left is more than what the workers may still need.
TimeInv ==
    phase = "stopping" /\ started > 2 =>
        left > ConsumerNeeds + OutboxNeeds + ReferenceNeeds + ServerNeeds

KilledInv == phase = "exited" => killed \subseteq {"http"}

-----------------------------------------------------------------------------
(* HOOKS                                                                    *)

\* The hooks in their order.
LEMMA HookNames ==
    /\ Len(Hooks) = 6
    /\ Hooks[1] = "oidc" /\ Hooks[2] = "pool" /\ Hooks[3] = "consumer"
    /\ Hooks[4] = "outbox" /\ Hooks[5] = "reference" /\ Hooks[6] = "http"
    /\ \A n \in 1 .. 6 : /\ Hooks[n] \in {"oidc", "pool"} <=> n <= 2
                         /\ Hooks[n] \in Workers <=> n \in 3 .. 5
                         /\ Hooks[n] \in Workers => Place(Hooks[n]) = n
                         /\ \A c \in Workers : Place(c) = n => Hooks[n] = c
  <1>1. /\ Len(Hooks) = 6
        /\ Hooks[1] = "oidc" /\ Hooks[2] = "pool" /\ Hooks[3] = "consumer"
        /\ Hooks[4] = "outbox" /\ Hooks[5] = "reference" /\ Hooks[6] = "http"
    BY DEF Hooks
  <1>2. ASSUME NEW n \in 1 .. 6
        PROVE  /\ Hooks[n] \in {"oidc", "pool"} <=> n <= 2
               /\ Hooks[n] \in Workers <=> n \in 3 .. 5
               /\ Hooks[n] \in Workers => Place(Hooks[n]) = n
               /\ \A c \in Workers : Place(c) = n => Hooks[n] = c
    <2>1. n = 1 \/ n = 2 \/ n = 3 \/ n = 4 \/ n = 5 \/ n = 6 OBVIOUS
    <2>2. ASSUME NEW h, h = Hooks[n]
          PROVE  /\ h \in {"oidc", "pool"} <=> n <= 2
                 /\ h \in Workers <=> n \in 3 .. 5
                 /\ h \in Workers => Place(h) = n
                 /\ \A c \in Workers : Place(c) = n => h = c
      BY <1>1, <2>1, <2>2 DEF Workers, Place
    <2> QED BY <2>2
  <1>3. \A n \in 1 .. 6 : /\ Hooks[n] \in {"oidc", "pool"} <=> n <= 2
                          /\ Hooks[n] \in Workers <=> n \in 3 .. 5
                          /\ Hooks[n] \in Workers => Place(Hooks[n]) = n
                          /\ \A c \in Workers : Place(c) = n => Hooks[n] = c
    BY <1>2
  <1> QED BY <1>1, <1>3

\* The places of the components.
LEMMA Places ==
    /\ Place("consumer") = 3 /\ Place("outbox") = 4 /\ Place("reference") = 5
    /\ \A c \in Workers : Place(c) \in 3 .. 5
    /\ \A c, d \in Workers : Place(c) = Place(d) => c = d
  <1>1. Place("consumer") = 3 /\ Place("outbox") = 4 /\ Place("reference") = 5
    BY DEF Place
  <1> QED BY <1>1 DEF Workers

\* A stage tells which hook stops.
LEMMA StageTells ==
    ASSUME LifeTypes
    PROVE  /\ stage \in {"none", "pool", "loop", "drain", "work", "outbox", "reference", "http"}
           /\ stage = "pool" => started = 2
           /\ stage \in {"loop", "drain", "work"} => started = 3
           /\ stage = "outbox" => started = 4
           /\ stage = "reference" => started = 5
           /\ stage = "http" => started = 6
  BY DEF LifeTypes, StagesOf

\* The limits of the workers.
LEMMA Limits ==
    /\ Limit("consumer") = SQSProcessing + Detached("consumer")
    /\ Limit("outbox") = OutboxProcess + Detached("outbox")
    /\ Limit("reference") = ReferenceProcess + Detached("reference")
    /\ \A c \in Workers : Limit(c) \in Nat /\ Detached(c) \in Nat
    /\ Limit("outbox") \in Nat /\ Limit("reference") \in Nat
  <1>1. \A c \in Workers : Detached(c) \in Nat
    BY TimeoutsAssumption DEF Detached, Workers
  <1>2. \A c \in Workers : Processing(c) \in Nat
    BY TimeoutsAssumption DEF Processing, Workers
  <1>3. /\ Processing("consumer") = SQSProcessing /\ Processing("outbox") = OutboxProcess
        /\ Processing("reference") = ReferenceProcess
    BY DEF Processing
  <1> QED BY <1>1, <1>2, <1>3 DEF Limit, Workers

-----------------------------------------------------------------------------
(* STEPS                                                                    *)

\* A hook starts, or fails to.
LEMMA StartKeeps ==
    ASSUME StopInv, StartHook \/ StartFails
    PROVE  StopInv'
  <1>1. LifeTypes /\ StageInv /\ PoolInv /\ EndInv /\ \A c \in Workers : WorkerInv(c)
    BY DEF StopInv
  <1>2. phase = "starting" /\ started \in 0 .. 5 /\ stage = "none" /\ pool = "open"
        /\ started + 1 \in 1 .. 6
    BY <1>1 DEF StartHook, StartFails, StageInv, PoolInv, LifeTypes
  <1>3. PICK h : h = Hooks[started + 1] OBVIOUS
  <1>4. CASE StartHook
    <2>1. /\ started' = started + 1 /\ UNCHANGED <<stage, busy, pool, clocks, killed>>
          /\ phase' = IF started + 1 = 6 THEN "running" ELSE "starting"
          /\ loop' = IF h \in Workers THEN [loop EXCEPT ![h] = "running"] ELSE loop
          /\ listener' = IF h = "http" THEN "open" ELSE listener
      BY <1>3, <1>4, HookNames DEF StartHook
    <2>2. h = "http" <=> started' = 6 BY <1>2, <1>3, <2>1, HookNames DEF Workers
    <2>3. LifeTypes'
      BY <1>1, <1>2, <2>1 DEF LifeTypes, StagesOf, clocks
    <2>4. ASSUME NEW c \in Workers PROVE WorkerInv(c)'
      <3>1. WorkerInv(c) /\ Place(c) \in 3 .. 5 BY <1>1, Places
      <3>2. CASE c = h
        <4>1. Place(c) = started + 1 BY <1>2, <1>3, <3>2, HookNames
        <4>2. loop'[c] = "running" BY <1>1, <2>1, <3>2 DEF LifeTypes
        <4> QED BY <1>2, <2>1, <3>1, <4>1, <4>2 DEF WorkerInv, clocks
      <3>3. CASE c # h
        <4>1. Place(c) # started + 1 BY <1>2, <1>3, <3>3, HookNames
        <4>2. loop'[c] = loop[c] BY <1>1, <2>1, <3>3 DEF LifeTypes
        <4> QED BY <1>2, <2>1, <3>1, <4>1, <4>2 DEF WorkerInv, clocks
      <3> QED BY <3>2, <3>3
    <2>5. StageInv' BY <1>2, <2>1 DEF StageInv
    <2>6. PoolInv'
      <3>1. started' < 2 => h \notin Workers BY <1>2, <1>3, <2>1, HookNames
      <3>2. started' < 2 => UNCHANGED loop BY <2>1, <3>1
      <3> QED BY <1>1, <1>2, <2>1, <2>2, <3>2 DEF PoolInv
    <2>7. EndInv' BY <1>1, <1>2, <2>1 DEF EndInv, Ended
    <2> QED BY <2>3, <2>4, <2>5, <2>6, <2>7 DEF StopInv
  <1>5. CASE StartFails
    <2>1. /\ pool' = IF h = "pool" THEN "closed" ELSE pool
          /\ phase' = "rollback" /\ left' \in Nat
          /\ UNCHANGED <<started, stage, listener, loop, busy, due, timer, killed>>
      BY <1>3, <1>5, TimeoutsAssumption DEF StartFails
    <2>2. h = "pool" <=> started = 1 BY <1>2, <1>3, HookNames DEF Workers
    <2>3. LifeTypes' BY <1>1, <2>1 DEF LifeTypes
    <2>4. ASSUME NEW c \in Workers PROVE WorkerInv(c)'
      BY <1>1, <2>1 DEF WorkerInv
    <2>5. StageInv' BY <1>2, <2>1 DEF StageInv
    <2>6. PoolInv' BY <1>1, <1>2, <2>1, <2>2 DEF PoolInv
    <2>7. EndInv' BY <1>1, <1>2, <2>1 DEF EndInv, Ended
    <2> QED BY <2>3, <2>4, <2>5, <2>6, <2>7 DEF StopInv
  <1> QED BY <1>4, <1>5

\* Work is taken up only by what runs.
LEMMA BeginWorkKeeps ==
    ASSUME StopInv, NEW u \in Users, BeginWork(u)
    PROVE  StopInv'
  <1>1. LifeTypes /\ StageInv /\ PoolInv /\ EndInv /\ \A c \in Workers : WorkerInv(c)
    BY DEF StopInv
  <1>2. /\ busy' = busy \cup {u} /\ ~Ended
        /\ due' = IF u = "http" THEN due ELSE [due EXCEPT ![u] = Limit(u)]
        /\ UNCHANGED <<phase, started, stage, listener, loop, pool, timer, left, killed>>
        /\ u # "http" => u \in Workers
    BY DEF BeginWork, Users
  <1>3. started > 2
    <2>1. CASE u = "http" BY <1>1, <2>1 DEF BeginWork, PoolInv, LifeTypes
    <2>2. CASE u # "http"
      <3>1. u \in Workers /\ WorkerInv(u) /\ loop[u] \notin {"none", "ended"}
        BY <1>1, <1>2, <2>2 DEF BeginWork
      <3>2. Place(u) \in 3 .. 5 BY <3>1, Places
      <3> QED BY <1>1, <3>1, <3>2 DEF WorkerInv, LifeTypes
    <2> QED BY <2>1, <2>2
  <1>4. LifeTypes' BY <1>1, <1>2, Limits DEF LifeTypes
  <1>5. ASSUME NEW c \in Workers PROVE WorkerInv(c)'
    <2>1. WorkerInv(c) /\ c # "http" BY <1>1 DEF Workers
    <2>2. CASE c = u
      <3>1. loop[c] \notin {"none", "ended"} BY <2>1, <2>2 DEF BeginWork
      <3>2. due'[c] = Limit(c) /\ Limit(c) \in Nat BY <1>1, <1>2, <2>1, <2>2, Limits DEF LifeTypes
      <3> QED BY <1>2, <2>1, <3>1, <3>2 DEF WorkerInv
    <2>3. CASE c # u
      <3>1. due'[c] = due[c] /\ (c \in busy' <=> c \in busy)
        BY <1>1, <1>2, <2>3 DEF LifeTypes
      <3> QED BY <1>2, <2>1, <3>1 DEF WorkerInv
    <2> QED BY <2>2, <2>3
  <1>6. StageInv' /\ PoolInv' /\ EndInv'
    BY <1>1, <1>2, <1>3 DEF StageInv, PoolInv, EndInv, Ended, LifeTypes
  <1> QED BY <1>4, <1>5, <1>6 DEF StopInv

\* Work ends.
LEMMA EndWorkKeeps ==
    ASSUME StopInv, NEW u \in Users, EndWork(u)
    PROVE  StopInv'
  <1>1. LifeTypes /\ StageInv /\ PoolInv /\ EndInv /\ \A c \in Workers : WorkerInv(c)
    BY DEF StopInv
  <1>2. /\ busy' = busy \ {u} /\ ~Ended
        /\ due' = IF u = "http" THEN due ELSE [due EXCEPT ![u] = 0]
        /\ UNCHANGED <<phase, started, stage, listener, loop, pool, timer, left, killed>>
    BY DEF EndWork
  <1>3. LifeTypes' BY <1>1, <1>2 DEF LifeTypes
  <1>4. ASSUME NEW c \in Workers PROVE WorkerInv(c)'
    <2>1. c \in busy' => c \in busy /\ due'[c] = due[c] BY <1>1, <1>2 DEF LifeTypes
    <2>2. WorkerInv(c) BY <1>1
    <2> QED BY <1>2, <2>1, <2>2 DEF WorkerInv
  <1>5. StageInv' /\ PoolInv' /\ EndInv'
    BY <1>1, <1>2 DEF StageInv, PoolInv, EndInv, Ended
  <1> QED BY <1>3, <1>4, <1>5 DEF StopInv

\* A cancelled loop returns without work of its own.
LEMMA LoopEndsKeeps ==
    ASSUME StopInv, NEW w \in Workers, LoopEnds(w)
    PROVE  StopInv'
  <1>1. LifeTypes /\ StageInv /\ PoolInv /\ EndInv /\ \A c \in Workers : WorkerInv(c)
    BY DEF StopInv
  <1>2. /\ loop' = [loop EXCEPT ![w] = "ended"] /\ loop[w] = "cancelled"
        /\ w = "consumer" \/ w \notin busy
        /\ UNCHANGED <<phase, started, stage, listener, busy, pool, due, timer, left, killed>>
    BY DEF LoopEnds, LoopCanEnd, clocks
  <1>3. LifeTypes' BY <1>1, <1>2 DEF LifeTypes
  <1>4. /\ loop'[w] = "ended" /\ \A c \in Workers : c # w => loop'[c] = loop[c]
    BY <1>1, <1>2 DEF LifeTypes
  <1>5. ASSUME NEW c \in Workers PROVE WorkerInv(c)'
    BY <1>1, <1>2, <1>4 DEF WorkerInv
  <1>6. StageInv' BY <1>1, <1>2, <1>4 DEF StageInv, Workers
  <1>7. PoolInv' BY <1>1, <1>2, <1>4 DEF PoolInv
  <1>8. EndInv' BY <1>1, <1>2 DEF EndInv, Ended
  <1> QED BY <1>3, <1>5, <1>6, <1>7, <1>8 DEF StopInv

\* A server that fails, and a signal, take nothing from the workers.
LEMMA OutsideKeeps ==
    ASSUME StopInv, ServeFails \/ Signal
    PROVE  StopInv'
  <1>1. LifeTypes /\ StageInv /\ PoolInv /\ EndInv /\ \A c \in Workers : WorkerInv(c)
    BY DEF StopInv
  <1>2. /\ UNCHANGED <<started, stage, loop, busy, pool, due, timer, killed>>
        /\ \/ UNCHANGED <<phase, left>> /\ listener' = "closed"
           \/ phase = "running" /\ phase' = "stopping" /\ UNCHANGED listener
              /\ left' = StopTimeout
    BY DEF ServeFails, Signal, clocks
  <1>3. StopTimeout \in Nat BY TimeoutsAssumption DEF StopTimeout
  <1>4. LifeTypes' BY <1>1, <1>2, <1>3 DEF LifeTypes
  <1>5. ASSUME NEW c \in Workers PROVE WorkerInv(c)' BY <1>1, <1>2 DEF WorkerInv
  <1>6. StageInv' /\ PoolInv' BY <1>1, <1>2 DEF StageInv, PoolInv
  <1>7. EndInv' BY <1>1, <1>2 DEF EndInv, Ended
  <1> QED BY <1>4, <1>5, <1>6, <1>7 DEF StopInv

\* A hook begins to stop.
LEMMA BeginStopKeeps ==
    ASSUME StopInv, BeginStop
    PROVE  StopInv'
  <1>1. LifeTypes /\ StageInv /\ PoolInv /\ EndInv /\ \A c \in Workers : WorkerInv(c)
    BY DEF StopInv
  <1>2. Stopping /\ stage = "none" /\ started \in 1 .. 6 BY <1>1 DEF BeginStop, LifeTypes
  <1>3. PICK h : h = Hooks[started] OBVIOUS
  <1>4. /\ IF h = "oidc" THEN started' = started - 1 /\ UNCHANGED stage
           ELSE stage' = (IF h = "consumer" THEN "loop" ELSE h) /\ UNCHANGED started
        /\ listener' = IF h = "http" THEN "closed" ELSE listener
        /\ timer' = IF h = "http" THEN ShutdownTimeout ELSE timer
        /\ loop' = IF h \in Workers THEN [loop EXCEPT ![h] = "cancelled"] ELSE loop
        /\ pool' = IF h = "pool" THEN "closing" ELSE pool
        /\ UNCHANGED <<phase, busy, due, left, killed>>
    BY <1>3 DEF BeginStop
  <1>5. /\ h = "oidc" <=> started = 1
        /\ h = "pool" <=> started = 2
        /\ h = "consumer" <=> started = 3
        /\ h = "outbox" <=> started = 4
        /\ h = "reference" <=> started = 5
        /\ h = "http" <=> started = 6
        /\ h \in Workers <=> started \in 3 .. 5
        /\ h \in {"oidc", "pool", "consumer", "outbox", "reference", "http"}
    <2>1. \/ started = 1 \/ started = 2 \/ started = 3 \/ started = 4 \/ started = 5
          \/ started = 6
      BY <1>2
    <2> QED BY <1>3, <2>1, HookNames DEF Workers
  <1>6. LifeTypes'
    <2>1. stage' \in StagesOf(started') /\ started' \in 0 .. 6
      BY <1>2, <1>4, <1>5 DEF StagesOf
    <2>2. timer' \in Nat BY <1>1, <1>4, TimeoutsAssumption DEF LifeTypes
    <2> QED BY <1>1, <1>4, <2>1, <2>2 DEF LifeTypes
  <1>7. ASSUME NEW c \in Workers PROVE WorkerInv(c)'
    <2>1. WorkerInv(c) /\ Place(c) \in 3 .. 5 BY <1>1, Places
    <2>2. CASE c = h
      <3>1. Place(c) = started BY <1>2, <1>3, <2>2, HookNames
      <3>2. loop'[c] = "cancelled" /\ started' = started
        BY <1>1, <1>4, <1>5, <2>2 DEF LifeTypes, Workers
      <3> QED BY <1>2, <1>4, <2>1, <3>1, <3>2 DEF WorkerInv
    <2>3. CASE c # h
      <3>1. loop'[c] = loop[c] BY <1>1, <1>4, <2>3 DEF LifeTypes
      <3>2. Place(c) > started' => Place(c) > started BY <1>2, <1>4, <1>5, <2>1
      <3> QED BY <1>4, <2>1, <3>1, <3>2 DEF WorkerInv
    <2> QED BY <2>2, <2>3
  <1>8. StageInv'
    <2>1. h \in Workers => loop'[h] = "cancelled" BY <1>1, <1>4 DEF LifeTypes
    <2> QED BY <1>2, <1>4, <1>5, <2>1 DEF StageInv, Stopping, Workers
  <1>9. PoolInv'
    <2>1. started < 3 => UNCHANGED loop BY <1>4, <1>5
    <2> QED BY <1>1, <1>2, <1>4, <1>5, <2>1 DEF PoolInv, Stopping
  <1>10. EndInv' BY <1>1, <1>2, <1>4 DEF EndInv, Ended, Stopping
  <1> QED BY <1>6, <1>7, <1>8, <1>9, <1>10 DEF StopInv

\* A hook has waited for the work of its component: nothing of it is left.
LEMMA EndWaitKeeps ==
    ASSUME StopInv, EndWait
    PROVE  StopInv'
  <1>1. LifeTypes /\ StageInv /\ PoolInv /\ EndInv /\ \A c \in Workers : WorkerInv(c)
    BY DEF StopInv
  <1>2. /\ phase \in {"rollback", "stopping"} /\ stage # "none"
        /\ pool' = IF stage = "pool" THEN "closed" ELSE pool
        /\ UNCHANGED <<phase, listener, loop, busy, due, left, killed>>
    BY DEF EndWait, Stopping
  <1>3. WaitIsOver(stage) BY DEF EndWait
  <1>4. CASE /\ started' = started /\ stage = "loop" /\ stage' = "drain"
             /\ timer' = SQSShutdown
    <2>1. loop["consumer"] = "ended" BY <1>3, <1>4 DEF WaitIsOver
    <2>2. started = 3 BY <1>1, <1>4, StageTells
    <2>3. LifeTypes' BY <1>1, <1>2, <1>4, <2>2, TimeoutsAssumption DEF LifeTypes, StagesOf
    <2>4. ASSUME NEW c \in Workers PROVE WorkerInv(c)' BY <1>1, <1>2, <1>4 DEF WorkerInv
    <2>5. StageInv' BY <1>2, <1>4, <2>1 DEF StageInv
    <2>6. PoolInv' /\ EndInv' BY <1>1, <1>2, <1>4 DEF PoolInv, EndInv, Ended
    <2> QED BY <2>3, <2>4, <2>5, <2>6 DEF StopInv
  <1>5. CASE /\ started' = started /\ stage = "drain" /\ stage' = "work"
             /\ UNCHANGED timer
    <2>1. started = 3 BY <1>1, <1>5, StageTells
    <2>2. LifeTypes' BY <1>1, <1>2, <1>5, <2>1 DEF LifeTypes, StagesOf
    <2>3. ASSUME NEW c \in Workers PROVE WorkerInv(c)' BY <1>1, <1>2, <1>5 DEF WorkerInv
    <2>4. StageInv' BY <1>1, <1>2, <1>5 DEF StageInv
    <2>5. PoolInv' /\ EndInv' BY <1>1, <1>2, <1>5 DEF PoolInv, EndInv, Ended
    <2> QED BY <2>2, <2>3, <2>4, <2>5 DEF StopInv
  <1>6. CASE /\ stage # "loop" /\ ~(stage = "drain" /\ "consumer" \in busy)
             /\ stage' = "none" /\ started' = started - 1 /\ UNCHANGED timer
    <2>1. /\ started \in 2 .. 6 /\ started' \in 1 .. 5
          /\ stage = "pool" <=> started = 2
      BY <1>1, <1>2, <1>6, StageTells DEF LifeTypes, StagesOf
    <2>2. LifeTypes' BY <1>1, <1>2, <1>6, <2>1 DEF LifeTypes, StagesOf
    <2>3. ASSUME NEW c \in Workers PROVE WorkerInv(c)'
      <3>1. WorkerInv(c) /\ Place(c) \in 3 .. 5 BY <1>1, Places
      <3>2. CASE Place(c) = started
        <4>1. \/ c = "consumer" /\ stage \in {"drain", "work"}
              \/ c = "outbox" /\ stage = "outbox"
              \/ c = "reference" /\ stage = "reference"
          BY <1>1, <1>2, <1>6, <3>2, StageTells, Places DEF Workers
        <4>2. loop[c] = "ended" /\ c \notin busy
          BY <1>1, <1>3, <1>6, <3>1, <4>1 DEF WaitIsOver, StageInv, WorkerInv
        <4> QED BY <1>2, <4>2 DEF WorkerInv
      <3>3. CASE Place(c) # started
        <4>1. Place(c) > started' => Place(c) > started BY <1>6, <2>1, <3>1, <3>3
        <4> QED BY <1>2, <3>1, <4>1 DEF WorkerInv
      <3> QED BY <3>2, <3>3
    <2>4. StageInv' BY <1>6 DEF StageInv
    <2>5. PoolInv'
      <3>1. CASE stage = "pool"
        <4>1. busy = {} BY <1>3, <3>1 DEF WaitIsOver
        <4> QED BY <1>1, <1>2, <1>6, <2>1, <3>1, <4>1 DEF PoolInv
      <3>2. CASE stage # "pool"
        <4>1. started' >= 2 /\ started > 2 BY <1>6, <2>1, <3>2
        <4>2. started = 6 => listener # "open" 
          <5>1. started = 6 => stage = "http" BY <1>1, <1>2, StageTells
          <5> QED BY <1>1, <5>1 DEF StageInv
        <4>3. pool = "open" BY <1>1, <4>1 DEF PoolInv, LifeTypes
        <4> QED BY <1>1, <1>2, <2>1, <3>2, <4>1, <4>2, <4>3 DEF PoolInv
      <3> QED BY <3>1, <3>2
    <2>6. EndInv' BY <1>1, <1>2 DEF EndInv, Ended
    <2> QED BY <2>2, <2>3, <2>4, <2>5, <2>6 DEF StopInv
  <1> QED BY <1>4, <1>5, <1>6 DEF EndWait

\* The end: with its time over, or with nothing left to stop.
LEMMA EndKeeps ==
    ASSUME StopInv, BudgetOver \/ Exit
    PROVE  StopInv'
  <1>1. LifeTypes /\ StageInv /\ PoolInv /\ EndInv /\ \A c \in Workers : WorkerInv(c)
    BY DEF StopInv
  <1>2. /\ phase' \in {"exited", "aborted"} /\ (left = 0 \/ started = 0)
        /\ phase \in {"stopping", "rollback"} /\ (busy' = busy \/ busy' = {})
        /\ UNCHANGED <<started, stage, listener, loop, pool, due, timer, left>>
    BY DEF BudgetOver, Exit, clocks, Stopping
  <1>3. LifeTypes' BY <1>1, <1>2 DEF LifeTypes
  <1>4. ASSUME NEW c \in Workers PROVE WorkerInv(c)' BY <1>1, <1>2 DEF WorkerInv
  <1>5. StageInv' /\ PoolInv' BY <1>1, <1>2 DEF StageInv, PoolInv
  <1>6. EndInv' BY <1>2 DEF EndInv, Ended
  <1> QED BY <1>3, <1>4, <1>5, <1>6 DEF StopInv

\* Time passes only before the end.
LEMMA TickKeeps ==
    ASSUME StopInv, Tick
    PROVE  StopInv'
  <1>1. LifeTypes /\ StageInv /\ PoolInv /\ EndInv /\ \A c \in Workers : WorkerInv(c)
    BY DEF StopInv
  <1>2. /\ left > 0 /\ left' = left - 1 /\ timer' = Less(timer)
        /\ due' = [c \in Workers |-> Less(due[c])] /\ phase \in {"stopping", "rollback"}
        /\ UNCHANGED <<phase, started, stage, listener, loop, busy, pool, killed>>
    BY DEF Tick, Stopping
  <1>3. \A n \in Nat : Less(n) \in Nat /\ Less(n) <= n BY DEF Less
  <1>4. \A c \in Workers : due[c] \in Nat /\ due'[c] \in Nat /\ due'[c] <= due[c]
    BY <1>1, <1>2, <1>3 DEF LifeTypes
  <1>5. LifeTypes' BY <1>1, <1>2, <1>3 DEF LifeTypes
  <1>6. ASSUME NEW c \in Workers PROVE WorkerInv(c)'
    <2>1. WorkerInv(c) /\ Limit(c) \in Nat BY <1>1, Limits
    <2> QED BY <1>2, <1>4, <2>1 DEF WorkerInv
  <1>7. StageInv' /\ PoolInv' /\ EndInv'
    BY <1>1, <1>2 DEF StageInv, PoolInv, EndInv, Ended
  <1> QED BY <1>5, <1>6, <1>7 DEF StopInv

-----------------------------------------------------------------------------
(* THEOREMS                                                                 *)

\* The invariant of the process, and every step keeps it.
LEMMA StepKeeps ==
    ASSUME StopInv, [Next]_vars
    PROVE  StopInv'
  <1>1. CASE UNCHANGED vars \/ Rest
    <2>1. UNCHANGED <<phase, started, stage, listener, loop, busy, pool, due, timer, left,
                      killed>>
      BY <1>1 DEF vars, Rest
    <2>2. \A c \in Workers : WorkerInv(c)' BY <2>1 DEF StopInv, WorkerInv
    <2>3. LifeTypes' /\ StageInv' /\ PoolInv' /\ EndInv'
      BY <2>1 DEF StopInv, LifeTypes, StageInv, PoolInv, EndInv, Ended
    <2> QED BY <2>2, <2>3 DEF StopInv
  <1>2. CASE StartHook \/ StartFails BY <1>2, StartKeeps
  <1>3. ASSUME NEW c \in Users, BeginWork(c) PROVE StopInv' BY <1>3, BeginWorkKeeps
  <1>4. ASSUME NEW c \in Users, EndWork(c) PROVE StopInv' BY <1>4, EndWorkKeeps
  <1>5. ASSUME NEW c \in Workers, LoopEnds(c) PROVE StopInv' BY <1>5, LoopEndsKeeps
  <1>6. CASE ServeFails \/ Signal BY <1>6, OutsideKeeps
  <1>7. CASE BeginStop BY <1>7, BeginStopKeeps
  <1>8. CASE EndWait BY <1>8, EndWaitKeeps
  <1>9. CASE BudgetOver \/ Exit BY <1>9, EndKeeps
  <1>10. CASE Tick BY <1>10, TickKeeps
  <1> QED BY <1>1, <1>2, <1>3, <1>4, <1>5, <1>6, <1>7, <1>8, <1>9, <1>10 DEF Next

\* A process starts with nothing to take away.
LEMMA InitStop == Init => StopInv
  <1> SUFFICES ASSUME Init PROVE StopInv OBVIOUS
  <1>1. LifeTypes BY TimeoutsAssumption DEF Init, LifeTypes, StagesOf
  <1>2. \A c \in Workers : WorkerInv(c) BY DEF Init, WorkerInv
  <1>3. StageInv /\ PoolInv /\ EndInv BY DEF Init, StageInv, PoolInv, EndInv, Ended
  <1> QED BY <1>1, <1>2, <1>3 DEF StopInv

\* The inductive invariant: what has been stopped is idle, and hooks stop in order.
THEOREM Stops == Spec => []StopInv
  BY InitStop, StepKeeps, PTL DEF Spec

\* The pool is taken away only when no worker has a goroutine or work left.
THEOREM PoolIsLast == Spec => []PoolOutlivesWorkers
  <1>1. StopInv => PoolOutlivesWorkers
    <2>1. SUFFICES ASSUME StopInv, pool # "open", NEW c \in Workers
                   PROVE  c \notin busy /\ loop[c] \in {"none", "ended"}
      BY DEF PoolOutlivesWorkers
    <2>2. started <= 2 /\ started \in Nat BY <2>1 DEF StopInv, PoolInv, LifeTypes
    <2>3. WorkerInv(c) /\ Place(c) \in 3 .. 5 BY <2>1, Places DEF StopInv
    <2> QED BY <2>2, <2>3 DEF WorkerInv
  <1> QED BY <1>1, Stops, PTL

\* A process that ends on its own account has undone every start.
THEOREM StartsAreUndone == Spec => []EveryStartIsUndone
  <1>1. StopInv => EveryStartIsUndone
    <2>1. SUFFICES ASSUME StopInv, Ended, left > 0 \/ started = 0
                   PROVE  /\ \A c \in Workers : loop[c] \in {"none", "ended"}
                          /\ pool = "closed" \/ \A c \in Workers : loop[c] = "none"
                          /\ listener # "open"
                          /\ busy = {}
      BY DEF EveryStartIsUndone
    <2>2. started = 0 BY <2>1 DEF StopInv, EndInv, LifeTypes
    <2>3. ASSUME NEW c \in Workers PROVE loop[c] \in {"none", "ended"}
      BY <2>1, <2>2, Places DEF StopInv, WorkerInv
    <2> QED BY <2>1, <2>2, <2>3 DEF StopInv, PoolInv
  <1> QED BY <1>1, Stops, PTL

-----------------------------------------------------------------------------
(* THE BUDGET                                                               *)

\* What is needed is a length of time.
LEMMA NeedsAreNat ==
    ASSUME LifeTypes
    PROVE  /\ ConsumerNeeds \in Nat /\ OutboxNeeds \in Nat
           /\ ReferenceNeeds \in Nat /\ ServerNeeds \in Nat
  <1>1. due["consumer"] \in Nat /\ due["outbox"] \in Nat /\ due["reference"] \in Nat
        /\ timer \in Nat
    BY DEF LifeTypes, Workers
  <1>2. Limit("outbox") \in Nat /\ Limit("reference") \in Nat /\ ShutdownTimeout \in Nat
    BY TimeoutsAssumption, Limits
  <1>3. ConsumerNeeds \in Nat BY <1>1, Limits DEF ConsumerNeeds, Workers
  <1>4. OutboxNeeds \in Nat BY <1>1, <1>2 DEF OutboxNeeds
  <1>5. ReferenceNeeds \in Nat BY <1>1, <1>2 DEF ReferenceNeeds
  <1>6. ServerNeeds \in Nat BY <1>1, <1>2 DEF ServerNeeds
  <1> QED BY <1>3, <1>4, <1>5, <1>6

\* A step that leaves the time and adds no need.
LEMMA NeedsNoMore ==
    ASSUME StopInv, StopInv', TimeInv, left' = left, phase' = "stopping" => phase = "stopping",
           started' <= started,
           phase = "stopping" /\ started' > 2 =>
              /\ ConsumerNeeds' <= ConsumerNeeds /\ OutboxNeeds' <= OutboxNeeds
              /\ ReferenceNeeds' <= ReferenceNeeds /\ ServerNeeds' <= ServerNeeds
    PROVE  TimeInv'
  <1>1. SUFFICES ASSUME phase' = "stopping", started' > 2
                 PROVE  left' > ConsumerNeeds' + OutboxNeeds' + ReferenceNeeds' + ServerNeeds'
    BY DEF TimeInv
  <1>2. started \in Nat /\ started' \in Nat /\ started > 2
    BY <1>1 DEF StopInv, LifeTypes
  <1>3. left > ConsumerNeeds + OutboxNeeds + ReferenceNeeds + ServerNeeds
    BY <1>1, <1>2 DEF TimeInv
  <1>4. /\ ConsumerNeeds \in Nat /\ OutboxNeeds \in Nat
        /\ ReferenceNeeds \in Nat /\ ServerNeeds \in Nat /\ left \in Nat
    BY NeedsAreNat DEF StopInv, LifeTypes
  <1>5. /\ ConsumerNeeds' \in Nat /\ OutboxNeeds' \in Nat
        /\ ReferenceNeeds' \in Nat /\ ServerNeeds' \in Nat
    <2>1. /\ due'["consumer"] \in Nat /\ due'["outbox"] \in Nat
          /\ due'["reference"] \in Nat /\ timer' \in Nat
      BY DEF StopInv, LifeTypes, Workers
    <2>2. Limit("outbox") \in Nat /\ Limit("reference") \in Nat /\ ShutdownTimeout \in Nat
      BY TimeoutsAssumption, Limits
    <2>3. ConsumerNeeds' \in Nat BY <2>1, Limits DEF ConsumerNeeds, Workers
    <2>4. OutboxNeeds' \in Nat BY <2>1, <2>2 DEF OutboxNeeds
    <2>5. ReferenceNeeds' \in Nat BY <2>1, <2>2 DEF ReferenceNeeds
    <2>6. ServerNeeds' \in Nat BY <2>1, <2>2 DEF ServerNeeds
    <2> QED BY <2>3, <2>4, <2>5, <2>6
  <1>6. /\ ConsumerNeeds' <= ConsumerNeeds /\ OutboxNeeds' <= OutboxNeeds
        /\ ReferenceNeeds' <= ReferenceNeeds /\ ServerNeeds' <= ServerNeeds
    BY <1>1
  <1>7. ASSUME NEW n \in Nat, NEW a \in Nat, NEW b \in Nat, NEW c \in Nat, NEW d \in Nat,
               NEW v \in Nat, NEW w \in Nat, NEW x \in Nat, NEW y \in Nat,
               n > a + b + c + d, v <= a, w <= b, x <= c, y <= d
        PROVE  n > v + w + x + y
    BY <1>7
  <1>8. left > ConsumerNeeds' + OutboxNeeds' + ReferenceNeeds' + ServerNeeds'
    BY <1>3, <1>4, <1>5, <1>6, <1>7
  <1> QED BY <1>8

\* Work that begins or ends while the process stops: nobody begins after its hook has
\* waited.
LEMMA WorkNeedsNoMore ==
    ASSUME StopInv, StopInv', TimeInv, NEW u \in Users, BeginWork(u) \/ EndWork(u)
    PROVE  TimeInv'
  <1>1. /\ UNCHANGED <<phase, started, stage, timer, left>>
        /\ \/ EndWork(u) /\ busy' = busy \ {u}
              /\ due' = IF u = "http" THEN due ELSE [due EXCEPT ![u] = 0]
           \/ BeginWork(u) /\ busy' = busy \cup {u}
              /\ due' = IF u = "http" THEN due ELSE [due EXCEPT ![u] = Limit(u)]
    BY DEF BeginWork, EndWork
  <1>2. LifeTypes /\ LifeTypes' /\ StageInv BY DEF StopInv
  <1>3. /\ BeginWork(u) /\ u = "consumer" => stage \notin {"drain", "work"}
        /\ BeginWork(u) /\ u \in {"outbox", "reference"} => stage # u
    BY <1>2 DEF BeginWork, StageInv
  <1>4. ASSUME NEW c \in Workers
        PROVE  /\ due[c] \in Nat /\ due'[c] \in Nat
               /\ c # u => due'[c] = due[c] /\ (c \in busy' <=> c \in busy)
               /\ c = u /\ EndWork(u) /\ busy' = busy \ {u} => c \notin busy'
    BY <1>1, <1>2 DEF LifeTypes
  <1>5. /\ "consumer" \in Workers /\ "outbox" \in Workers /\ "reference" \in Workers
    BY DEF Workers
  <1>6. ConsumerNeeds' <= ConsumerNeeds
    <2>1. CASE stage \notin {"drain", "work"}
      BY <1>1, <2>1, <1>5, Limits DEF ConsumerNeeds
    <2>2. CASE stage \in {"drain", "work"}
      BY <1>1, <1>3, <1>4, <1>5, <2>2 DEF ConsumerNeeds
    <2> QED BY <2>1, <2>2
  <1>7. OutboxNeeds' <= OutboxNeeds
    <2>1. CASE ~(started = 4 /\ stage = "outbox")
      BY <1>1, <2>1, Limits DEF OutboxNeeds
    <2>2. CASE started = 4 /\ stage = "outbox"
      BY <1>1, <1>3, <1>4, <1>5, <2>2 DEF OutboxNeeds
    <2> QED BY <2>1, <2>2
  <1>8. ReferenceNeeds' <= ReferenceNeeds
    <2>1. CASE ~(started = 5 /\ stage = "reference")
      BY <1>1, <2>1, Limits DEF ReferenceNeeds
    <2>2. CASE started = 5 /\ stage = "reference"
      BY <1>1, <1>3, <1>4, <1>5, <2>2 DEF ReferenceNeeds
    <2> QED BY <2>1, <2>2
  <1>9. ServerNeeds' <= ServerNeeds
    BY <1>1, <1>2, TimeoutsAssumption DEF ServerNeeds, LifeTypes
  <1> QED BY <1>1, <1>2, <1>6, <1>7, <1>8, <1>9, NeedsNoMore DEF LifeTypes

\* A hook that begins to stop starts its own clock.
LEMMA StopNeedsNoMore ==
    ASSUME StopInv, StopInv', TimeInv, BeginStop
    PROVE  TimeInv'
  <1>1. LifeTypes /\ LifeTypes' /\ \A c \in Workers : WorkerInv(c) BY DEF StopInv
  <1>2. stage = "none" /\ started \in 1 .. 6 BY <1>1 DEF BeginStop, LifeTypes
  <1>3. PICK h : h = Hooks[started] OBVIOUS
  <1>4. /\ IF h = "oidc" THEN started' = started - 1 /\ UNCHANGED stage
           ELSE stage' = (IF h = "consumer" THEN "loop" ELSE h) /\ UNCHANGED started
        /\ timer' = IF h = "http" THEN ShutdownTimeout ELSE timer
        /\ UNCHANGED <<phase, busy, due, left>>
    BY <1>3 DEF BeginStop
  <1>5. ASSUME started > 2
        PROVE  /\ started' = started
               /\ started = 3 => stage' = "loop"
               /\ started = 4 => stage' = "outbox"
               /\ started = 5 => stage' = "reference"
               /\ started = 6 => stage' = "http" /\ timer' = ShutdownTimeout
    <2>1. started = 3 \/ started = 4 \/ started = 5 \/ started = 6 BY <1>2, <1>5
    <2> QED BY <1>3, <1>4, <2>1, HookNames
  <1>6. /\ "outbox" \in busy => due["outbox"] <= Limit("outbox")
        /\ "reference" \in busy => due["reference"] <= Limit("reference")
    BY <1>1, Limits DEF WorkerInv, Workers
  <1>7. Limit("outbox") \in Nat /\ Limit("reference") \in Nat /\ ShutdownTimeout \in Nat
    BY TimeoutsAssumption, Limits
  <1>8. ASSUME started' > 2
        PROVE  /\ ConsumerNeeds' <= ConsumerNeeds /\ OutboxNeeds' <= OutboxNeeds
               /\ ReferenceNeeds' <= ReferenceNeeds /\ ServerNeeds' <= ServerNeeds
    <2>1. started > 2 BY <1>2, <1>4, <1>8
    <2>2. started' = started /\ stage' \in {"loop", "outbox", "reference", "http"}
          /\ (started = 3 \/ started = 4 \/ started = 5 \/ started = 6)
      BY <1>2, <1>5, <2>1
    <2>3. ConsumerNeeds' <= ConsumerNeeds
      BY <1>2, <2>2, Limits DEF ConsumerNeeds, Workers
    <2>4. OutboxNeeds' <= OutboxNeeds
      BY <1>2, <1>4, <1>5, <1>6, <1>7, <2>1, <2>2 DEF OutboxNeeds
    <2>5. ReferenceNeeds' <= ReferenceNeeds
      BY <1>2, <1>4, <1>5, <1>6, <1>7, <2>1, <2>2 DEF ReferenceNeeds
    <2>6. ServerNeeds' <= ServerNeeds
      BY <1>2, <1>4, <1>5, <1>7, <2>1, <2>2 DEF ServerNeeds
    <2> QED BY <2>3, <2>4, <2>5, <2>6
  <1>9. started' <= started BY <1>2, <1>4
  <1> QED BY <1>4, <1>8, <1>9, NeedsNoMore

\* A wait that ends leaves its need behind.
LEMMA WaitNeedsNoMore ==
    ASSUME StopInv, StopInv', TimeInv, EndWait
    PROVE  TimeInv'
  <1>1. LifeTypes /\ LifeTypes' /\ \A c \in Workers : WorkerInv(c) BY DEF StopInv
  <1>2. UNCHANGED <<phase, busy, due, left>> /\ stage # "none" BY DEF EndWait
  <1>3. /\ "consumer" \in busy => due["consumer"] <= Limit("consumer")
        /\ Limit("consumer") \in Nat /\ due["consumer"] \in Nat /\ due["outbox"] \in Nat
        /\ due["reference"] \in Nat /\ timer \in Nat
    BY <1>1, Limits DEF WorkerInv, Workers, LifeTypes
  <1>4. Limit("outbox") \in Nat /\ Limit("reference") \in Nat /\ ShutdownTimeout \in Nat
    BY TimeoutsAssumption, Limits
  <1>5. CASE /\ started' = started /\ stage \in {"loop", "drain"}
             /\ stage' = IF stage = "loop" THEN "drain" ELSE "work"
    <2>1. started = 3 BY <1>1, <1>5, StageTells
    <2>2. ConsumerNeeds' <= ConsumerNeeds BY <1>2, <1>3, <1>5 DEF ConsumerNeeds
    <2>3. OutboxNeeds' <= OutboxNeeds BY <1>5, <2>1 DEF OutboxNeeds
    <2>4. ReferenceNeeds' <= ReferenceNeeds BY <1>5, <2>1 DEF ReferenceNeeds
    <2>5. ServerNeeds' <= ServerNeeds BY <1>5, <2>1 DEF ServerNeeds
    <2> QED BY <1>2, <1>5, <2>1, <2>2, <2>3, <2>4, <2>5, NeedsNoMore
  <1>6. CASE stage' = "none" /\ started' = started - 1
    <2>1. started \in 2 .. 6 BY <1>1, <1>2, StageTells DEF LifeTypes, StagesOf
    <2>2. ASSUME started' > 2
          PROVE  /\ ConsumerNeeds' <= ConsumerNeeds /\ OutboxNeeds' <= OutboxNeeds
                 /\ ReferenceNeeds' <= ReferenceNeeds /\ ServerNeeds' <= ServerNeeds
      <3>1. started = 4 \/ started = 5 \/ started = 6 BY <1>6, <2>1, <2>2
      <3>2. stage \notin {"drain", "work"} BY <1>1, <3>1, StageTells
      <3>3. ConsumerNeeds' <= ConsumerNeeds BY <1>3, <1>6, <3>2, Limits DEF ConsumerNeeds, Workers
      <3>4. OutboxNeeds' <= OutboxNeeds
        BY <1>2, <1>3, <1>4, <1>6, <3>1 DEF OutboxNeeds
      <3>5. ReferenceNeeds' <= ReferenceNeeds
        BY <1>2, <1>3, <1>4, <1>6, <3>1 DEF ReferenceNeeds
      <3>6. ServerNeeds' <= ServerNeeds
        BY <1>2, <1>3, <1>4, <1>6, <3>1 DEF ServerNeeds
      <3> QED BY <3>3, <3>4, <3>5, <3>6
    <2>3. started' <= started BY <1>6, <2>1
    <2> QED BY <1>2, <2>2, <2>3, NeedsNoMore
  <1> QED BY <1>5, <1>6 DEF EndWait

\* A tick is spent on the wait of the hook that stops, whose need it shortens.
LEMMA TickShortens ==
    ASSUME StopInv, StopInv', TimeInv, Tick
    PROVE  TimeInv'
  <1>1. LifeTypes /\ LifeTypes' /\ StageInv BY DEF StopInv
  <1>2. /\ left > 0 /\ left' = left - 1 /\ timer' = Less(timer) /\ stage # "none"
        /\ due' = [c \in Workers |-> Less(due[c])]
        /\ UNCHANGED <<phase, started, stage, loop, busy>>
        /\ ~WaitIsOver(stage)
        /\ \A c \in Workers : ~LoopCanEnd(c)
        /\ \A c \in busy \ {"http"} : due[c] > 0
    BY DEF Tick
  <1>3. SUFFICES ASSUME phase = "stopping", started > 2
                 PROVE  left' > ConsumerNeeds' + OutboxNeeds' + ReferenceNeeds' + ServerNeeds'
    BY <1>2 DEF TimeInv
  <1>4. /\ left > ConsumerNeeds + OutboxNeeds + ReferenceNeeds + ServerNeeds
        /\ ConsumerNeeds \in Nat /\ OutboxNeeds \in Nat
        /\ ReferenceNeeds \in Nat /\ ServerNeeds \in Nat /\ left \in Nat
    BY <1>1, <1>3, NeedsAreNat DEF TimeInv, LifeTypes
  <1>5. /\ due["consumer"] \in Nat /\ due'["consumer"] = Less(due["consumer"])
        /\ due["outbox"] \in Nat /\ due'["outbox"] = Less(due["outbox"])
        /\ due["reference"] \in Nat /\ due'["reference"] = Less(due["reference"])
        /\ timer \in Nat
    BY <1>1, <1>2 DEF LifeTypes, Workers
  <1>6. \A n \in Nat : Less(n) \in Nat /\ Less(n) <= n /\ (n > 0 => Less(n) = n - 1)
    BY DEF Less
  <1>7. \/ stage = "http" /\ started = 6
        \/ stage = "reference" /\ started = 5
        \/ stage = "outbox" /\ started = 4
        \/ stage \in {"loop", "drain", "work"} /\ started = 3
    BY <1>1, <1>2, <1>3, StageTells
  <1>8. Limit("outbox") \in Nat /\ Limit("reference") \in Nat /\ Limit("consumer") \in Nat
    BY TimeoutsAssumption, Limits DEF Workers
  <1>9. CASE stage = "http" /\ started = 6
    <2>1. timer > 0 BY <1>2, <1>5, <1>9 DEF WaitIsOver
    <2>2. ServerNeeds = timer /\ ServerNeeds' = timer - 1
      BY <1>2, <1>5, <1>6, <1>9, <2>1 DEF ServerNeeds
    <2>3. ConsumerNeeds' = ConsumerNeeds BY <1>2, <1>9, <1>8, Limits DEF ConsumerNeeds
    <2>4. OutboxNeeds' = OutboxNeeds BY <1>2, <1>9 DEF OutboxNeeds
    <2>5. ReferenceNeeds' = ReferenceNeeds BY <1>2, <1>9 DEF ReferenceNeeds
    <2> QED BY <1>2, <1>4, <1>5, <2>1, <2>2, <2>3, <2>4, <2>5
  <1>10. CASE stage = "reference" /\ started = 5
    <2>1. loop["reference"] = "cancelled" BY <1>1, <1>2, <1>10 DEF WaitIsOver, StageInv
    <2>2. "reference" \in busy BY <1>2, <2>1 DEF LoopCanEnd, Workers
    <2>3. due["reference"] > 0 BY <1>2, <2>2
    <2>4. ReferenceNeeds = due["reference"] /\ ReferenceNeeds' = due["reference"] - 1
      BY <1>2, <1>5, <1>6, <1>10, <2>2, <2>3 DEF ReferenceNeeds
    <2>5. ConsumerNeeds' = ConsumerNeeds BY <1>2, <1>10, <1>8, Limits DEF ConsumerNeeds
    <2>6. OutboxNeeds' = OutboxNeeds BY <1>2, <1>10 DEF OutboxNeeds
    <2>7. ServerNeeds' = ServerNeeds BY <1>2, <1>10 DEF ServerNeeds
    <2> QED BY <1>2, <1>4, <1>5, <2>3, <2>4, <2>5, <2>6, <2>7
  <1>11. CASE stage = "outbox" /\ started = 4
    <2>1. loop["outbox"] = "cancelled" BY <1>1, <1>2, <1>11 DEF WaitIsOver, StageInv
    <2>2. "outbox" \in busy BY <1>2, <2>1 DEF LoopCanEnd, Workers
    <2>3. due["outbox"] > 0 BY <1>2, <2>2
    <2>4. OutboxNeeds = due["outbox"] /\ OutboxNeeds' = due["outbox"] - 1
      BY <1>2, <1>5, <1>6, <1>11, <2>2, <2>3 DEF OutboxNeeds
    <2>5. ConsumerNeeds' = ConsumerNeeds BY <1>2, <1>11, <1>8, Limits DEF ConsumerNeeds
    <2>6. ReferenceNeeds' = ReferenceNeeds BY <1>2, <1>11 DEF ReferenceNeeds
    <2>7. ServerNeeds' = ServerNeeds BY <1>2, <1>11 DEF ServerNeeds
    <2> QED BY <1>2, <1>4, <1>5, <2>3, <2>4, <2>5, <2>6, <2>7
  <1>12. CASE stage \in {"loop", "drain", "work"} /\ started = 3
    <2>1. stage # "loop"
      <3>1. SUFFICES ASSUME stage = "loop" PROVE FALSE OBVIOUS
      <3>2. loop["consumer"] = "cancelled" BY <1>1, <1>2, <3>1 DEF WaitIsOver, StageInv
      <3> QED BY <1>2, <3>2 DEF LoopCanEnd, Workers
    <2>2. "consumer" \in busy BY <1>2, <1>12, <2>1 DEF WaitIsOver
    <2>3. due["consumer"] > 0 BY <1>2, <2>2
    <2>4. ConsumerNeeds = due["consumer"] /\ ConsumerNeeds' = due["consumer"] - 1
      BY <1>2, <1>5, <1>6, <1>12, <2>1, <2>2, <2>3 DEF ConsumerNeeds
    <2>5. OutboxNeeds' = OutboxNeeds BY <1>2, <1>12 DEF OutboxNeeds
    <2>6. ReferenceNeeds' = ReferenceNeeds BY <1>2, <1>12 DEF ReferenceNeeds
    <2>7. ServerNeeds' = ServerNeeds BY <1>2, <1>12 DEF ServerNeeds
    <2> QED BY <1>2, <1>4, <1>5, <2>3, <2>4, <2>5, <2>6, <2>7
  <1> QED BY <1>7, <1>9, <1>10, <1>11, <1>12

\* A signal gives the process what StopTimeout reserves.
LEMMA SignalGives ==
    ASSUME DetachedFits, StopInv, Signal
    PROVE  TimeInv'
  <1>1. started = 6 /\ stage = "none" BY DEF StopInv, EndInv, StageInv, Signal
  <1>2. /\ SQSShutdown \in Nat /\ Slack \in Nat /\ SQSProcessing \in Nat
        /\ OutboxProcess \in Nat /\ ReferenceProcess \in Nat /\ ShutdownTimeout \in Nat
        /\ Detached("consumer") \in Nat /\ Detached("outbox") \in Nat
        /\ Detached("reference") \in Nat
    BY TimeoutsAssumption, Limits DEF Workers
  <1>3. left' = StopTimeout /\ started' = 6 /\ stage' = "none" BY <1>1 DEF Signal
  <1>4. ConsumerNeeds' = SQSProcessing + Detached("consumer") BY <1>3, Limits DEF ConsumerNeeds
  <1>5. OutboxNeeds' = OutboxProcess + Detached("outbox") BY <1>3, Limits DEF OutboxNeeds
  <1>6. ReferenceNeeds' = ReferenceProcess + Detached("reference")
    BY <1>3, Limits DEF ReferenceNeeds
  <1>7. ServerNeeds' = ShutdownTimeout BY <1>3 DEF ServerNeeds
  <1>8. left' > ConsumerNeeds' + OutboxNeeds' + ReferenceNeeds' + ServerNeeds'
    BY <1>2, <1>3, <1>4, <1>5, <1>6, <1>7 DEF StopTimeout, DetachedFits
  <1> QED BY <1>8 DEF TimeInv

\* Every step leaves the time that the workers may need.
LEMMA StepLeavesTime ==
    ASSUME DetachedFits, StopInv, TimeInv, [Next]_vars
    PROVE  TimeInv'
  <1>0. StopInv' BY StepKeeps
  <1>1. CASE UNCHANGED <<phase, started, stage, busy, due, timer, left>>
    BY <1>1 DEF TimeInv, ConsumerNeeds, OutboxNeeds, ReferenceNeeds, ServerNeeds, Limit, Processing,
        Detached
  <1>2. CASE phase' # "stopping" BY <1>2 DEF TimeInv
  <1>3. ASSUME NEW c \in Users, BeginWork(c) \/ EndWork(c) PROVE TimeInv'
    BY <1>0, <1>3, WorkNeedsNoMore
  <1>4. CASE Signal BY <1>4, SignalGives
  <1>5. CASE BeginStop BY <1>0, <1>5, StopNeedsNoMore
  <1>6. CASE EndWait BY <1>0, <1>6, WaitNeedsNoMore
  <1>7. CASE Tick BY <1>0, <1>7, TickShortens
  <1>8. CASE StartHook \/ StartFails BY <1>2, <1>8 DEF StartHook, StartFails
  <1>9. CASE BudgetOver \/ Exit BY <1>2, <1>9 DEF BudgetOver, Exit
  <1>10. CASE ServeFails \/ (\E c \in Workers : LoopEnds(c)) \/ Rest \/ UNCHANGED vars
    BY <1>1, <1>10 DEF ServeFails, LoopEnds, Rest, vars, clocks
  <1> QED BY <1>3, <1>4, <1>5, <1>6, <1>7, <1>8, <1>9, <1>10 DEF Next

\* The budget ends with requests at most.
LEMMA StepKillsRequests ==
    ASSUME StopInv, TimeInv, KilledInv, [Next]_vars
    PROVE  KilledInv'
  <1>1. CASE BudgetOver /\ phase = "stopping"
    <2>1. left = 0 /\ killed' = busy /\ phase' = "exited" BY <1>1 DEF BudgetOver
    <2>2. started <= 2 /\ started \in Nat
      <3>1. /\ ConsumerNeeds \in Nat /\ OutboxNeeds \in Nat
            /\ ReferenceNeeds \in Nat /\ ServerNeeds \in Nat
        BY NeedsAreNat DEF StopInv
      <3> QED BY <1>1, <2>1, <3>1 DEF TimeInv, StopInv, LifeTypes
    <2>3. \A c \in Workers : c \notin busy BY <2>2, Places DEF StopInv, WorkerInv
    <2>4. busy \subseteq {"http"} BY <2>3 DEF StopInv, LifeTypes, Users
    <2> QED BY <2>1, <2>4 DEF KilledInv
  <1>2. CASE ~(BudgetOver /\ phase = "stopping")
    <2>1. phase' = "exited" =>
              killed' = killed /\ (killed = {} \/ phase = "exited")
      BY <1>2 DEF Next, vars, StartHook, StartFails, BeginWork, EndWork, LoopEnds, ServeFails,
         Signal, BeginStop, EndWait, BudgetOver, Exit, Tick, Rest, StopInv, EndInv, Ended,
         Stopping
    <2> QED BY <2>1 DEF KilledInv
  <1> QED BY <1>1, <1>2

\* When the budget of a stop ends before its hooks do, requests are the only work that
\* is cut off, as long as what outlasts a worker's processing timeout, and which the
\* budget does not name (the rollbacks, the Retry of an event, the delete or release
\* of a message), fits into the drain of the consumer and the slack.
THEOREM BudgetCoversWorkers ==
    ASSUME DetachedFits
    PROVE  Spec => []WorkersEndWithinBudget
  <1>1. Init => StopInv /\ TimeInv /\ KilledInv
    BY InitStop DEF Init, TimeInv, KilledInv
  <1>2. StopInv /\ TimeInv /\ KilledInv /\ [Next]_vars => (StopInv /\ TimeInv /\ KilledInv)'
    BY StepKeeps, StepLeavesTime, StepKillsRequests
  <1>3. KilledInv => WorkersEndWithinBudget BY DEF KilledInv, WorkersEndWithinBudget
  <1> QED BY <1>1, <1>2, <1>3, PTL DEF Spec
=============================================================================
