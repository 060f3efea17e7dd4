------------------------------ MODULE Lifecycle ------------------------------
(***************************************************************************)
(* One process of the service from its first hook to its exit: Fx runs the *)
(* OnStart hooks in the order in which the components were built and the   *)
(* OnStop hooks in the opposite order, the latter within a budget of time. *)
(*                                                                         *)
(* A component's work (a request, a message, a reference, an event) holds  *)
(* a connection of the pool while it runs.  Time passes only while the     *)
(* process stops, and only when no hook or loop has a step to take: what   *)
(* Go can run, it runs at once.  The processing timeout of the three       *)
(* workers, or a stop that cancels it, ends their work but for what runs   *)
(* on a context of its own; a request has no limit.                        *)
(***************************************************************************)
EXTENDS Integers, Sequences

CONSTANTS
    ShutdownTimeout, SQSShutdown, SQSProcessing, SQSPing, ReferenceProcess, OutboxProcess,
    RollbackTimeout, RetryTimeout,  \* the 2 and 3 seconds that no setting names
    Slack,          \* the 10 seconds that Config.StopTimeout adds
    StartTimeout    \* Fx's limit for the OnStart hooks and their rollback

ASSUME TimeoutsAssumption ==
    {ShutdownTimeout, SQSShutdown, SQSProcessing, SQSPing, ReferenceProcess,
     OutboxProcess, RollbackTimeout, RetryTimeout, Slack, StartTimeout} \subseteq Nat \ {0}

\* bootstrap.Module: the order in which the invocations build the components.
Hooks == <<"oidc", "pool", "consumer", "outbox", "reference", "http">>

Workers == {"consumer", "outbox", "reference"}
Users == Workers \cup {"http"}

\* Mutant: the budget reserves nothing for the workers.
StopTimeoutHttpOnly == ShutdownTimeout + Slack

\* Config.StopTimeout.
StopTimeout == ShutdownTimeout + SQSShutdown + SQSProcessing
                   + ReferenceProcess + OutboxProcess + Slack

\* The processing timeout of one message, event or reference.
Processing(c) == CASE c = "consumer" -> SQSProcessing
                   [] c = "outbox" -> OutboxProcess
                   [] c = "reference" -> ReferenceProcess

\* What may still run when the processing is over or cancelled, on a context of
\* its own: the rollback of the transaction; then the delete, the release or the
\* deferral of a message; for an event the rollback of its claim, or the Retry of
\* a claim that was committed and whose send failed.
Detached(c) == CASE c = "consumer" -> RollbackTimeout + SQSPing
                 [] c = "outbox" -> IF RollbackTimeout > RetryTimeout THEN RollbackTimeout
                                                                    ELSE RetryTimeout
                 [] c = "reference" -> RollbackTimeout

Limit(c) == Processing(c) + Detached(c)

VARIABLES
    phase,      \* "starting", "running", "rollback", "stopping", "aborted"
                \* (after a rollback) or "exited"
    started,    \* how many hooks have started and not been stopped
    stage,      \* what the OnStop hook that runs is waiting for, or "none"
    ready,      \* health.Status.ready
    listener,   \* "none", "open" or "closed"
    loop,       \* the goroutines of each worker: "none", "running", "cancelled", "ended"
    busy,       \* the components with work in hand
    pool,       \* "open", "closing" or "closed"
    due, timer, left,   \* time left: to a worker's work, to a hook's own limit, to Fx's
    killed      \* the components whose work the end of the process cut off

vars == <<phase, started, stage, ready, listener, loop, busy, pool, due, timer, left, killed>>

clocks == <<due, timer, left>>

Init ==
    /\ phase = "starting"
    /\ started = 0
    /\ stage = "none"
    /\ ready = FALSE
    /\ listener = "none"
    /\ loop = [c \in Workers |-> "none"]
    /\ busy = {}
    /\ pool = "open"
    /\ due = [c \in Workers |-> 0]
    /\ timer = 0
    /\ left = StartTimeout
    /\ killed = {}

-----------------------------------------------------------------------------
\* The next OnStart hook does what it has to.  The server is ready as soon as
\* it listens, since its hook is the last one.
StartHook ==
    LET h == Hooks[started + 1]
    IN  /\ phase = "starting"
        /\ started' = started + 1
        /\ phase' = IF started' = Len(Hooks) THEN "running" ELSE "starting"
        /\ loop' = IF h \in Workers THEN [loop EXCEPT ![h] = "running"] ELSE loop
        /\ listener' = IF h = "http" THEN "open" ELSE listener
        /\ ready' = (ready \/ h = "http")
        /\ UNCHANGED <<stage, busy, pool, clocks, killed>>

\* Mutant: a start that fails ends the process as it stands.
StartFailsAtOnce ==
    LET h == Hooks[started + 1]
    IN  /\ phase = "starting"
        /\ h # "reference"
        /\ pool' = IF h = "pool" THEN "closed" ELSE pool
        /\ phase' = "aborted"
        /\ UNCHANGED <<started, stage, ready, listener, loop, busy, clocks, killed>>

\* The hooks that can fail: the check of the OIDC provider, the ping of the
\* database (which closes the pool on its own, as a hook that failed is not
\* stopped), the consumer's and the publisher's queues, and the listener.
\* Fx stops what has started, in what is left of the time for the start.
StartFails ==
    LET h == Hooks[started + 1]
    IN  /\ phase = "starting"
        /\ h # "reference"
        /\ pool' = IF h = "pool" THEN "closed" ELSE pool
        /\ phase' = "rollback"
        /\ left' \in 0 .. StartTimeout
        /\ UNCHANGED <<started, stage, ready, listener, loop, busy, due, timer, killed>>

-----------------------------------------------------------------------------
Ended == phase \in {"exited", "aborted"}

\* A component takes up work: a worker while its context lasts (the consumer also
\* what it has received by then), the server while it listens.
BeginWork(c) ==
    /\ ~Ended
    /\ c \notin busy
    /\ IF c = "http" THEN listener = "open" 
       ELSE loop[c] = "running" \/ (c = "consumer" /\ loop[c] = "cancelled")
    /\ busy' = busy \cup {c}
    /\ due' = IF c = "http" THEN due ELSE [due EXCEPT ![c] = Limit(c)]
    /\ UNCHANGED <<phase, started, stage, ready, listener, loop, pool, timer, left, killed>>

EndWork(c) ==
    /\ ~Ended
    /\ c \in busy
    /\ busy' = busy \ {c}
    /\ due' = IF c = "http" THEN due ELSE [due EXCEPT ![c] = 0]
    /\ UNCHANGED <<phase, started, stage, ready, listener, loop, pool, timer, left, killed>>

\* A cancelled loop returns.  The workers of references and of the outbox do
\* their work in the loop; the consumer's handlers run beside it.
LoopCanEnd(c) == loop[c] = "cancelled" /\ (c = "consumer" \/ c \notin busy)

LoopEnds(c) ==
    /\ ~Ended
    /\ LoopCanEnd(c)
    /\ loop' = [loop EXCEPT ![c] = "ended"]
    /\ UNCHANGED <<phase, started, stage, ready, listener, busy, pool, clocks, killed>>

\* Serve returns with an error of its own: the process lives on without a server.
ServeFails ==
    /\ ~Ended
    /\ listener = "open"
    /\ listener' = "closed"
    /\ ready' = FALSE
    /\ UNCHANGED <<phase, started, stage, loop, busy, pool, clocks, killed>>

\* The process is told to stop.
Signal ==
    /\ phase = "running"
    /\ phase' = "stopping"
    /\ left' = StopTimeout
    /\ UNCHANGED <<started, stage, ready, listener, loop, busy, pool, due, timer, killed>>

-----------------------------------------------------------------------------
Stopping == phase \in {"rollback", "stopping"}

\* The last hook started begins to stop.  Fx skips the rest once the time is over.
BeginStop ==
    LET h == Hooks[started]
    IN  /\ Stopping
        /\ stage = "none" /\ started > 0 /\ left > 0
        /\ IF h = "oidc"   \* it has no OnStop hook
           THEN started' = started - 1 /\ UNCHANGED stage
           ELSE stage' = (IF h = "consumer" THEN "loop" ELSE h) /\ UNCHANGED started
        /\ ready' = (ready /\ h # "http")
        /\ listener' = IF h = "http" THEN "closed" ELSE listener
        /\ timer' = IF h = "http" THEN ShutdownTimeout ELSE timer
        /\ loop' = IF h \in Workers THEN [loop EXCEPT ![h] = "cancelled"] ELSE loop
        /\ pool' = IF h = "pool" THEN "closing" ELSE pool
        /\ UNCHANGED <<phase, busy, due, left, killed>>

\* Mutant: a worker's stop cancels it and does not wait.
WaitIsOverOnCancel(s) ==
    CASE s = "http" -> "http" \notin busy \/ timer = 0
      [] s \in {"reference", "outbox"} -> TRUE
      [] s = "loop" -> loop["consumer"] = "ended"
      [] s = "drain" -> "consumer" \notin busy \/ timer = 0
      [] s = "work" -> "consumer" \notin busy
      [] s = "pool" -> busy = {}

\* What each wait of an OnStop hook ends with, short of the end of Fx's budget:
\* Shutdown ends with the last request or at its timeout; the workers' stops
\* with their goroutines; the consumer's, in turn, with its loop, with its
\* handlers or the shutdown timer, and with the handlers it has then cancelled;
\* pool.Close with the last connection given back.
WaitIsOver(s) ==
    CASE s = "http" -> "http" \notin busy \/ timer = 0
      [] s \in {"reference", "outbox"} -> loop[s] = "ended"
      [] s = "loop" -> loop["consumer"] = "ended"
      [] s = "drain" -> "consumer" \notin busy \/ timer = 0
      [] s = "work" -> "consumer" \notin busy
      [] s = "pool" -> busy = {}

\* A wait ends: the consumer has others, any other hook returns.
EndWait ==
    /\ Stopping
    /\ stage # "none"
    /\ WaitIsOver(stage)
    /\ \/ /\ stage = "loop"
          /\ stage' = "drain" /\ timer' = SQSShutdown
          /\ UNCHANGED started
       \/ /\ stage = "drain" /\ "consumer" \in busy
          /\ stage' = "work"
          /\ UNCHANGED <<started, timer>>
       \/ /\ stage # "loop" /\ ~(stage = "drain" /\ "consumer" \in busy)
          /\ stage' = "none" /\ started' = started - 1
          /\ UNCHANGED timer
    /\ pool' = IF stage = "pool" THEN "closed" ELSE pool
    /\ UNCHANGED <<phase, ready, listener, loop, busy, due, left, killed>>

\* Fx gives up: a hook that still waits is left behind and the process exits.
BudgetOver ==
    /\ Stopping
    /\ left = 0 /\ started > 0
    /\ phase' = IF phase = "stopping" THEN "exited" ELSE "aborted"
    /\ killed' = busy
    /\ busy' = {}
    /\ UNCHANGED <<started, stage, ready, listener, loop, pool, clocks>>

Exit ==
    /\ Stopping
    /\ started = 0
    /\ phase' = IF phase = "stopping" THEN "exited" ELSE "aborted"
    /\ UNCHANGED <<started, stage, ready, listener, loop, busy, pool, clocks, killed>>

Less(n) == IF n = 0 THEN 0 ELSE n - 1

Tick ==
    /\ Stopping
    /\ left > 0 /\ stage # "none"
    /\ ~WaitIsOver(stage)
    /\ \A c \in Workers : ~LoopCanEnd(c)
    /\ \A c \in busy \ {"http"} : due[c] > 0
    /\ left' = left - 1
    /\ timer' = Less(timer)
    /\ due' = [c \in Workers |-> Less(due[c])]
    /\ UNCHANGED <<phase, started, stage, ready, listener, loop, busy, pool, killed>>

Rest == Ended /\ UNCHANGED vars

Next ==
    \/ StartHook \/ StartFails
    \/ \E c \in Users : BeginWork(c) \/ EndWork(c)
    \/ \E c \in Workers : LoopEnds(c)
    \/ ServeFails \/ Signal
    \/ BeginStop \/ EndWait \/ BudgetOver \/ Exit
    \/ Tick
    \/ Rest

Spec == Init /\ [][Next]_vars

-----------------------------------------------------------------------------
\* The pool is taken away only when no worker has a goroutine or work left that
\* could still ask for a connection, whatever hook failed or timed out before.
\* Only requests that outlived their own timeout may still hold one.
PoolOutlivesWorkers ==
    pool # "open" =>
        /\ busy \cap Workers = {}
        /\ \A c \in Workers : loop[c] \in {"none", "ended"}

\* What Config.StopTimeout does not name fits into what it reserves twice for the
\* consumer, whose drain runs beside its work, and into the slack.
DetachedFits ==
    Detached("consumer") + Detached("outbox") + Detached("reference") < SQSShutdown + Slack

\* When Fx's budget ends before the hooks do after a signal, requests are the
\* only work that is cut off: what the configuration reserves is enough for a
\* message, a reference and an event that have just begun, with the rollbacks, the
\* Retry and the release that outlast their cancellation, if DetachedFits.
WorkersEndWithinBudget ==
    phase = "exited" => killed \subseteq {"http"}

\* A process that ends on its own account, after a signal or a failed start,
\* has ended every loop it had begun, closed its listener and its pool.
EveryStartIsUndone ==
    Ended /\ (left > 0 \/ started = 0) =>
        /\ \A c \in Workers : loop[c] \in {"none", "ended"}
        /\ pool = "closed" \/ \A c \in Workers : loop[c] = "none"
        /\ listener # "open"
        /\ busy = {}
=============================================================================
