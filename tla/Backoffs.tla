------------------------------ MODULE Backoffs ------------------------------
(***************************************************************************)
(* How long a retry waits: the visibility a failed delivery gets from the  *)
(* SQS consumer, and the delay of a pending reference or of an event whose *)
(* publication failed.  All in seconds.  One work item is retried over and *)
(* over; each retry draws its jitter.                                      *)
(***************************************************************************)
EXTENDS Integers

CONSTANT MaxAttempts   \* bound: retries of the item

ASSUME AttemptsAssumption == MaxAttempts \in Nat \ {0}

Least(m, n) == IF m < n THEN m ELSE n

\* retryVisibilitySeconds: 5 seconds, doubled by the loop for each earlier
\* delivery, never above 300.
RetryVisibilitySeconds(receiveCount) ==
    LET seconds[n \in Nat] == IF n <= 1 THEN 5 ELSE Least(2 * seconds[n - 1], 300)
    IN  seconds[receiveCount]

MaxDelay == 300

\* Mutant: the doubling is not limited.
DelayUnlimited(attempt) ==
    LET delay[n \in Nat] == IF n <= 1 THEN 1 ELSE 2 * delay[n - 1]
    IN  delay[attempt]

\* The loop of backoff, the same in the reference and the outbox service.
Delay(attempt) ==
    LET delay[n \in Nat] == IF n <= 1 THEN 1 ELSE Least(2 * delay[n - 1], MaxDelay)
    IN  delay[attempt]

\* backoff: below the limit, jitter adds up to a quarter.  rand.Int63n(max) is
\* less than its argument, which the + 1 keeps positive.
Backoff(attempt) ==
    IF Delay(attempt) = MaxDelay THEN {MaxDelay}
    ELSE {Delay(attempt) + jitter : jitter \in 0 .. Delay(attempt) \div 4}

-----------------------------------------------------------------------------
VARIABLES
    attempt,      \* the retry that comes next, counted from 1
    visibility,   \* how long the latest failed delivery was hidden
    delay         \* how long the latest failed attempt was put off

retryVars == <<attempt, visibility, delay>>

RetryInit == attempt = 1 /\ visibility = 0 /\ delay = 0

\* The item fails once more.
Fails ==
    /\ attempt < MaxAttempts
    /\ attempt' = attempt + 1
    /\ visibility' = RetryVisibilitySeconds(attempt)
    /\ delay' \in Backoff(attempt)

\* The item has failed as often as the bound allows.
GivenUp == attempt = MaxAttempts /\ UNCHANGED retryVars

RetryNext == Fails \/ GivenUp

RetrySpec == RetryInit /\ [][RetryNext]_retryVars

-----------------------------------------------------------------------------
\* What a delivery and an attempt are due: the table of README.md and its limit, and
\* the seconds that double up to five minutes.
DocumentedVisibility(n) == IF n <= 6 THEN <<5, 10, 20, 40, 80, 160>>[n] ELSE 300
DoubledDelay(n) == IF n <= 9 THEN <<1, 2, 4, 8, 16, 32, 64, 128, 256>>[n] ELSE MaxDelay

\* README.md gives the visibility of the first five deliveries and its limit;
\* the loop of retryVisibilitySeconds yields exactly these, also far beyond the
\* deliveries the queue's policy allows.
VisibilityAsDocumented == attempt > 1 => visibility = DocumentedVisibility(attempt - 1)

\* The delays of backoff double from one second, with at most a quarter of
\* jitter on top, and are exactly five minutes from the tenth on.
BackoffDoubles ==
    attempt > 1 =>
        LET base == DoubledDelay(attempt - 1)
        IN  IF base < MaxDelay THEN delay >= base /\ 4 * delay <= 5 * base
            ELSE delay = MaxDelay

\* No number of attempts overflows, stalls or hurries a retry: the deliveries are
\* hidden as README.md says (retryVisibilitySeconds), and the delays of backoff
\* double up to the limit.  The jitter of the ninth delay goes beyond the limit, up
\* to 320 seconds, so that the tenth, of 300, may be shorter than it.
RetriesAreSpaced == VisibilityAsDocumented /\ BackoffDoubles

\* README.md: "com backoff entre 1 segundo e 5 minutos".  The loop of backoff stops
\* at five minutes, but the jitter is added afterwards.
BackoffWithinLimits == attempt > 1 => delay \in 1 .. MaxDelay
=============================================================================
