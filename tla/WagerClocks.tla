----------------------------- MODULE WagerClocks -----------------------------
(***************************************************************************)
(* The instants that the service writes.  Several instances write rows of  *)
(* one wallet, each with its own clock: a read of an application's clock   *)
(* may give any instant, before or after the ones read elsewhere and even  *)
(* before the last one read by the same process.  The schedule of a wager  *)
(* that waits for its reference follows the clock of the database, which   *)
(* only advances.                                                          *)
(*                                                                         *)
(* What a wager decides is left to Wagering; here an outcome is chosen     *)
(* among those its reference allows.  Everything between the lock of the   *)
(* wallet and the commit is one step, since no one else writes the rows    *)
(* then; what is read before the lock is a step of its own.                *)
(***************************************************************************)
EXTENDS Integers, Sequences, FiniteSetsExt

CONSTANTS
    Submissions,    \* the wagers of one wallet
    None,
    ReferenceOf,    \* the wager that each submission names, or None
    Losses,         \* the submissions that move no money
    Messages,       \* the submissions that come through the queue
    Lease, FirstDelay, Wait, Backoffs,   \* APP_REFERENCE_LEASE, 1 s, 24 h, retries
    MaxClock        \* bound: the instants of the clocks

Statuses == {"PROCESSED", "REJECTED", "PENDING_REFERENCE"}

\* The instants of a wallet, of a running submission and of a committed wager.
Account == [created : Nat, updated : Nat]
Reading == [claimed : Nat, received : Nat]
Row == [status : Statuses, created : Nat, updated : Nat,
        due : Nat, expires : Nat, until : Nat]

ASSUME ClocksAssumption ==
    /\ None \notin Submissions /\ None \notin Account
    /\ None \notin Reading /\ None \notin Row
    /\ ReferenceOf \in [Submissions -> Submissions \cup {None}]
    /\ \A s \in Submissions : ReferenceOf[s] # s
    /\ Losses \subseteq {s \in Submissions : ReferenceOf[s] = None}
    /\ Messages \subseteq Submissions
    /\ {Lease, FirstDelay, MaxClock} \cup Backoffs \subseteq Nat \ {0}
    /\ Wait \in Nat /\ Wait >= FirstDelay

Clock == 1 .. MaxClock

VARIABLES
    db,        \* the database's clock
    account,   \* the wallet's created_at and updated_at, or None
    entries,   \* the created_at of the ledger's entries, in order of version
    rows,      \* the committed row of each submission, or None
    work,      \* the instants a running submission has read, or None
    refused    \* a check on instants has refused a step

vars == <<db, account, entries, rows, work, refused>>

Init ==
    /\ db = 1
    /\ account = None
    /\ entries = <<>>
    /\ rows = [s \in Submissions |-> None]
    /\ work = [s \in Submissions |-> None]
    /\ refused = FALSE

Later(a, b) == Max({a, b})
Earlier(a, b) == Min({a, b})

-----------------------------------------------------------------------------
\* Service.Open reads the clock once for the wallet and its opening entry, which
\* is there only when the initial balance is positive.
Open(now, funded) ==
    /\ account = None
    /\ account' = [created |-> now, updated |-> now]
    /\ entries' = IF funded THEN <<[by |-> None, at |-> now]>> ELSE <<>>
    /\ UNCHANGED <<db, rows, work, refused>>

\* A submission starts: a message's claim and the wager itself read the clock
\* before the transaction waits for the wallet.
Receive(s, claimed, received) ==
    /\ rows[s] = None /\ work[s] = None
    /\ work' = [work EXCEPT ![s] = [claimed |-> claimed, received |-> received]]
    /\ UNCHANGED <<db, account, entries, rows, refused>>

\* The transaction rolls back (deadlock, lost connection, unknown wallet).
Abort(s) ==
    /\ work[s] # None
    /\ work' = [work EXCEPT ![s] = None]
    /\ UNCHANGED <<db, account, entries, rows, refused>>

-----------------------------------------------------------------------------
Processed(s) == rows[s] # None /\ rows[s].status = "PROCESSED"

\* resolveReference and finish: what may become of a wager.
Outcomes(s) ==
    LET ref == ReferenceOf[s]
    IN  IF ref = None THEN {"PROCESSED", "REJECTED"}
        ELSE IF rows[ref] = None \/ rows[ref].status = "PENDING_REFERENCE"
             THEN {"PENDING_REFERENCE"}
        ELSE IF Processed(ref) /\ ref \notin Losses THEN {"PROCESSED", "REJECTED"}
        ELSE {"REJECTED"}

\* validateTransitionTime of the wager and validateMovement of the wallet; the
\* CHECKs on the order of created_at and updated_at say the same of the rows.
TimeAccepted(s, updated, outcome, now) ==
    /\ now >= updated
    /\ outcome = "PROCESSED" /\ s \notin Losses => now >= account.updated

\* CHECK wager_pending_reference_due_before_expiry.
ScheduleAccepted(due, expires) == due <= expires

\* Mutant: only the wager's own instants are respected.
ProcessingTimeOfWager(now, updated) == Later(now, updated)

\* SubmitInSession and ResumePendingInSession: the instant of the decision is
\* never before the wager's last one, nor before the wallet's.
ProcessingTime(now, updated) == Later(Later(now, updated), account.updated)

\* Mutant: the entry is dated when the request came in.
EntryTimeReceived(now, created) == created

\* ledger.New is given the instant of the decision.
EntryTime(now, created) == now

\* What a decision at an instant writes: the row, and for a movement the wallet
\* and its ledger.
Write(s, created, outcome, now) ==
    LET moves == outcome = "PROCESSED" /\ s \notin Losses
        waits == outcome = "PENDING_REFERENCE"
    IN  /\ rows' = [rows EXCEPT ![s] =
                [status |-> outcome, created |-> created, updated |-> now,
                 due |-> IF waits THEN now + FirstDelay ELSE 0,
                 expires |-> IF waits THEN now + Wait ELSE 0,
                 until |-> 0]]
        /\ account' = IF moves THEN [account EXCEPT !.updated = now] ELSE account
        /\ entries' = IF moves
                      THEN Append(entries, [by |-> s, at |-> EntryTime(now, created)])
                      ELSE entries

\* process, under the wallet's lock.  A message is completed at a later read of
\* the clock, which CHECK inbox_completion_time compares with its claim: when
\* the clock was set back in between, the transaction rolls back and the
\* message is delivered again.
Process(s, now, completed, outcome) ==
    LET received == work[s].received
        time == ProcessingTime(now, received)
        accepted == TimeAccepted(s, received, outcome, time)
        completes == s \in Messages => completed >= work[s].claimed
    IN  /\ work[s] # None /\ account # None
        /\ outcome \in Outcomes(s)
        /\ work' = [work EXCEPT ![s] = None]
        /\ refused' = (refused \/ ~accepted)
        /\ IF accepted /\ completes
           THEN Write(s, received, outcome, time)
           ELSE UNCHANGED <<account, entries, rows>>
        /\ UNCHANGED db

-----------------------------------------------------------------------------
Waiting(s) == rows[s] # None /\ rows[s].status = "PENDING_REFERENCE"

\* ReferenceStore.Claim, at the statement's instant of the database's clock.
Claim(s) ==
    LET due == Earlier(db + Lease, rows[s].expires)
    IN  /\ Waiting(s)
        /\ rows[s].due <= db
        /\ rows[s].until <= db
        /\ rows' = [rows EXCEPT ![s].until = db + Lease, ![s].due = due]
        /\ refused' = (refused \/ ~ScheduleAccepted(due, rows[s].expires))
        /\ UNCHANGED <<db, account, entries, work>>

\* Mutant: the wait ends when the backoff says.
NextAttemptUncapped(now, backoff, expires) == now + backoff

\* ProcessOne: the last attempt is at the expiry.
NextAttempt(now, backoff, expires) == Earlier(now + backoff, expires)

\* LockPending finds the lease still good and reads the clock again; the wager is
\* decided, or given another attempt while its wait has not expired.
Resume(s, now, backoff, outcome) ==
    LET row == rows[s]
        waits == outcome = "PENDING_REFERENCE"
        expired == now >= row.expires
        final == IF waits THEN "REJECTED" ELSE outcome
        time == ProcessingTime(now, row.updated)
        accepted == TimeAccepted(s, row.updated, final, time)
        next == NextAttempt(now, backoff, row.expires)
    IN  /\ Waiting(s)
        /\ row.until > db
        /\ now \in db .. db + 1
        /\ outcome \in Outcomes(s)
        /\ db' = now
        /\ \/ /\ waits /\ ~expired
              /\ rows' = [rows EXCEPT ![s].due = next, ![s].until = 0]
              /\ refused' = (refused \/ ~ScheduleAccepted(next, row.expires))
              /\ UNCHANGED <<account, entries>>
           \/ /\ ~waits \/ expired
              /\ refused' = (refused \/ ~accepted)
              /\ IF accepted THEN Write(s, row.created, final, time)
                 ELSE UNCHANGED <<account, entries, rows>>
        /\ UNCHANGED work

Tick == db < MaxClock /\ db' = db + 1 /\ UNCHANGED <<account, entries, rows, work, refused>>

Next ==
    \/ \E now \in Clock, funded \in BOOLEAN : Open(now, funded)
    \/ \E s \in Submissions :
          \/ \E claimed \in IF s \in Messages THEN Clock ELSE {1}, received \in Clock :
                Receive(s, claimed, received)
          \/ Abort(s)
          \/ \E now \in Clock, outcome \in Statuses,
                completed \in IF s \in Messages THEN Clock ELSE {1} :
                Process(s, now, completed, outcome)
          \/ Claim(s)
          \/ \E now \in Clock, backoff \in Backoffs, outcome \in Statuses :
                Resume(s, now, backoff, outcome)
    \/ Tick

Spec == Init /\ [][Next]_vars

-----------------------------------------------------------------------------
\* However the clocks of the instances differ, and however long a request waits
\* for the wallet's lock, no instant makes the domain ("movement time precedes
\* wallet state", "transition time") or a CHECK of wallets, wagers and ledger
\* entries refuse a wager: such a refusal would meet every retry until the clocks
\* agree again.  CHECK inbox_completion_time is not among them (see Process).
ClocksNeverRefuse == ~refused

\* The instants written tell the order of the commits: the entries of a wallet
\* are dated in the order of their versions, the last one is the wallet's
\* updated_at, each carries the instant of its wager, and a wager is never dated
\* before the one it refers to.
TimesFollowCommits ==
    /\ \A i, j \in DOMAIN entries : i < j => entries[i].at <= entries[j].at
    /\ \A i \in DOMAIN entries :
          entries[i].by # None => entries[i].at = rows[entries[i].by].updated
    /\ account # None =>
          account.updated = IF entries = <<>> THEN account.created
                            ELSE entries[Len(entries)].at
    /\ \A s \in Submissions :
          Processed(s) /\ ReferenceOf[s] # None =>
              rows[ReferenceOf[s]].updated <= rows[s].updated

\* A wager whose wait has expired and that nobody holds can be claimed at once:
\* neither a retry's backoff nor a crashed worker's lease keeps it past its
\* expiry longer than that lease.
ExpiredIsClaimable ==
    \A s \in Submissions :
        Waiting(s) /\ rows[s].expires <= db /\ rows[s].until <= db => rows[s].due <= db
=============================================================================
