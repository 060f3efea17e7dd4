----------------------------- MODULE OutboxProofs -----------------------------
(***************************************************************************)
(* Theorems about the outbox, for any number of events, workers and        *)
(* failures: what the workers leave in the table is right whoever they     *)
(* race, no failure costs more than one copy, and the events of a wallet   *)
(* lead a consumer to the balances it had.                                 *)
(***************************************************************************)
EXTENDS EventStream, FiniteSetTheorems, WellFoundedInduction, TLAPS

\* A lease is named by the number of the attempt that took it; what is published
\* was delivered and is nobody's.
RowInv(e) ==
    /\ rows[e].token # 0 => rows[e].token = rows[e].attempts
    /\ rows[e].lease = "free" <=> rows[e].token = 0
    /\ rows[e].published => copies[e] > 0 /\ rows[e].token = 0

\* A worker's attempt has been counted, and it confirms what it has sent.
WorkerInv(p) ==
    pc[p] # "poll" => /\ token[p] <= rows[held[p]].attempts
                      /\ pc[p] = "confirm" => copies[held[p]] > 0

\* No two workers have the same attempt at an event.
AttemptsApart ==
    \A p, q \in Publishers :
        /\ p # q /\ pc[p] # "poll" /\ pc[q] # "poll"
        /\ held[p] = held[q]
        => token[p] # token[q]

\* The inductive strengthening of LatestClaimDecides and of the delivery.
OutboxInv ==
    /\ TypeOK
    /\ \A e \in DOMAIN rows : RowInv(e)
    /\ \A p \in Publishers : WorkerInv(p)
    /\ AttemptsApart

\* The workers about to send an event, each in an attempt of its own: every attempt
\* sends at most once.
Senders(e) == {p \in Publishers : pc[p] = "publish" /\ held[p] = e}
CopyInv ==
    \A e \in Events :
        /\ IsFiniteSet(Senders(e))
        /\ IF e \in DOMAIN rows THEN copies[e] + Cardinality(Senders(e)) <= rows[e].attempts
           ELSE copies[e] = 0 /\ Senders(e) = {}

\* The latest attempt at an event goes well so far.
GoesWell(e) ==
    /\ rows[e].lease = "live"
    /\ \E p \in Publishers : /\ held[p] = e /\ token[p] = rows[e].attempts
                             /\ pc[p] \in {"publish", "confirm"}

\* The attempts that came to nothing: all but the latest one of an event, and that one
\* too once it can no longer publish it.
Fruitless(e, n) ==
    /\ e \in DOMAIN rows
    /\ n > 0 /\ n <= rows[e].attempts
    /\ n = rows[e].attempts => ~rows[e].published /\ ~GoesWell(e)
Wasted == {x \in Events \X Nat : Fruitless(x[1], x[2])}

\* Each wasted attempt has cost a failure of its own.
WasteInv == IsFiniteSet(Wasted) /\ Cardinality(Wasted) <= faults

-----------------------------------------------------------------------------
(* The steps of the outbox, alone or beside the wallet's movements          *)

OutboxStep == (\E e \in Events : Record(e)) \/ Publish \/ UNCHANGED vars

\* Steps of both specifications are steps of the outbox.
LEMMA StepsOfBoth ==
    /\ [Next]_vars => OutboxStep
    /\ [StreamNext]_<<vars, streamVars>> => OutboxStep
    /\ OutboxStep => [Next]_vars
  BY DEF Next, StreamNext, OutboxStep, Idle, OpenEmpty, OpenFunded, Move

\* What a worker does to the row of an event it does not lose.
RowChanged(e, row) ==
    /\ DOMAIN rows' = DOMAIN rows
    /\ \A x \in DOMAIN rows : rows'[x] = IF x = e THEN row ELSE rows[x]

\* A claim counts one attempt more and names the lease by it.
LEMMA ClaimedRow ==
    ASSUME TypeOK, NEW e, Claimable(e), rows' = Claimed(e)
    PROVE  /\ e \in DOMAIN rows /\ ~rows[e].published /\ rows[e].lease # "live"
           /\ rows' \in [DOMAIN rows -> Row]
           /\ RowChanged(e, rows'[e])
           /\ ~rows'[e].published /\ rows'[e].lease = "live"
           /\ rows'[e].attempts = rows[e].attempts + 1
           /\ rows'[e].token = rows[e].attempts + 1
  <1>1. e \in DOMAIN rows /\ ~rows[e].published /\ rows[e].lease # "live"
    BY DEF Claimable
  <1>2. rows[e] \in Row BY <1>1 DEF TypeOK
  <1>a. PICK n \in Nat : n = rows[e].attempts + 1
    BY <1>2 DEF Row
  <1>3. PICK row : row = [rows[e] EXCEPT !.token = n, !.lease = "live",
                                        !.due = FALSE, !.attempts = n]
    OBVIOUS
  <1>4. rows' = [rows EXCEPT ![e] = row]
    BY <1>a, <1>3 DEF Claimed
  <1>5. /\ row \in Row /\ ~row.published /\ row.lease = "live"
        /\ row.attempts = n /\ row.token = n
    BY <1>1, <1>2, <1>3 DEF Row
  <1> QED BY <1>1, <1>a, <1>4, <1>5 DEF TypeOK, RowChanged

\* The end of an attempt changes at most the row it still holds.
LEMMA ReleasedRow ==
    ASSUME TypeOK, NEW p \in Publishers, pc[p] # "poll", Confirm(p) \/ Retry(p)
    PROVE  /\ held[p] \in DOMAIN rows /\ rows' \in [DOMAIN rows -> Row]
           /\ RowChanged(held[p], rows'[held[p]])
           /\ rows'[held[p]].attempts = rows[held[p]].attempts
           /\ \/ rows' = rows /\ ~Holds(p)
              \/ /\ Holds(p)
                 /\ rows'[held[p]].token = 0 /\ rows'[held[p]].lease = "free"
                 /\ rows'[held[p]].published <=> Confirm(p)
  <1>1. PICK e : e = held[p] OBVIOUS
  <1>2. e \in DOMAIN rows /\ rows[e] \in Row
    BY <1>1 DEF TypeOK
  <1>3. CASE Confirm(p) /\ Holds(p)
    <2>1. PICK row : row = [rows[e] EXCEPT !.published = TRUE, !.token = 0, !.lease = "free"]
      OBVIOUS
    <2>2. rows' = [rows EXCEPT ![e] = row]
      BY <1>1, <1>3, <2>1 DEF Confirm
    <2>3. /\ row \in Row /\ row.published /\ row.token = 0 /\ row.lease = "free"
          /\ row.attempts = rows[e].attempts
      BY <1>2, <2>1 DEF Row
    <2> QED BY <1>1, <1>2, <1>3, <2>2, <2>3 DEF TypeOK, RowChanged
  <1>4. CASE Retry(p) /\ Holds(p)
    <2>1. PICK row : row = [rows[e] EXCEPT !.token = 0, !.lease = "free", !.due = FALSE]
      OBVIOUS
    <2>2. rows' = [rows EXCEPT ![e] = row]
      BY <1>1, <1>4, <2>1 DEF Retry
    <2>3. /\ row \in Row /\ row.token = 0 /\ row.lease = "free" /\ ~row.published
          /\ row.attempts = rows[e].attempts
      BY <1>1, <1>2, <1>4, <2>1 DEF Row, Holds
    <2>4. ~Confirm(p) BY <1>4 DEF Confirm, Retry
    <2> QED BY <1>1, <1>2, <1>4, <2>2, <2>3, <2>4 DEF TypeOK, RowChanged
  <1>5. CASE ~Holds(p)
    BY <1>1, <1>2, <1>5 DEF Confirm, Retry, TypeOK, RowChanged
  <1> QED BY <1>3, <1>4, <1>5

\* The passing of time.
Passes(e) == BecomeDue(e) \/ LeaseExpires(e) \/ LeaseExpiresEarly(e)

\* Time ends a delay or a lease; it neither publishes an event nor gives its token away.
LEMMA PassedRow ==
    ASSUME TypeOK, NEW e, Passes(e)
    PROVE  /\ e \in DOMAIN rows /\ rows' \in [DOMAIN rows -> Row]
           /\ RowChanged(e, rows'[e])
           /\ rows'[e].published = rows[e].published /\ rows'[e].token = rows[e].token
           /\ rows'[e].attempts = rows[e].attempts
           /\ IF BecomeDue(e) THEN rows[e].lease = "free" /\ rows'[e].lease = "free"
              ELSE rows[e].lease = "live" /\ rows'[e].lease = "over"
  <1>1. e \in DOMAIN rows
    BY DEF Passes, BecomeDue, LeaseExpires, LeaseExpiresEarly
  <1>2. rows[e] \in Row BY <1>1 DEF TypeOK
  <1>3. CASE BecomeDue(e)
    BY <1>1, <1>2, <1>3 DEF BecomeDue, TypeOK, Row, RowChanged
  <1>4. CASE ~BecomeDue(e)
    <2>1. rows[e].lease = "live" /\ rows' = [rows EXCEPT ![e].lease = "over", ![e].due = TRUE]
      BY <1>4 DEF Passes, LeaseExpires, LeaseExpiresEarly
    <2> QED BY <1>1, <1>2, <1>4, <2>1 DEF TypeOK, Row, RowChanged
  <1> QED BY <1>3, <1>4

\* The other workers keep their locals.
Aside(p) ==
    \A q \in Publishers \ {p} : pc'[q] = pc[q] /\ held'[q] = held[q] /\ token'[q] = token[q]

\* Attempts are only ever counted up, and copies never taken back.
OutboxGrows ==
    /\ DOMAIN rows \subseteq DOMAIN rows'
    /\ \A e \in DOMAIN rows : rows'[e].attempts >= rows[e].attempts
    /\ \A e \in Events : copies'[e] >= copies[e]

\* A worker that has its attempt already, or gives it up, gets in nobody's way.
LEMMA WorkerStep ==
    ASSUME OutboxInv, TypeOK', NEW p \in Publishers, Aside(p), OutboxGrows, WorkerInv(p)',
           \/ pc'[p] = "poll"
           \/ pc[p] # "poll" /\ held'[p] = held[p] /\ token'[p] = token[p]
           \/ /\ held'[p] \in DOMAIN rows
              /\ token'[p] = rows[held'[p]].attempts + 1
    PROVE  /\ \A q \in Publishers : WorkerInv(q)'
           /\ AttemptsApart'
  <1>1. ASSUME NEW q \in Publishers, q # p PROVE WorkerInv(q)'
    <2>1. WorkerInv(q) BY DEF OutboxInv
    <2>2. pc'[q] = pc[q] /\ held'[q] = held[q] /\ token'[q] = token[q]
      BY <1>1 DEF Aside
    <2>3. CASE pc[q] # "poll"
      <3>1. PICK e : e = held[q] OBVIOUS
      <3>2. e \in DOMAIN rows /\ e \in Events /\ e \in DOMAIN rows'
        BY <2>3, <3>1 DEF OutboxInv, TypeOK, OutboxGrows
      <3>3. /\ rows[e].attempts \in Nat /\ rows'[e].attempts \in Nat /\ token[q] \in Nat
            /\ copies[e] \in Nat /\ copies'[e] \in Nat
        BY <3>2 DEF OutboxInv, TypeOK, Row
      <3>4. rows'[e].attempts >= rows[e].attempts /\ copies'[e] >= copies[e]
        BY <3>2 DEF OutboxGrows
      <3> QED BY <2>1, <2>2, <2>3, <3>1, <3>3, <3>4 DEF WorkerInv
    <2>4. CASE pc[q] = "poll"
      BY <2>2, <2>4 DEF WorkerInv
    <2> QED BY <2>3, <2>4
  <1>2. ASSUME NEW q \in Publishers, q # p, pc'[p] # "poll", pc'[q] # "poll",
               held'[p] = held'[q]
        PROVE  token'[p] # token'[q]
    <2>1. pc'[q] = pc[q] /\ held'[q] = held[q] /\ token'[q] = token[q]
      BY <1>2 DEF Aside
    <2>2. token[q] <= rows[held[q]].attempts
      BY <1>2, <2>1 DEF OutboxInv, WorkerInv
    <2>3. CASE pc[p] # "poll" /\ held'[p] = held[p] /\ token'[p] = token[p]
      BY <1>2, <2>1, <2>3 DEF OutboxInv, AttemptsApart
    <2>4. CASE held'[p] \in DOMAIN rows /\ token'[p] = rows[held'[p]].attempts + 1
      <3>1. PICK n : n = rows[held[q]].attempts OBVIOUS
      <3>2. n \in Nat /\ token[q] \in Nat
        BY <1>2, <2>1, <2>4, <3>1 DEF OutboxInv, TypeOK, Row
      <3> QED BY <1>2, <2>1, <2>2, <2>4, <3>1, <3>2
    <2> QED BY <1>2, <2>3, <2>4
  <1>3. AttemptsApart'
    <2> SUFFICES ASSUME NEW q \in Publishers, NEW r \in Publishers, q # r,
                        pc'[q] # "poll", pc'[r] # "poll", held'[q] = held'[r]
                 PROVE  token'[q] # token'[r]
      BY DEF AttemptsApart
    <2>1. CASE q # p /\ r # p
      <3>1. /\ pc'[q] = pc[q] /\ held'[q] = held[q] /\ token'[q] = token[q]
            /\ pc'[r] = pc[r] /\ held'[r] = held[r] /\ token'[r] = token[r]
        BY <2>1 DEF Aside
      <3> QED BY <3>1 DEF OutboxInv, AttemptsApart
    <2> QED BY <1>2, <2>1
  <1> QED BY <1>1, <1>3

\* When only the rows change.
LEMMA RowStep ==
    ASSUME OutboxInv, OutboxGrows, TypeOK', UNCHANGED <<copies, pc, held, token>>
    PROVE  /\ \A q \in Publishers : WorkerInv(q)'
           /\ AttemptsApart'
  <1>1. AttemptsApart' BY DEF OutboxInv, AttemptsApart
  <1>2. ASSUME NEW q \in Publishers, pc[q] # "poll" PROVE WorkerInv(q)'
    <2>1. PICK e : e = held[q] OBVIOUS
    <2>2. e \in DOMAIN rows /\ e \in DOMAIN rows'
      BY <1>2, <2>1 DEF OutboxInv, TypeOK, OutboxGrows
    <2>3. rows[e].attempts \in Nat /\ rows'[e].attempts \in Nat /\ token[q] \in Nat
      BY <2>2 DEF OutboxInv, TypeOK, Row
    <2> QED BY <1>2, <2>1, <2>2, <2>3 DEF OutboxInv, WorkerInv, OutboxGrows
  <1> QED BY <1>1, <1>2 DEF WorkerInv

-----------------------------------------------------------------------------
(* One lemma per action                                                     *)

\* A new event has had no attempt and has no copy.
LEMMA RecordKeeps ==
    ASSUME OutboxInv, NEW e \in Events, Record(e)
    PROVE  OutboxInv' /\ OutboxGrows
  <1>1. PICK row : row = [published |-> FALSE, token |-> 0, lease |-> "free",
                          due |-> FALSE, attempts |-> 0]
    OBVIOUS
  <1>2. /\ row \in Row /\ row.token = 0 /\ row.lease = "free" /\ ~row.published
    BY <1>1 DEF Row
  <1>3. /\ e \notin DOMAIN rows /\ DOMAIN rows' = DOMAIN rows \cup {e}
        /\ rows'[e] = row /\ \A x \in DOMAIN rows : rows'[x] = rows[x]
        /\ rows' = [x \in DOMAIN rows \cup {e} |-> IF x = e THEN row ELSE rows[x]]
        /\ UNCHANGED <<copies, pc, held, token, faults>>
    BY <1>1 DEF Record
  <1>4. rows' \in [DOMAIN rows' -> Row]
    BY <1>2, <1>3 DEF OutboxInv, TypeOK
  <1>5. TypeOK'
    BY <1>3, <1>4 DEF OutboxInv, TypeOK
  <1>6. OutboxGrows
    BY <1>3 DEF OutboxGrows, OutboxInv, TypeOK, Row
  <1>7. \A x \in DOMAIN rows' : RowInv(x)'
    BY <1>2, <1>3 DEF OutboxInv, RowInv
  <1> QED BY <1>3, <1>5, <1>6, <1>7, RowStep DEF OutboxInv

\* A claim, answered or not, takes over an event nobody has a lease of.
LEMMA ClaimKeeps ==
    ASSUME OutboxInv, NEW p \in Publishers, NEW e \in Events,
           Claim(p, e) \/ ClaimReplyLost(p, e)
    PROVE  OutboxInv' /\ OutboxGrows
  <1>0. TypeOK BY DEF OutboxInv
  <1>1. /\ rows' = Claimed(e) /\ Claimable(e) /\ pc[p] = "poll"
        /\ UNCHANGED copies
    BY DEF Claim, ClaimReplyLost
  <1>2. /\ e \in DOMAIN rows /\ ~rows[e].published /\ rows[e].lease # "live"
        /\ rows' \in [DOMAIN rows -> Row] /\ RowChanged(e, rows'[e])
        /\ ~rows'[e].published /\ rows'[e].lease = "live"
        /\ rows'[e].attempts = rows[e].attempts + 1
        /\ rows'[e].token = rows[e].attempts + 1
    BY <1>0, <1>1, ClaimedRow
  <1>3. \A x \in DOMAIN rows : rows[x].attempts \in Nat /\ copies[x] \in Nat
    BY <1>0 DEF TypeOK, Row
  <1>4. OutboxGrows
    BY <1>0, <1>1, <1>2, <1>3 DEF OutboxGrows, RowChanged, TypeOK
  <1>5. \A x \in DOMAIN rows' : RowInv(x)'
    <2> SUFFICES ASSUME NEW x \in DOMAIN rows' PROVE RowInv(x)' OBVIOUS
    <2>1. CASE x = e
      BY <1>2, <1>3, <2>1 DEF RowInv
    <2>2. CASE x # e
      BY <1>1, <1>2, <2>2 DEF RowInv, RowChanged, OutboxInv
    <2> QED BY <2>1, <2>2
  <1>6. CASE Claim(p, e)
    <2>1. /\ pc' = [pc EXCEPT ![p] = "publish"] /\ held' = [held EXCEPT ![p] = e]
          /\ token' = [token EXCEPT ![p] = rows[e].attempts + 1] /\ UNCHANGED faults
      BY <1>6 DEF Claim
    <2>2. /\ pc'[p] = "publish" /\ held'[p] = e /\ token'[p] = rows[e].attempts + 1
          /\ Aside(p)
      BY <1>0, <2>1 DEF TypeOK, Aside
    <2>3. TypeOK'
      <3>1. /\ pc' \in [Publishers -> Labels] /\ held' \in [Publishers -> Events \cup {None}]
        BY <1>0, <2>1 DEF TypeOK, Labels
      <3>2. token' \in [Publishers -> Nat]
        BY <1>0, <1>2, <1>3, <2>1 DEF TypeOK
      <3>3. \A q \in Publishers : IF pc'[q] = "poll" THEN held'[q] = None /\ token'[q] = 0
                                  ELSE held'[q] \in DOMAIN rows' /\ token'[q] > 0
        BY <1>0, <1>2, <1>3, <2>2 DEF TypeOK, Aside, RowChanged
      <3> QED BY <1>0, <1>1, <1>2, <2>1, <3>1, <3>2, <3>3 DEF TypeOK, RowChanged
    <2>4. WorkerInv(p)'
      BY <1>2, <1>3, <2>2 DEF WorkerInv
    <2> QED BY <1>2, <1>4, <1>5, <2>2, <2>3, <2>4, WorkerStep DEF OutboxInv
  <1>7. CASE ClaimReplyLost(p, e)
    <2>1. UNCHANGED <<pc, held, token>> /\ faults' \in 0 .. MaxFaults
      BY <1>0, <1>7, PublisherAssumption DEF ClaimReplyLost, Fault, TypeOK
    <2>2. TypeOK'
      BY <1>0, <1>1, <1>2, <2>1 DEF TypeOK, RowChanged
    <2> QED BY <1>1, <1>4, <1>5, <2>1, <2>2, RowStep DEF OutboxInv
  <1> QED BY <1>6, <1>7

\* A send, whether the worker learns of it or not.
LEMMA SendKeeps ==
    ASSUME OutboxInv, NEW p \in Publishers, Send(p) \/ SendFails(p)
    PROVE  OutboxInv' /\ OutboxGrows
  <1>0. TypeOK BY DEF OutboxInv
  <1>1. /\ pc[p] = "publish" /\ UNCHANGED <<rows, held, token>> /\ Aside(p)
        /\ held[p] \in Events /\ held[p] \in DOMAIN rows
        /\ faults' \in 0 .. MaxFaults
    BY <1>0, PublisherAssumption DEF Send, SendFails, Fault, TypeOK, Aside
  <1>2. PICK e : e = held[p] OBVIOUS
  <1>3. /\ copies' \in [Events -> Nat]
        /\ \A x \in Events : copies'[x] >= copies[x]
        /\ Send(p) => copies'[e] > 0
    <2>1. CASE copies' = [copies EXCEPT ![e] = @ + 1]
      BY <1>0, <1>1, <1>2, <2>1 DEF TypeOK
    <2>2. CASE UNCHANGED copies /\ ~Send(p)
      BY <1>0, <2>2 DEF TypeOK
    <2>3. Send(p) => copies' = [copies EXCEPT ![e] = @ + 1]
      BY <1>2 DEF Send
    <2> QED BY <1>2, <2>1, <2>2, <2>3 DEF SendFails
  <1>4. OutboxGrows
    BY <1>0, <1>1, <1>3 DEF OutboxGrows, TypeOK, Row
  <1>5. pc' = [pc EXCEPT ![p] = IF Send(p) THEN "confirm" ELSE "retry"]
    BY DEF Send, SendFails
  <1>6. TypeOK'
    <2>1. pc' \in [Publishers -> Labels] BY <1>0, <1>5 DEF TypeOK, Labels
    <2> QED BY <1>0, <1>1, <1>3, <1>5, <2>1 DEF TypeOK
  <1>7. \A x \in DOMAIN rows' : RowInv(x)'
    BY <1>0, <1>1, <1>3 DEF OutboxInv, RowInv, TypeOK
  <1>8. WorkerInv(p)'
    BY <1>0, <1>1, <1>2, <1>3, <1>5 DEF OutboxInv, WorkerInv, TypeOK
  <1> QED BY <1>1, <1>4, <1>6, <1>7, <1>8, WorkerStep DEF OutboxInv

\* A worker that returns has nothing left.
LEMMA ReturnKeeps ==
    ASSUME OutboxInv, NEW p \in Publishers, Confirm(p) \/ Retry(p) \/ GiveUp(p)
    PROVE  OutboxInv' /\ OutboxGrows
  <1>0. TypeOK BY DEF OutboxInv
  <1>1. /\ pc[p] # "poll" /\ Return(p) /\ UNCHANGED copies /\ faults' \in 0 .. MaxFaults
    BY <1>0, PublisherAssumption DEF Confirm, Retry, GiveUp, Fault, TypeOK
  <1>2. /\ pc'[p] = "poll" /\ held'[p] = None /\ token'[p] = 0 /\ Aside(p)
        /\ pc' \in [Publishers -> Labels] /\ held' \in [Publishers -> Events \cup {None}]
        /\ token' \in [Publishers -> Nat]
    BY <1>0, <1>1 DEF Return, TypeOK, Aside, Labels
  <1>3. PICK e : e = held[p] OBVIOUS
  <1>4. /\ e \in DOMAIN rows /\ rows' \in [DOMAIN rows -> Row] /\ RowChanged(e, rows'[e])
        /\ rows'[e].attempts = rows[e].attempts
        /\ \/ rows' = rows
           \/ /\ rows'[e].token = 0 /\ rows'[e].lease = "free"
              /\ rows'[e].published => pc[p] = "confirm"
    <2>1. CASE Confirm(p) \/ Retry(p)
      BY <1>0, <1>1, <1>3, <2>1, ReleasedRow DEF Confirm
    <2>2. CASE GiveUp(p)
      BY <1>0, <1>1, <1>3, <2>2 DEF GiveUp, TypeOK, RowChanged
    <2> QED BY <2>1, <2>2
  <1>5. OutboxGrows
    BY <1>0, <1>1, <1>4 DEF OutboxGrows, RowChanged, TypeOK, Row
  <1>6. TypeOK'
    BY <1>0, <1>1, <1>2, <1>4 DEF TypeOK, RowChanged, Aside
  <1>7. \A x \in DOMAIN rows' : RowInv(x)'
    <2> SUFFICES ASSUME NEW x \in DOMAIN rows' PROVE RowInv(x)' OBVIOUS
    <2>1. RowInv(x) /\ x \in DOMAIN rows
      BY <1>4 DEF OutboxInv, RowChanged
    <2>2. CASE rows'[x] = rows[x]
      BY <1>1, <2>1, <2>2 DEF RowInv
    <2>3. CASE rows' # rows /\ x = e
      BY <1>1, <1>3, <1>4, <2>3 DEF RowInv, OutboxInv, WorkerInv
    <2> QED BY <1>4, <2>1, <2>2, <2>3 DEF RowChanged
  <1> QED BY <1>2, <1>5, <1>6, <1>7, WorkerStep DEF OutboxInv, WorkerInv

\* Time passes over a lease or a backoff.
LEMMA PassesKeeps ==
    ASSUME OutboxInv, NEW e \in Events, Passes(e)
    PROVE  OutboxInv' /\ OutboxGrows
  <1>0. TypeOK BY DEF OutboxInv
  <1>1. UNCHANGED <<copies, pc, held, token>> /\ faults' \in 0 .. MaxFaults
    BY <1>0, PublisherAssumption
    DEF Passes, BecomeDue, LeaseExpires, LeaseExpiresEarly, Fault, TypeOK
  <1>2. /\ e \in DOMAIN rows /\ rows' \in [DOMAIN rows -> Row] /\ RowChanged(e, rows'[e])
        /\ rows'[e].published = rows[e].published /\ rows'[e].token = rows[e].token
        /\ rows'[e].attempts = rows[e].attempts
        /\ rows'[e].lease = "free" <=> rows[e].lease = "free"
    BY <1>0, PassedRow
  <1>3. OutboxGrows
    BY <1>0, <1>1, <1>2 DEF OutboxGrows, RowChanged, TypeOK, Row
  <1>4. TypeOK'
    BY <1>0, <1>1, <1>2 DEF TypeOK, RowChanged
  <1>5. \A x \in DOMAIN rows' : RowInv(x)'
    BY <1>1, <1>2 DEF OutboxInv, RowInv, RowChanged
  <1> QED BY <1>1, <1>3, <1>4, <1>5, RowStep DEF OutboxInv

-----------------------------------------------------------------------------
(* The invariant, and what follows from it                                  *)

\* The shape of a step.
LEMMA StepShape ==
    ASSUME OutboxStep
    PROVE  \/ \E e \in Events : Record(e)
           \/ \E p \in Publishers, e \in Events : Claim(p, e) \/ ClaimReplyLost(p, e)
           \/ \E p \in Publishers : Send(p) \/ SendFails(p)
           \/ \E p \in Publishers : Confirm(p) \/ Retry(p) \/ GiveUp(p)
           \/ \E e \in Events : Passes(e)
           \/ UNCHANGED vars
  BY DEF OutboxStep, Publish, Work, Passes

\* Every step keeps the invariant.
LEMMA StepKeeps == OutboxInv /\ OutboxStep => OutboxInv' /\ OutboxGrows
  <1> SUFFICES ASSUME OutboxInv, OutboxStep PROVE OutboxInv' /\ OutboxGrows OBVIOUS
  <1>1. CASE UNCHANGED vars
    <2>1. OutboxInv'
      BY <1>1 DEF vars, OutboxInv, TypeOK, RowInv, WorkerInv, AttemptsApart
    <2>2. OutboxGrows
      BY <1>1 DEF vars, OutboxGrows, OutboxInv, TypeOK, Row
    <2> QED BY <2>1, <2>2
  <1> QED BY <1>1, StepShape, RecordKeeps, ClaimKeeps, SendKeeps, ReturnKeeps, PassesKeeps

\* The empty outbox satisfies it.
LEMMA InitOutbox == Init => OutboxInv
  BY PublisherAssumption
  DEF Init, OutboxInv, TypeOK, Labels, RowInv, WorkerInv, AttemptsApart

\* The workers' locals and the rows they work on fit together, at any interleaving of
\* Claim, Publish, Confirm and Retry and after any failure.
THEOREM OutboxSafety == Spec => []OutboxInv
  BY InitOutbox, StepKeeps, StepsOfBoth, PTL DEF Spec

\* The type invariant of the outbox: rows are rows, copies are counted, and exactly a
\* worker between Claim and its return has an event and a token.
THEOREM OutboxTypes == Spec => []TypeOK
  <1>1. OutboxInv => TypeOK BY DEF OutboxInv
  <1> QED BY <1>1, OutboxSafety, PTL

\* Confirm and Retry take effect only for the worker of the latest claim: a token that
\* was overtaken after its lease matches no row any more.
THEOREM LatestClaimHolds == Spec => LatestClaimDecides
  <1> DEFINE A == \A e \in DOMAIN rows :
                     /\ rows[e].token # 0
                     /\ rows'[e].token = 0
                     => \E p \in Publishers : /\ held[p] = e
                                              /\ token[p] = rows[e].attempts
                                              /\ pc[p] \in {"confirm", "retry"}
  <1>1. ASSUME OutboxInv, OutboxStep PROVE A
    <2>0. TypeOK BY <1>1 DEF OutboxInv
    <2> SUFFICES ASSUME NEW e \in DOMAIN rows, rows[e].token # 0, rows'[e].token = 0
                 PROVE  \E p \in Publishers : /\ held[p] = e
                                              /\ token[p] = rows[e].attempts
                                              /\ pc[p] \in {"confirm", "retry"}
      OBVIOUS
    <2>1. rows'[e] # rows[e] OBVIOUS
    <2>2. ASSUME NEW x \in Events, Record(x) PROVE FALSE
      BY <2>1, <2>2 DEF Record
    <2>3. ASSUME NEW p \in Publishers, NEW x \in Events, Claim(p, x) \/ ClaimReplyLost(p, x)
          PROVE  FALSE
      <3>1. rows' = Claimed(x) /\ Claimable(x)
        BY <2>3 DEF Claim, ClaimReplyLost
      <3>2. /\ x \in DOMAIN rows /\ RowChanged(x, rows'[x])
            /\ rows'[x].token = rows[x].attempts + 1
        BY <2>0, <3>1, ClaimedRow
      <3>3. rows[x].attempts \in Nat BY <2>0, <3>2 DEF TypeOK, Row
      <3> QED BY <2>1, <3>2, <3>3 DEF RowChanged
    <2>4. ASSUME NEW p \in Publishers, Send(p) \/ SendFails(p) \/ GiveUp(p) PROVE FALSE
      BY <2>1, <2>4 DEF Send, SendFails, GiveUp
    <2>5. ASSUME NEW p \in Publishers, Confirm(p) \/ Retry(p)
          PROVE  /\ held[p] = e /\ token[p] = rows[e].attempts
                 /\ pc[p] \in {"confirm", "retry"}
      <3>1. pc[p] \in {"confirm", "retry"} BY <2>5 DEF Confirm, Retry
      <3>2. RowChanged(held[p], rows'[held[p]]) /\ (rows' = rows \/ Holds(p))
        BY <2>0, <2>5, <3>1, ReleasedRow
      <3>3. held[p] = e /\ Holds(p)
        BY <2>1, <3>2 DEF RowChanged
      <3> QED BY <1>1, <3>1, <3>3 DEF Holds, OutboxInv, RowInv
    <2>6. ASSUME NEW x \in Events, Passes(x) PROVE FALSE
      BY <2>0, <2>6, PassedRow DEF RowChanged
    <2>7. ASSUME UNCHANGED vars PROVE FALSE
      BY <2>1, <2>7 DEF vars
    <2> QED BY <1>1, <2>2, <2>3, <2>4, <2>5, <2>6, <2>7, StepShape
  <1>2. OutboxInv /\ [Next]_vars => [A]_vars
    BY <1>1, StepsOfBoth
  <1> HIDE DEF A
  <1>3. Spec => [][A]_vars
    BY <1>2, OutboxSafety, PTL DEF Spec
  <1> QED BY <1>3 DEF A, LatestClaimDecides

-----------------------------------------------------------------------------
(* The delivery                                                             *)

\* Every step of the outbox is a step of the delivery, or none.
LEMMA StepDelivers == OutboxInv /\ OutboxStep => [Delivery!Next]_(Delivery!vars)
  <1> SUFFICES ASSUME OutboxInv, OutboxStep PROVE [Delivery!Next]_(Delivery!vars) OBVIOUS
  <1>0. TypeOK BY DEF OutboxInv
  <1> DEFINE Delivered == {e \in Events : copies[e] > 0}
             Published == {e \in DOMAIN rows : rows[e].published}
  <1>a. ASSUME UNCHANGED copies, DOMAIN rows' = DOMAIN rows,
               \A e \in DOMAIN rows : rows'[e].published = rows[e].published
        PROVE  UNCHANGED Delivery!vars
    BY <1>a DEF Delivery!vars
  <1>1. ASSUME NEW e \in Events, Record(e) PROVE Delivery!Record(e)
    <2>1. /\ e \notin DOMAIN rows /\ DOMAIN rows' = DOMAIN rows \cup {e}
          /\ ~rows'[e].published /\ \A x \in DOMAIN rows : rows'[x] = rows[x]
          /\ UNCHANGED copies
      BY <1>1 DEF Record
    <2>2. Published' = Published BY <2>1
    <2> QED BY <2>1, <2>2 DEF Delivery!Record
  <1>2. ASSUME NEW p \in Publishers, NEW e \in Events, Claim(p, e) \/ ClaimReplyLost(p, e)
        PROVE  UNCHANGED Delivery!vars
    <2>1. rows' = Claimed(e) /\ Claimable(e) /\ UNCHANGED copies
      BY <1>2 DEF Claim, ClaimReplyLost
    <2>2. /\ e \in DOMAIN rows /\ RowChanged(e, rows'[e])
          /\ ~rows[e].published /\ ~rows'[e].published
          /\ rows \in [DOMAIN rows -> Row] /\ rows' \in [DOMAIN rows -> Row]
      BY <1>0, <2>1, ClaimedRow DEF TypeOK
    <2>3. rows'[e].published = rows[e].published
      BY <2>2 DEF Row
    <2> QED BY <1>a, <2>1, <2>2, <2>3 DEF RowChanged
  <1>3. ASSUME NEW p \in Publishers, Send(p) \/ SendFails(p)
        PROVE  \/ UNCHANGED Delivery!vars
               \/ \E e \in Events : Delivery!Deliver(e)
    <2>1. PICK e : e = held[p] OBVIOUS
    <2>2. e \in Events /\ e \in DOMAIN rows /\ UNCHANGED rows
      BY <1>0, <1>3, <2>1 DEF TypeOK, Send, SendFails
    <2>3. CASE UNCHANGED copies
      BY <2>2, <2>3 DEF Delivery!vars
    <2>4. CASE copies' = [copies EXCEPT ![e] = @ + 1]
      <3>1. copies'[e] > 0 /\ \A x \in Events : x # e => copies'[x] = copies[x]
        BY <1>0, <2>2, <2>4 DEF TypeOK
      <3>2. Delivered' = Delivered \cup {e}
        BY <2>2, <3>1
      <3> QED BY <2>2, <3>2 DEF Delivery!Deliver
    <2> QED BY <1>3, <2>1, <2>3, <2>4 DEF Send, SendFails
  <1>4. ASSUME NEW p \in Publishers, Confirm(p) \/ Retry(p) \/ GiveUp(p)
        PROVE  \/ UNCHANGED Delivery!vars
               \/ \E e \in Events : Delivery!Publish(e)
    <2>1. PICK e : e = held[p] OBVIOUS
    <2>2. pc[p] # "poll" /\ UNCHANGED copies
      BY <1>4 DEF Confirm, Retry, GiveUp
    <2>3. e \in Events /\ e \in DOMAIN rows
      BY <1>0, <2>1, <2>2 DEF TypeOK
    <2>4. CASE rows' = rows
      BY <2>2, <2>4 DEF Delivery!vars
    <2>5. CASE rows' # rows
      <3>1. Confirm(p) \/ Retry(p) BY <1>4, <2>5 DEF GiveUp
      <3>2. /\ RowChanged(e, rows'[e]) /\ Holds(p)
            /\ rows'[e].published <=> Confirm(p)
            /\ rows \in [DOMAIN rows -> Row] /\ rows' \in [DOMAIN rows -> Row]
        BY <1>0, <2>1, <2>2, <2>5, <3>1, ReleasedRow DEF TypeOK
      <3>3. CASE ~rows'[e].published
        <4>1. rows'[e].published = rows[e].published
          BY <2>1, <2>3, <3>2, <3>3 DEF Holds, Row
        <4> QED BY <1>a, <2>2, <3>2, <4>1 DEF RowChanged
      <3>4. CASE rows'[e].published
        <4>1. pc[p] = "confirm" BY <3>2, <3>4 DEF Confirm
        <4>2. e \in Delivered
          BY <2>1, <2>3, <4>1 DEF OutboxInv, WorkerInv
        <4>3. Published' = Published \cup {e}
          BY <2>3, <3>2, <3>4 DEF RowChanged
        <4> QED BY <2>2, <2>3, <3>2, <4>2, <4>3 DEF Delivery!Publish, RowChanged
      <3> QED BY <3>3, <3>4
    <2> QED BY <2>4, <2>5
  <1>5. ASSUME NEW e \in Events, Passes(e) PROVE UNCHANGED Delivery!vars
    <2>1. UNCHANGED copies
      BY <1>5 DEF Passes, BecomeDue, LeaseExpires, LeaseExpiresEarly
    <2> QED BY <1>0, <1>5, <1>a, <2>1, PassedRow DEF RowChanged
  <1>6. ASSUME UNCHANGED vars PROVE UNCHANGED Delivery!vars
    BY <1>6 DEF vars, Delivery!vars
  <1> QED BY <1>1, <1>2, <1>3, <1>4, <1>5, <1>6, StepShape DEF Delivery!Next

\* The safety part of DeliversEveryEvent: the workers implement EventDelivery, in which
\* an event is delivered only when recorded, published only when delivered, and
\* neither is ever taken back.
THEOREM PublishersImplementDelivery == Spec => Delivery!Spec
  <1>1. Init => Delivery!Init
    BY DEF Init, Delivery!Init
  <1> QED BY <1>1, OutboxSafety, StepDelivers, StepsOfBoth, PTL DEF Spec, Delivery!Spec

-----------------------------------------------------------------------------
(* Copies                                                                   *)

\* An event whose attempts and copies have not changed, and which no more workers are
\* about to send.
LEMMA CopiesQuiet ==
    ASSUME OutboxInv, CopyInv, OutboxGrows, NEW e \in Events, e \in DOMAIN rows,
           Senders(e)' \subseteq Senders(e), copies'[e] = copies[e],
           OutboxInv'
    PROVE  /\ IsFiniteSet(Senders(e)')
           /\ copies'[e] + Cardinality(Senders(e)') <= rows'[e].attempts
  <1>1. /\ IsFiniteSet(Senders(e)) /\ copies[e] + Cardinality(Senders(e)) <= rows[e].attempts
    BY DEF CopyInv
  <1>2. IsFiniteSet(Senders(e)') /\ Cardinality(Senders(e)') <= Cardinality(Senders(e))
    BY <1>1, FS_Subset
  <1>3. Cardinality(Senders(e)) \in Nat /\ Cardinality(Senders(e)') \in Nat
    BY <1>1, <1>2, FS_CardinalityType
  <1>4. /\ e \in DOMAIN rows' /\ rows'[e].attempts >= rows[e].attempts
    BY DEF OutboxGrows
  <1>5. copies[e] \in Nat /\ rows[e].attempts \in Nat /\ rows'[e].attempts \in Nat
    BY <1>4 DEF OutboxInv, TypeOK, Row
  <1> QED BY <1>1, <1>2, <1>3, <1>4, <1>5

\* An event that is not recorded is nobody's.
LEMMA UnrecordedIsNobodys ==
    ASSUME TypeOK, NEW e, e \notin DOMAIN rows PROVE Senders(e) = {}
  BY DEF TypeOK, Senders

\* Each attempt sends its event at most once.
LEMMA StepCopies == OutboxInv /\ CopyInv /\ OutboxStep => CopyInv'
  <1> SUFFICES ASSUME OutboxInv, CopyInv, OutboxStep, NEW e \in Events
               PROVE  /\ IsFiniteSet(Senders(e)')
                      /\ IF e \in DOMAIN rows'
                         THEN copies'[e] + Cardinality(Senders(e)') <= rows'[e].attempts
                         ELSE copies'[e] = 0 /\ Senders(e)' = {}
    BY DEF CopyInv
  <1>0. OutboxInv' /\ OutboxGrows /\ TypeOK /\ TypeOK'
    BY StepKeeps DEF OutboxInv
  <1>a. IsFiniteSet({}) /\ Cardinality({}) = 0
    BY FS_EmptySet
  <1>b. CASE /\ e \in DOMAIN rows /\ Senders(e)' \subseteq Senders(e) /\ copies'[e] = copies[e]
    BY <1>0, <1>b, CopiesQuiet DEF OutboxGrows
  <1>c. CASE e \notin DOMAIN rows'
    <2>1. e \notin DOMAIN rows BY <1>0, <1>c DEF OutboxGrows
    <2>2. Senders(e)' = {} BY <1>0, <1>c DEF TypeOK, Senders
    <2>3. copies'[e] = copies[e]
      <3>1. ASSUME NEW p \in Publishers, pc[p] # "poll" PROVE held[p] # e
        BY <1>0, <2>1, <3>1 DEF TypeOK
      <3>2. ASSUME NEW p \in Publishers, Send(p) \/ SendFails(p) PROVE copies'[e] = copies[e]
        BY <1>0, <3>1, <3>2 DEF Send, SendFails, TypeOK
      <3> QED BY <3>2, StepShape
          DEF Record, Claim, ClaimReplyLost, Confirm, Retry, GiveUp, Passes, BecomeDue,
              LeaseExpires, LeaseExpiresEarly, vars
    <2> QED BY <1>a, <1>c, <2>1, <2>2, <2>3 DEF CopyInv
  <1>1. ASSUME NEW x \in Events, Record(x), e \in DOMAIN rows'
        PROVE  copies'[e] + Cardinality(Senders(e)') <= rows'[e].attempts
               /\ IsFiniteSet(Senders(e)')
    <2>1. UNCHANGED <<copies, pc, held>> /\ DOMAIN rows' = DOMAIN rows \cup {x}
          /\ x \notin DOMAIN rows /\ rows'[x].attempts = 0
      BY <1>1 DEF Record
    <2>2. Senders(e)' = Senders(e) BY <2>1 DEF Senders
    <2>3. CASE e = x
      BY <1>a, <2>1, <2>2, <2>3, UnrecordedIsNobodys, <1>0 DEF CopyInv
    <2>4. CASE e # x
      BY <1>0, <1>1, <2>1, <2>2, <2>4, CopiesQuiet
    <2> QED BY <2>3, <2>4
  <1>2. ASSUME NEW p \in Publishers, NEW x \in Events, Claim(p, x) \/ ClaimReplyLost(p, x),
               e \in DOMAIN rows'
        PROVE  copies'[e] + Cardinality(Senders(e)') <= rows'[e].attempts
               /\ IsFiniteSet(Senders(e)')
    <2>1. rows' = Claimed(x) /\ Claimable(x) /\ UNCHANGED copies /\ pc[p] = "poll"
      BY <1>2 DEF Claim, ClaimReplyLost
    <2>2. /\ x \in DOMAIN rows /\ RowChanged(x, rows'[x])
          /\ rows'[x].attempts = rows[x].attempts + 1
      BY <1>0, <2>1, ClaimedRow
    <2>3. e \in DOMAIN rows BY <1>2, <2>2 DEF RowChanged
    <2>4. CASE Senders(e)' \subseteq Senders(e)
      BY <1>0, <2>1, <2>3, <2>4, CopiesQuiet
    <2>5. CASE e = x /\ Senders(e)' \subseteq Senders(e) \cup {p}
      <3>1. /\ IsFiniteSet(Senders(e))
            /\ copies[e] + Cardinality(Senders(e)) <= rows[e].attempts
        BY <2>3 DEF CopyInv
      <3>a. Cardinality(Senders(e)) \in Nat
        BY <3>1, FS_CardinalityType
      <3>b. /\ IsFiniteSet(Senders(e) \cup {p})
            /\ Cardinality(Senders(e) \cup {p}) =
                  IF p \in Senders(e) THEN Cardinality(Senders(e)) ELSE Cardinality(Senders(e)) + 1
        BY <3>1, FS_AddElement
      <3>2. /\ IsFiniteSet(Senders(e) \cup {p}) /\ Cardinality(Senders(e)) \in Nat
            /\ Cardinality(Senders(e) \cup {p}) <= Cardinality(Senders(e)) + 1
        BY <3>a, <3>b
      <3>3. /\ IsFiniteSet(Senders(e)')
            /\ Cardinality(Senders(e)') <= Cardinality(Senders(e) \cup {p})
        BY <2>5, <3>2, FS_Subset
      <3>4. /\ Cardinality(Senders(e)') \in Nat /\ Cardinality(Senders(e) \cup {p}) \in Nat
        BY <3>2, <3>3, FS_CardinalityType
      <3>5. copies[e] \in Nat /\ rows[e].attempts \in Nat
        BY <1>0, <2>3 DEF TypeOK, Row
      <3> QED BY <2>1, <2>2, <2>5, <3>1, <3>2, <3>3, <3>4, <3>5
    <2>6. IF e = x THEN Senders(e)' \subseteq Senders(e) \cup {p}
          ELSE Senders(e)' \subseteq Senders(e)
      BY <1>0, <1>2 DEF Claim, ClaimReplyLost, Senders, TypeOK
    <2> QED BY <2>4, <2>5, <2>6
  <1>3. ASSUME NEW p \in Publishers, Send(p) \/ SendFails(p), e \in DOMAIN rows'
        PROVE  copies'[e] + Cardinality(Senders(e)') <= rows'[e].attempts
               /\ IsFiniteSet(Senders(e)')
    <2>1. /\ UNCHANGED <<rows, held>> /\ pc[p] = "publish" /\ e \in DOMAIN rows
          /\ pc'[p] # "publish" /\ \A q \in Publishers \ {p} : pc'[q] = pc[q]
      BY <1>0, <1>3 DEF Send, SendFails, TypeOK
    <2>2. Senders(e)' = Senders(e) \ {p}
      BY <2>1 DEF Senders
    <2>3. CASE copies'[e] = copies[e]
      BY <1>0, <2>1, <2>2, <2>3, CopiesQuiet
    <2>4. CASE copies'[e] # copies[e]
      <3>1. e = held[p] /\ copies'[e] = copies[e] + 1
        BY <1>0, <1>3, <2>4 DEF Send, SendFails, TypeOK
      <3>2. p \in Senders(e) BY <2>1, <3>1 DEF Senders
      <3>3. /\ IsFiniteSet(Senders(e)) /\ Cardinality(Senders(e)) \in Nat
            /\ copies[e] + Cardinality(Senders(e)) <= rows[e].attempts
        BY <2>1, FS_CardinalityType DEF CopyInv
      <3>4. /\ IsFiniteSet(Senders(e) \ {p})
            /\ Cardinality(Senders(e) \ {p}) = Cardinality(Senders(e)) - 1
        BY <3>2, <3>3, FS_RemoveElement
      <3>5. copies[e] \in Nat /\ rows[e].attempts \in Nat
        BY <1>0, <2>1 DEF TypeOK, Row
      <3> QED BY <2>1, <2>2, <3>1, <3>3, <3>4, <3>5
    <2> QED BY <2>3, <2>4
  <1>4. ASSUME NEW p \in Publishers, Confirm(p) \/ Retry(p) \/ GiveUp(p), e \in DOMAIN rows'
        PROVE  /\ e \in DOMAIN rows /\ Senders(e)' \subseteq Senders(e)
               /\ copies'[e] = copies[e]
    <2>1. /\ pc[p] # "poll" /\ Return(p) /\ UNCHANGED copies
      BY <1>4 DEF Confirm, Retry, GiveUp
    <2>2. DOMAIN rows' = DOMAIN rows
      BY <1>0, <1>4, <2>1, ReleasedRow DEF GiveUp, RowChanged
    <2> QED BY <1>0, <1>4, <2>1, <2>2 DEF Return, Senders, TypeOK
  <1>5. ASSUME NEW x \in Events, Passes(x), e \in DOMAIN rows'
        PROVE  /\ e \in DOMAIN rows /\ Senders(e)' \subseteq Senders(e)
               /\ copies'[e] = copies[e]
    <2>1. UNCHANGED <<copies, pc, held>>
      BY <1>5 DEF Passes, BecomeDue, LeaseExpires, LeaseExpiresEarly
    <2> QED BY <1>0, <1>5, <2>1, PassedRow DEF RowChanged, Senders
  <1>6. ASSUME UNCHANGED vars, e \in DOMAIN rows'
        PROVE  /\ e \in DOMAIN rows /\ Senders(e)' \subseteq Senders(e)
               /\ copies'[e] = copies[e]
    BY <1>6 DEF vars, Senders
  <1> QED BY <1>b, <1>c, <1>1, <1>2, <1>3, <1>4, <1>5, <1>6, StepShape

-----------------------------------------------------------------------------
(* Failures                                                                 *)

\* A lease that is live is named by the latest attempt, at an event not yet published.
LEMMA LiveLease ==
    ASSUME OutboxInv, NEW e \in DOMAIN rows, rows[e].lease = "live"
    PROVE  rows[e].token = rows[e].attempts /\ ~rows[e].published
  BY DEF OutboxInv, RowInv

\* Nothing comes to nothing without a failure: a step without one spoils no attempt,
\* and a failure at most one.
LEMMA SpoilsAtMostOne ==
    ASSUME OutboxInv, OutboxStep
    PROVE  \/ /\ faults' = faults
              /\ \A e \in Events, n \in Nat : Fruitless(e, n)' => Fruitless(e, n)
           \/ /\ faults' = faults + 1
              /\ \E x, k : \A e \in Events, n \in Nat :
                    Fruitless(e, n)' => Fruitless(e, n) \/ (e = x /\ n = k)
  <1>0. TypeOK BY DEF OutboxInv
  <1>a. \A e \in DOMAIN rows : rows[e].attempts \in Nat
    BY <1>0 DEF TypeOK, Row
  <1>b. ASSUME NEW e \in DOMAIN rows, NEW n \in Nat, rows'[e] = rows[e],
               GoesWell(e) => GoesWell(e)', Fruitless(e, n)'
        PROVE  Fruitless(e, n)
    BY <1>b DEF Fruitless
  <1>1. ASSUME NEW x \in Events, Record(x), NEW e \in Events, NEW n \in Nat,
               Fruitless(e, n)'
        PROVE  Fruitless(e, n)
    <2>1. /\ x \notin DOMAIN rows /\ DOMAIN rows' = DOMAIN rows \cup {x}
          /\ rows'[x].attempts = 0 /\ \A y \in DOMAIN rows : rows'[y] = rows[y]
          /\ UNCHANGED <<pc, held, token>>
      BY <1>1 DEF Record
    <2>2. e # x /\ e \in DOMAIN rows
      BY <1>1, <2>1 DEF Fruitless
    <2> QED BY <1>1, <1>b, <2>1, <2>2 DEF GoesWell
  <1>2. ASSUME NEW p \in Publishers, NEW x \in Events, Claim(p, x) \/ ClaimReplyLost(p, x),
               NEW e \in Events, NEW n \in Nat, Fruitless(e, n)'
        PROVE  \/ Fruitless(e, n)
               \/ ClaimReplyLost(p, x) /\ e = x /\ n = rows[x].attempts + 1
    <2>1. rows' = Claimed(x) /\ Claimable(x) /\ pc[p] = "poll"
      BY <1>2 DEF Claim, ClaimReplyLost
    <2>2. /\ x \in DOMAIN rows /\ ~rows[x].published /\ rows[x].lease # "live"
          /\ RowChanged(x, rows'[x]) /\ rows'[x].lease = "live"
          /\ rows'[x].attempts = rows[x].attempts + 1
      BY <1>0, <2>1, ClaimedRow
    <2>3. CASE e = x
      <3>1. n > 0 /\ n <= rows[x].attempts + 1
        BY <1>2, <2>2, <2>3 DEF Fruitless
      <3>2. n <= rows[x].attempts => Fruitless(e, n)
        BY <2>2, <2>3, <3>1 DEF Fruitless, GoesWell
      <3>3. Claim(p, x) => GoesWell(x)'
        <4> SUFFICES ASSUME Claim(p, x) PROVE GoesWell(x)' OBVIOUS
        <4>1. /\ pc'[p] = "publish" /\ held'[p] = x
              /\ token'[p] = rows[x].attempts + 1
          BY <1>0 DEF Claim, TypeOK
        <4> QED BY <2>2, <4>1 DEF GoesWell
      <3>4. Claim(p, x) => n # rows[x].attempts + 1
        BY <1>2, <2>2, <2>3, <3>3 DEF Fruitless
      <3> QED BY <1>2, <1>a, <2>2, <2>3, <3>1, <3>2, <3>4
    <2>4. CASE e # x
      <3>1. e \in DOMAIN rows /\ rows'[e] = rows[e]
        BY <1>2, <2>2, <2>4 DEF Fruitless, RowChanged
      <3>2. \A q \in Publishers \ {p} : pc'[q] = pc[q] /\ held'[q] = held[q] /\ token'[q] = token[q]
        BY <1>0, <1>2 DEF Claim, ClaimReplyLost, TypeOK
      <3>3. GoesWell(e) => GoesWell(e)'
        BY <2>1, <3>1, <3>2 DEF GoesWell
      <3> QED BY <1>2, <1>b, <3>1, <3>3
    <2> QED BY <2>3, <2>4
  <1>3. ASSUME NEW p \in Publishers, Send(p), NEW e \in Events, NEW n \in Nat,
               Fruitless(e, n)'
        PROVE  Fruitless(e, n)
    <2>1. /\ UNCHANGED <<rows, held, token>> /\ pc'[p] = "confirm"
          /\ \A q \in Publishers \ {p} : pc'[q] = pc[q]
      BY <1>0, <1>3 DEF Send, TypeOK
    <2>2. GoesWell(e) => GoesWell(e)'
      BY <2>1 DEF GoesWell
    <2>3. e \in DOMAIN rows /\ rows'[e] = rows[e]
      BY <1>3, <2>1 DEF Fruitless
    <2> QED BY <1>3, <1>b, <2>2, <2>3
  <1>4. ASSUME NEW p \in Publishers, SendFails(p) \/ GiveUp(p),
               NEW e \in Events, NEW n \in Nat, Fruitless(e, n)'
        PROVE  Fruitless(e, n) \/ (e = held[p] /\ n = token[p])
    <2>1. /\ UNCHANGED rows
          /\ \A q \in Publishers \ {p} : pc'[q] = pc[q] /\ held'[q] = held[q] /\ token'[q] = token[q]
      BY <1>0, <1>4 DEF SendFails, GiveUp, Return, TypeOK
    <2>2. SUFFICES ASSUME ~(e = held[p] /\ n = token[p]) PROVE Fruitless(e, n)
      OBVIOUS
    <2>3. n = rows[e].attempts /\ GoesWell(e) => GoesWell(e)'
      BY <2>1, <2>2 DEF GoesWell
    <2> QED BY <1>4, <2>1, <2>3 DEF Fruitless
  <1>5. ASSUME NEW p \in Publishers, Confirm(p) \/ Retry(p),
               NEW e \in Events, NEW n \in Nat, Fruitless(e, n)'
        PROVE  Fruitless(e, n)
    <2>0. pc[p] \in {"confirm", "retry"} /\ Return(p)
      BY <1>5 DEF Confirm, Retry
    <2>1. /\ held[p] \in DOMAIN rows /\ RowChanged(held[p], rows'[held[p]])
          /\ rows'[held[p]].attempts = rows[held[p]].attempts
          /\ \/ rows' = rows /\ ~Holds(p)
             \/ Holds(p) /\ (rows'[held[p]].published <=> Confirm(p))
      BY <1>0, <1>5, <2>0, ReleasedRow
    <2>2. \A q \in Publishers \ {p} : pc'[q] = pc[q] /\ held'[q] = held[q] /\ token'[q] = token[q]
      BY <1>0, <2>0 DEF Return, TypeOK
    <2>3. e \in DOMAIN rows
      BY <1>5, <2>1 DEF Fruitless, RowChanged
    <2>4. CASE e # held[p]
      <3>1. rows'[e] = rows[e] BY <2>1, <2>3, <2>4 DEF RowChanged
      <3>2. GoesWell(e) => GoesWell(e)'
        BY <2>2, <2>4, <3>1 DEF GoesWell
      <3> QED BY <1>5, <1>b, <2>3, <3>1, <3>2
    <2>5. CASE e = held[p] /\ ~Holds(p)
      <3>1. rows' = rows BY <2>1, <2>5
      <3>2. ASSUME GoesWell(e) PROVE GoesWell(e)'
        <4>1. PICK q \in Publishers : /\ held[q] = e /\ token[q] = rows[e].attempts
                                      /\ pc[q] \in {"publish", "confirm"}
          BY <3>2 DEF GoesWell
        <4>2. rows[e].lease = "live" BY <3>2 DEF GoesWell
        <4>3. rows[e].token = rows[e].attempts /\ ~rows[e].published
          BY <2>3, <4>2, LiveLease
        <4>4. q # p BY <2>5, <4>1, <4>3 DEF Holds
        <4> QED BY <2>2, <3>1, <4>1, <4>2, <4>4 DEF GoesWell
      <3> QED BY <1>5, <1>b, <2>3, <3>1, <3>2
    <2>6. CASE e = held[p] /\ Holds(p) /\ Confirm(p)
      <3>1. rows'[e].published BY <2>1, <2>6
      <3>2. n > 0 /\ n <= rows[e].attempts /\ n # rows[e].attempts
        BY <1>5, <2>1, <2>6, <3>1 DEF Fruitless
      <3> QED BY <2>3, <3>2 DEF Fruitless
    <2>7. CASE e = held[p] /\ Holds(p) /\ Retry(p)
      <3>1. pc[p] = "retry" /\ ~rows[e].published /\ rows[e].token = token[p] /\ token[p] > 0
        BY <1>0, <2>7 DEF Retry, Holds, TypeOK
      <3>2. rows[e].token = rows[e].attempts
        BY <1>0, <2>3, <3>1 DEF OutboxInv, RowInv, TypeOK
      <3>3. ~GoesWell(e)
        <4> SUFFICES ASSUME NEW q \in Publishers, held[q] = e, token[q] = rows[e].attempts,
                            pc[q] \in {"publish", "confirm"}
                     PROVE  FALSE
          BY DEF GoesWell
        <4>1. q # p /\ token[q] = token[p] /\ held[q] = held[p] BY <2>7, <3>1, <3>2
        <4> QED BY <2>0, <4>1 DEF OutboxInv, AttemptsApart
      <3>4. n > 0 /\ n <= rows[e].attempts
        BY <1>5, <2>1, <2>7 DEF Fruitless
      <3> QED BY <2>3, <3>1, <3>3, <3>4 DEF Fruitless
    <2> QED BY <1>5, <2>4, <2>5, <2>6, <2>7
  <1>6. ASSUME NEW x \in Events, Passes(x), NEW e \in Events, NEW n \in Nat, Fruitless(e, n)'
        PROVE  \/ Fruitless(e, n)
               \/ LeaseExpiresEarly(x) /\ e = x /\ n = rows[x].attempts
    <2>0. UNCHANGED <<pc, held, token>>
      BY <1>6 DEF Passes, BecomeDue, LeaseExpires, LeaseExpiresEarly
    <2>1. /\ x \in DOMAIN rows /\ RowChanged(x, rows'[x])
          /\ rows'[x].published = rows[x].published /\ rows'[x].attempts = rows[x].attempts
          /\ IF BecomeDue(x) THEN rows[x].lease = "free" /\ rows'[x].lease = "free"
             ELSE rows[x].lease = "live" /\ rows'[x].lease = "over"
      BY <1>0, <1>6, PassedRow
    <2>2. e \in DOMAIN rows BY <1>6, <2>1 DEF Fruitless, RowChanged
    <2>3. CASE e # x
      BY <1>6, <1>b, <2>0, <2>1, <2>2, <2>3 DEF RowChanged, GoesWell
    <2>4. CASE e = x /\ BecomeDue(x)
      <3>1. ~GoesWell(e) BY <2>1, <2>4 DEF GoesWell
      <3> QED BY <1>6, <2>1, <2>2, <2>4, <3>1 DEF Fruitless
    <2>5. CASE e = x /\ LeaseExpires(x)
      <3>1. rows[x].lease = "live" /\ ~InProgress(x)
        BY <2>5 DEF LeaseExpires
      <3>2. rows[x].token = rows[x].attempts BY <2>1, <3>1, LiveLease
      <3>3. ~GoesWell(e) BY <2>5, <3>1, <3>2 DEF GoesWell, InProgress
      <3> QED BY <1>6, <2>1, <2>2, <2>5, <3>3 DEF Fruitless
    <2>6. CASE e = x /\ LeaseExpiresEarly(x)
      BY <1>6, <2>1, <2>2, <2>6 DEF Fruitless
    <2> QED BY <1>6, <2>3, <2>4, <2>5, <2>6 DEF Passes
  <1>7. ASSUME UNCHANGED vars, NEW e \in Events, NEW n \in Nat, Fruitless(e, n)'
        PROVE  Fruitless(e, n)
    BY <1>7 DEF vars, Fruitless, GoesWell
  <1>8. /\ (\E e \in Events : Record(e)) => faults' = faults
        /\ \A p \in Publishers : Send(p) \/ Confirm(p) \/ Retry(p) => faults' = faults
        /\ \A p \in Publishers : SendFails(p) \/ GiveUp(p) => faults' = faults + 1
        /\ \A p \in Publishers, e \in Events : Claim(p, e) => faults' = faults
        /\ \A p \in Publishers, e \in Events : ClaimReplyLost(p, e) => faults' = faults + 1
        /\ \A e \in Events : BecomeDue(e) \/ LeaseExpires(e) => faults' = faults
        /\ \A e \in Events : LeaseExpiresEarly(e) => faults' = faults + 1
        /\ UNCHANGED vars => faults' = faults
    BY DEF Record, Send, Confirm, Retry, SendFails, GiveUp, Claim, ClaimReplyLost, BecomeDue,
           LeaseExpires, LeaseExpiresEarly, Fault, vars
  <1>9. ASSUME NEW p \in Publishers, NEW e \in Events, ClaimReplyLost(p, e)
        PROVE  ~Claim(p, e)
    BY <1>0, <1>9 DEF ClaimReplyLost, Claim, TypeOK
  <1> DEFINE Quiet == /\ faults' = faults
                      /\ \A e \in Events, n \in Nat : Fruitless(e, n)' => Fruitless(e, n)
             Spoils(x, k) == /\ faults' = faults + 1
                             /\ \A e \in Events, n \in Nat :
                                   Fruitless(e, n)' => Fruitless(e, n) \/ (e = x /\ n = k)
  <1> SUFFICES Quiet \/ \E x, k : Spoils(x, k) OBVIOUS
  <1>10. ASSUME NEW p \in Publishers, NEW e \in Events, Claim(p, e) PROVE Quiet
    BY <1>2, <1>8, <1>9, <1>10
  <1>11. ASSUME NEW p \in Publishers, NEW e \in Events, ClaimReplyLost(p, e)
         PROVE  Spoils(e, rows[e].attempts + 1)
    BY <1>2, <1>8, <1>11
  <1>12. ASSUME NEW p \in Publishers, SendFails(p) \/ GiveUp(p)
         PROVE  Spoils(held[p], token[p])
    BY <1>4, <1>8, <1>12
  <1>13. ASSUME NEW e \in Events, LeaseExpiresEarly(e) PROVE Spoils(e, rows[e].attempts)
    BY <1>6, <1>8, <1>13 DEF Passes
  <1>14. ASSUME NEW e \in Events, BecomeDue(e) \/ LeaseExpires(e) PROVE Quiet
    <2>1. ~LeaseExpiresEarly(e)
      BY <1>14 DEF BecomeDue, LeaseExpires, LeaseExpiresEarly
    <2> QED BY <1>6, <1>8, <1>14, <2>1 DEF Passes
  <1>15. ASSUME NEW p \in Publishers, Send(p) \/ Confirm(p) \/ Retry(p) PROVE Quiet
    BY <1>3, <1>5, <1>8, <1>15
  <1>16. ASSUME NEW e \in Events, Record(e) PROVE Quiet
    BY <1>1, <1>8, <1>16
  <1>17. ASSUME UNCHANGED vars PROVE Quiet
    BY <1>7, <1>8, <1>17
  <1> HIDE DEF Quiet, Spoils
  <1> QED BY <1>10, <1>11, <1>12, <1>13, <1>14, <1>15, <1>16, <1>17, StepShape DEF Passes

\* Each wasted attempt has its failure.
LEMMA StepWaste == OutboxInv /\ WasteInv /\ OutboxStep => WasteInv'
  <1> SUFFICES ASSUME OutboxInv, WasteInv, OutboxStep PROVE WasteInv' OBVIOUS
  <1>0. /\ IsFiniteSet(Wasted) /\ Cardinality(Wasted) <= faults /\ faults \in Nat
    BY PublisherAssumption DEF WasteInv, OutboxInv, TypeOK
  <1>1. Cardinality(Wasted) \in Nat BY <1>0, FS_CardinalityType
  <1>2. CASE /\ faults' = faults
             /\ \A e \in Events, n \in Nat : Fruitless(e, n)' => Fruitless(e, n)
    <2>1. Wasted' \subseteq Wasted BY <1>2 DEF Wasted
    <2>2. IsFiniteSet(Wasted') /\ Cardinality(Wasted') <= Cardinality(Wasted)
      BY <1>0, <2>1, FS_Subset
    <2>3. Cardinality(Wasted') \in Nat BY <2>2, FS_CardinalityType
    <2> QED BY <1>0, <1>1, <1>2, <2>2, <2>3 DEF WasteInv
  <1>3. CASE /\ faults' = faults + 1
             /\ \E x, k : \A e \in Events, n \in Nat :
                   Fruitless(e, n)' => Fruitless(e, n) \/ (e = x /\ n = k)
    <2>1. PICK x, k : \A e \in Events, n \in Nat :
                         Fruitless(e, n)' => Fruitless(e, n) \/ (e = x /\ n = k)
      BY <1>3
    <2>2. Wasted' \subseteq Wasted \cup {<<x, k>>} BY <2>1 DEF Wasted
    <2>3. /\ IsFiniteSet(Wasted \cup {<<x, k>>})
          /\ Cardinality(Wasted \cup {<<x, k>>}) =
                IF <<x, k>> \in Wasted THEN Cardinality(Wasted) ELSE Cardinality(Wasted) + 1
      BY <1>0, FS_AddElement
    <2>4. /\ IsFiniteSet(Wasted')
          /\ Cardinality(Wasted') <= Cardinality(Wasted \cup {<<x, k>>})
      BY <2>2, <2>3, FS_Subset
    <2>5. Cardinality(Wasted') \in Nat BY <2>4, FS_CardinalityType
    <2> QED BY <1>0, <1>1, <1>3, <2>3, <2>4, <2>5 DEF WasteInv
  <1> QED BY <1>2, <1>3, SpoilsAtMostOne

\* Nothing is sent or wasted at first.
LEMMA InitCopies == Init => CopyInv /\ WasteInv
  <1> SUFFICES ASSUME Init PROVE CopyInv /\ WasteInv OBVIOUS
  <1>1. \A e \in Events : Senders(e) = {} /\ copies[e] = 0 /\ e \notin DOMAIN rows
    BY DEF Init, Senders
  <1>2. Wasted = {} /\ faults = 0
    BY DEF Init, Wasted, Fruitless
  <1> QED BY <1>1, <1>2, FS_EmptySet DEF CopyInv, WasteInv

\* Each copy too many is of an attempt that followed a wasted one.
LEMMA ExtraCopiesWereWasted ==
    ASSUME OutboxInv, CopyInv, WasteInv PROVE ExtraCopiesNeedFailures
  <1> DEFINE extra(e) == IF copies[e] = 0 THEN {} ELSE {e} \X (2 .. copies[e])
             Extra == UNION {extra(e) : e \in Events}
             f == [x \in Extra |-> <<x[1], x[2] - 1>>]
  <1>1. ASSUME NEW x \in Extra
        PROVE  /\ x[1] \in Events /\ x[2] \in Nat /\ x = <<x[1], x[2]>>
               /\ x[2] >= 2 /\ x[2] <= copies[x[1]]
    <2>1. PICK e \in Events : x \in extra(e) OBVIOUS
    <2>2. copies[e] \in Nat BY DEF OutboxInv, TypeOK
    <2>3. x \in {e} \X (2 .. copies[e]) BY <2>1
    <2> QED BY <2>2, <2>3
  <1>2. ASSUME NEW x \in Extra PROVE <<x[1], x[2] - 1>> \in Wasted
    <2>1. PICK e, n : e = x[1] /\ n = x[2] OBVIOUS
    <2>2. e \in Events /\ n \in Nat /\ n >= 2 /\ n <= copies[e]
      BY <1>1, <2>1
    <2>3. copies[e] \in Nat BY <2>2 DEF OutboxInv, TypeOK
    <2>4. e \in DOMAIN rows BY <2>2, <2>3 DEF CopyInv
    <2>5. /\ IsFiniteSet(Senders(e))
          /\ copies[e] + Cardinality(Senders(e)) <= rows[e].attempts
      BY <2>2, <2>4 DEF CopyInv
    <2>6. Cardinality(Senders(e)) \in Nat /\ rows[e].attempts \in Nat
      BY <2>4, <2>5, FS_CardinalityType DEF OutboxInv, TypeOK, Row
    <2>7. n - 1 \in Nat /\ n - 1 > 0 /\ n - 1 < rows[e].attempts
      BY <2>2, <2>3, <2>5, <2>6
    <2>8. Fruitless(e, n - 1)
      BY <2>4, <2>6, <2>7 DEF Fruitless
    <2> QED BY <2>1, <2>2, <2>7, <2>8 DEF Wasted
  <1> HIDE DEF Extra
  <1>3. f \in Injection(Extra, Wasted)
    <2>1. f \in [Extra -> Wasted] BY <1>2
    <2>2. ASSUME NEW x \in Extra, NEW y \in Extra, f[x] = f[y] PROVE x = y
      <3>1. x[1] = y[1] /\ x[2] - 1 = y[2] - 1
        BY <2>2
      <3>2. x[2] \in Nat /\ y[2] \in Nat /\ x = <<x[1], x[2]>> /\ y = <<y[1], y[2]>>
        BY <1>1
      <3>3. x[2] = y[2] BY <3>1, <3>2
      <3> QED BY <3>1, <3>2, <3>3
    <2> QED BY <2>1, <2>2 DEF Injection, IsInjective
  <1>4. IsFiniteSet(Extra) /\ Cardinality(Extra) <= Cardinality(Wasted)
    BY <1>3, FS_Injection DEF WasteInv
  <1>5. Cardinality(Extra) \in Nat /\ Cardinality(Wasted) \in Nat /\ faults \in Nat
    BY <1>4, FS_CardinalityType, PublisherAssumption DEF WasteInv, OutboxInv, TypeOK
  <1>6. Cardinality(Extra) <= faults
    BY <1>4, <1>5 DEF WasteInv
  <1> QED BY <1>6 DEF Extra, ExtraCopiesNeedFailures

\* Over all events together there are no more copies too many than there were failures:
\* however the workers interleave, ProcessOne sends an event twice only when a send, a
\* statement, an answer, a process or a lease failed in between.
THEOREM ExtraCopiesAreFailures == Spec => []ExtraCopiesNeedFailures
  <1>1. Spec => [](CopyInv /\ WasteInv)
    BY InitCopies, OutboxSafety, StepCopies, StepWaste, StepsOfBoth, PTL DEF Spec
  <1> QED BY <1>1, OutboxSafety, ExtraCopiesWereWasted, PTL

-----------------------------------------------------------------------------
(* The events of a wallet                                                   *)

\* The publishers beside the movements of a wallet are the publishers.
LEMMA StreamPublishes == StreamSpec => Spec
  <1>1. StreamInit => Init BY DEF StreamInit
  <1>2. [StreamNext]_<<vars, streamVars>> => [Next]_vars BY StepsOfBoth
  <1> QED BY <1>1, <1>2, PTL DEF StreamSpec, Spec

\* A bounded set of numbers has a largest one.
LEMMA MaxExists ==
    ASSUME NEW n \in Nat, NEW S, S \subseteq 0 .. n, S # {}
    PROVE  Max(S) \in S /\ \A y \in S : y <= Max(S)
  <1> DEFINE T == {n - x : x \in S}
             R == OpToRel(<, Nat)
  <1>1. T \subseteq Nat /\ T # {} OBVIOUS
  <1>2. IsWellFoundedOn(R, Nat) BY NatLessThanWellFounded
  <1>3. \A x, y \in Nat : x < y => <<x, y>> \in R
    BY DEF OpToRel
  <1> HIDE DEF R
  <1>4. PICK m \in T : \A y \in T : ~(<<y, m>> \in R)
    BY <1>1, <1>2, WFMin
  <1>5. PICK x \in S : m = n - x OBVIOUS
  <1>6. \A y \in S : x >= y
    <2> SUFFICES ASSUME NEW y \in S, ~(x >= y) PROVE FALSE OBVIOUS
    <2>1. n - y \in T /\ n - y \in Nat /\ m \in Nat /\ n - y < m
      BY <1>5
    <2> QED BY <1>3, <1>4, <2>1
  <1>7. Max(S) \in S /\ \A y \in S : Max(S) >= y
    BY <1>6 DEF Max
  <1>8. S \subseteq Nat OBVIOUS
  <1> QED BY <1>7, <1>8

\* What each recorded event says is what the wallet was, and only the opening of an
\* empty wallet has no event.
StreamInv ==
    /\ balances \in Seq(Nat)
    /\ DOMAIN data = DOMAIN rows
    /\ \A e \in DOMAIN rows :
          /\ data[e].version \in 1 .. Len(balances)
          /\ data[e].after = balances[data[e].version]
          /\ data[e].before = IF data[e].version = 1 THEN 0
                              ELSE balances[data[e].version - 1]
    /\ \A v \in 1 .. Len(balances) :
          \/ v = 1 /\ balances[1] = 0
          \/ \E e \in DOMAIN rows : data[e].version = v

\* A commit of the wallet: one balance and one event more.
LEMMA StreamGrows ==
    ASSUME StreamInv, NEW e \in Events, NEW after \in Nat, NEW before,
           balances' = Append(balances, after),
           before = IF balances = <<>> THEN 0 ELSE balances[Len(balances)],
           Record(e), Says(e, BalanceChanged(Len(balances) + 1, before, after))
    PROVE  StreamInv'
  <1>1. PICK n \in Nat : n = Len(balances)
    BY DEF StreamInv
  <1>2. /\ balances' \in Seq(Nat) /\ Len(balances') = n + 1 /\ balances'[n + 1] = after
        /\ \A v \in 1 .. n : balances'[v] = balances[v]
        /\ n = 0 <=> balances = <<>>
    BY <1>1 DEF StreamInv
  <1>3. /\ DOMAIN rows' = DOMAIN rows \cup {e} /\ e \notin DOMAIN rows
        /\ DOMAIN data' = DOMAIN data \cup {e}
        /\ data'[e] = BalanceChanged(n + 1, before, after)
        /\ \A x \in DOMAIN data : x # e => data'[x] = data[x]
    BY <1>1 DEF Record, Says
  <1>4. /\ data'[e].version = n + 1 /\ data'[e].before = before /\ data'[e].after = after
    BY <1>3 DEF BalanceChanged
  <1>5. DOMAIN data' = DOMAIN rows' BY <1>3 DEF StreamInv
  <1>6. ASSUME NEW x \in DOMAIN rows'
        PROVE  /\ data'[x].version \in 1 .. n + 1
               /\ data'[x].after = balances'[data'[x].version]
               /\ data'[x].before = IF data'[x].version = 1 THEN 0
                                    ELSE balances'[data'[x].version - 1]
    <2>1. CASE x = e
      <3>1. n = 0 => before = 0 BY <1>2
      <3>2. n # 0 => before = balances'[n]
        BY <1>1, <1>2
      <3> QED BY <1>2, <1>4, <2>1, <3>1, <3>2
    <2>2. CASE x # e
      <3>1. x \in DOMAIN rows /\ data'[x] = data[x]
        BY <1>3, <2>2, <1>6 DEF StreamInv
      <3>2. PICK v \in 1 .. n : v = data[x].version
        BY <1>1, <3>1 DEF StreamInv
      <3>3. /\ data[x].after = balances[v]
            /\ data[x].before = IF v = 1 THEN 0 ELSE balances[v - 1]
        BY <3>1, <3>2 DEF StreamInv
      <3>4. v # 1 => v - 1 \in 1 .. n
        BY <3>2
      <3>5. v \in 1 .. n + 1 BY <3>2
      <3> QED BY <1>2, <3>1, <3>2, <3>3, <3>4, <3>5
    <2> QED BY <2>1, <2>2
  <1>7. ASSUME NEW v \in 1 .. n + 1
        PROVE  (v = 1 /\ balances'[1] = 0) \/ \E x \in DOMAIN rows' : data'[x].version = v
    <2>1. CASE v = n + 1 BY <1>3, <1>4, <2>1
    <2>2. CASE v # n + 1
      <3>1. v \in 1 .. n BY <2>2
      <3>2. CASE v = 1 /\ balances[1] = 0 BY <1>2, <3>1, <3>2
      <3>3. CASE \E x \in DOMAIN rows : data[x].version = v
        BY <1>3, <3>3 DEF StreamInv
      <3> QED BY <1>1, <3>1, <3>2, <3>3 DEF StreamInv
    <2> QED BY <2>1, <2>2
  <1> QED BY <1>2, <1>5, <1>6, <1>7 DEF StreamInv

\* Publishing records no event and forgets none.
LEMMA PublishRecordsNothing == OutboxInv /\ Publish => DOMAIN rows' = DOMAIN rows
  <1> SUFFICES ASSUME OutboxInv, Publish PROVE DOMAIN rows' = DOMAIN rows OBVIOUS
  <1>0. TypeOK BY DEF OutboxInv
  <1>1. ASSUME NEW p \in Publishers, NEW e \in Events, Claim(p, e) \/ ClaimReplyLost(p, e)
        PROVE  DOMAIN rows' = DOMAIN rows
    BY <1>0, <1>1, ClaimedRow DEF Claim, ClaimReplyLost, RowChanged
  <1>2. ASSUME NEW p \in Publishers, Confirm(p) \/ Retry(p)
        PROVE  DOMAIN rows' = DOMAIN rows
    BY <1>0, <1>2, ReleasedRow DEF Confirm, Retry, RowChanged
  <1>3. ASSUME NEW e \in Events, Passes(e) PROVE DOMAIN rows' = DOMAIN rows
    BY <1>0, <1>3, PassedRow DEF RowChanged
  <1> QED BY <1>1, <1>2, <1>3 DEF Publish, Work, Passes, Send, SendFails, GiveUp

\* Every step keeps what the events say true.
LEMMA NextStream ==
    OutboxInv /\ StreamInv /\ [StreamNext]_<<vars, streamVars>> => StreamInv'
  <1> SUFFICES ASSUME OutboxInv, StreamInv, [StreamNext]_<<vars, streamVars>>
               PROVE  StreamInv'
    OBVIOUS
  <1>1. CASE OpenEmpty
    <2>1. /\ balances = <<>> /\ balances' = <<0>> /\ UNCHANGED <<data, rows>>
      BY <1>1 DEF OpenEmpty, vars
    <2>2. DOMAIN rows = {} BY <2>1 DEF StreamInv
    <2>3. /\ balances' \in Seq(Nat) /\ Len(balances') = 1 /\ balances'[1] = 0
      BY <2>1
    <2> QED BY <2>1, <2>2, <2>3 DEF StreamInv
  <1>2. ASSUME NEW e \in Events, NEW amount \in Amounts, OpenFunded(e, amount)
        PROVE  StreamInv'
    <2>1. amount \in Nat BY StreamAssumption
    <2>2. balances = <<>> /\ balances' = Append(balances, amount) /\ Len(balances) = 0
      BY <1>2, <2>1 DEF OpenFunded
    <2> QED BY <1>2, <2>1, <2>2, StreamGrows DEF OpenFunded
  <1>3. ASSUME NEW e \in Events, NEW after, Move(e, after) PROVE StreamInv'
    <2>1. after \in Nat BY <1>3, StreamAssumption DEF Move
    <2>2. Len(balances) > 0 /\ balances # <<>> BY <1>3 DEF Move, StreamInv
    <2> QED BY <1>3, <2>1, <2>2, StreamGrows DEF Move
  <1>4. CASE Publish /\ UNCHANGED streamVars
    BY <1>4, PublishRecordsNothing DEF StreamInv, streamVars
  <1>5. CASE UNCHANGED <<rows, streamVars>>
    BY <1>5 DEF StreamInv, streamVars
  <1> QED BY <1>1, <1>2, <1>3, <1>4, <1>5 DEF StreamNext, Idle, vars

\* The invariant of the stream.
LEMMA StreamSafety == StreamSpec => [](OutboxInv /\ CopyInv /\ StreamInv)
  <1>1. StreamSpec => []OutboxInv BY StreamPublishes, OutboxSafety, PTL
  <1>2. StreamInit => Init /\ StreamInv
    BY DEF StreamInit, Init, StreamInv
  <1>3. [StreamNext]_<<vars, streamVars>> => OutboxStep BY StepsOfBoth
  <1> QED BY <1>1, <1>2, <1>3, InitCopies, StepCopies, NextStream, PTL DEF StreamSpec

\* What was received was recorded, and there is a last version.
LEMMA ReceivedMeans ==
    ASSUME OutboxInv, CopyInv, StreamInv, Received # {}
    PROVE  /\ Received \subseteq DOMAIN rows
           /\ Versions \subseteq 1 .. Len(balances)
           /\ Max(Versions) \in Versions /\ \A v \in Versions : v <= Max(Versions)
  <1>1. Received \subseteq DOMAIN rows BY DEF Received, CopyInv
  <1>2. Versions \subseteq 1 .. Len(balances)
    BY <1>1 DEF Versions, StreamInv
  <1>3. PICK n \in Nat : n = Len(balances) BY DEF StreamInv
  <1>4. Versions \subseteq 0 .. n BY <1>2, <1>3
  <1>5. Versions # {} BY DEF Versions
  <1> QED BY <1>1, <1>2, <1>3, <1>4, <1>5, MaxExists

\* A recorded event that did not arrive is one that Confirm has not marked.
LEMMA UnsentIsOwed ==
    ASSUME OutboxInv, NEW e \in DOMAIN rows, e \notin Received
    PROVE  Owed(data[e].version)
  <1>1. e \in Events /\ copies[e] \in Nat BY DEF OutboxInv, TypeOK
  <1>2. ~(copies[e] > 0) BY <1>1 DEF Received
  <1>3. ~rows[e].published BY <1>2 DEF OutboxInv, RowInv
  <1> QED BY <1>3 DEF Owed

\* A version that a consumer misses is of an event that Confirm has not marked: the
\* workers will send it, so no gap is for good.
THEOREM GapsWillBeFilled == StreamSpec => []GapsAreOwed
  <1>1. ASSUME OutboxInv, CopyInv, StreamInv PROVE GapsAreOwed
    <2> SUFFICES ASSUME Received # {}, NEW v \in Missing
                 PROVE  Owed(v)
      BY DEF GapsAreOwed
    <2>1. /\ Received \subseteq DOMAIN rows /\ Versions \subseteq 1 .. Len(balances)
          /\ Max(Versions) \in Versions
      BY <1>1, ReceivedMeans
    <2>2. Len(balances) \in Nat BY <1>1 DEF StreamInv
    <2>3. v \notin Versions BY DEF Missing
    <2>4. \E e \in DOMAIN rows : data[e].version = v
      <3>1. CASE v \in 2 .. Max(Versions)
        <4>0. Max(Versions) \in 1 .. Len(balances) BY <2>1
        <4>1. v \in 1 .. Len(balances) /\ v # 1 BY <2>2, <3>1, <4>0
        <4> QED BY <1>1, <4>1 DEF StreamInv
      <3>2. CASE v = 1 /\ \E e \in Received : data[e].version = 2 /\ data[e].before > 0
        <4>1. PICK e \in Received : data[e].version = 2 /\ data[e].before > 0 BY <3>2
        <4>2. 2 \in 1 .. Len(balances) /\ data[e].before = balances[1]
          BY <1>1, <2>1, <4>1 DEF StreamInv
        <4>3. 1 \in 1 .. Len(balances) /\ balances[1] # 0
          BY <2>2, <4>1, <4>2
        <4> QED BY <1>1, <3>2, <4>3 DEF StreamInv
      <3> QED BY <3>1, <3>2 DEF Missing
    <2>5. PICK e \in DOMAIN rows : data[e].version = v BY <2>4
    <2>6. e \notin Received BY <2>3, <2>5 DEF Versions
    <2> QED BY <1>1, <2>5, <2>6, UnsentIsOwed
  <1> QED BY <1>1, StreamSafety, PTL
=============================================================================
