----------------------------- MODULE ValueProofs -----------------------------
(***************************************************************************)
(* Theorems about the values that rows and answers carry: the instants of  *)
(* WagerClocks, for any number of wagers and whatever the clocks give; the *)
(* delays of Backoffs, for any number of attempts; and the amounts of      *)
(* Amounts, for every text and every int64 of any width.                   *)
(***************************************************************************)
EXTENDS WagerClocks, Backoffs, Amounts, FiniteSetTheorems, SequenceTheorems,
        WellFoundedInduction, TLAPS

ClockTypes ==
    /\ db \in Nat
    /\ account \in Account \cup {None}
    /\ entries \in Seq([by : Submissions \cup {None}, at : Nat])
    /\ rows \in [Submissions -> Row \cup {None}]
    /\ work \in [Submissions -> Reading \cup {None}]

\* What is stored comes after the opening of the wallet, and a submission that runs
\* has not committed.
OrderInv ==
    /\ account = None => entries = <<>> /\ \A s \in Submissions : rows[s] = None
    /\ \A s \in Submissions : work[s] # None => rows[s] = None

\* The wallet is dated when its last movement was; every entry is the movement of a
\* processed wager, of the same instant, and none is later than the wallet.
EntriesInv ==
    /\ \A i, j \in DOMAIN entries : i < j => entries[i].at <= entries[j].at
    /\ account # None =>
          /\ account.updated = IF entries = <<>> THEN account.created
                               ELSE entries[Len(entries)].at
          /\ \A i \in DOMAIN entries : entries[i].at <= account.updated
    /\ \A i \in DOMAIN entries, s \in Submissions : entries[i].by = s =>
          Processed(s) /\ entries[i].at = rows[s].updated

\* A wager that moved money is no later than its wallet, and one that was processed
\* comes after the movement that it refers to.
RowsInv ==
    \A s \in Submissions : Processed(s) =>
        /\ s \notin Losses => rows[s].updated <= account.updated
        /\ ReferenceOf[s] # None =>
              LET ref == ReferenceOf[s]
              IN  Processed(ref) /\ ref \notin Losses /\ rows[ref].updated <= rows[s].updated

\* An attempt is due before the wait is over.
ScheduleInv == \A s \in Submissions : Waiting(s) => rows[s].due <= rows[s].expires

ClocksInv ==
    ClockTypes /\ OrderInv /\ EntriesInv /\ RowsInv /\ ScheduleInv /\ ~refused

-----------------------------------------------------------------------------
(* INSTANTS                                                                 *)

\* The later of two instants.
LEMMA LaterMeans ==
    ASSUME NEW a \in Nat, NEW b \in Nat
    PROVE  Later(a, b) \in Nat /\ Later(a, b) >= a /\ Later(a, b) >= b
  <1>1. \E x \in {a, b} : \A y \in {a, b} : x >= y
    <2>1. CASE a >= b BY <2>1
    <2>2. CASE ~(a >= b) BY <2>2
    <2> QED BY <2>1, <2>2
  <1>2. Max({a, b}) \in {a, b} /\ \A y \in {a, b} : Max({a, b}) >= y
    BY <1>1 DEF Max
  <1> QED BY <1>2 DEF Later

\* The earlier of two instants.
LEMMA EarlierMeans ==
    ASSUME NEW a \in Nat, NEW b \in Nat
    PROVE  Earlier(a, b) \in Nat /\ Earlier(a, b) <= a /\ Earlier(a, b) <= b
  <1>1. \E x \in {a, b} : \A y \in {a, b} : x <= y
    <2>1. CASE a <= b BY <2>1
    <2>2. CASE ~(a <= b) BY <2>2
    <2> QED BY <2>1, <2>2
  <1>2. Min({a, b}) \in {a, b} /\ \A y \in {a, b} : Min({a, b}) <= y
    BY <1>1 DEF Min
  <1> QED BY <1>2 DEF Earlier

\* The instant of a decision, which no check on time refuses, whatever the clock said.
LEMMA DecisionTime ==
    ASSUME ClocksInv, account # None, NEW now \in Nat, NEW updated \in Nat,
           NEW s, NEW outcome
    PROVE  /\ ProcessingTime(now, updated) \in Nat
           /\ ProcessingTime(now, updated) >= updated
           /\ ProcessingTime(now, updated) >= account.updated
           /\ TimeAccepted(s, updated, outcome, ProcessingTime(now, updated))
  <1>1. account.updated \in Nat BY DEF ClocksInv, ClockTypes, Account
  <1>2. PICK t \in Nat : t = Later(now, updated) /\ t >= updated BY LaterMeans
  <1>3. Later(t, account.updated) \in Nat /\ Later(t, account.updated) >= t
        /\ Later(t, account.updated) >= account.updated
    BY <1>1, <1>2, LaterMeans
  <1>4. ProcessingTime(now, updated) = Later(t, account.updated)
    BY <1>2 DEF ProcessingTime
  <1>5. ProcessingTime(now, updated) >= updated
    BY <1>2, <1>3, <1>4
  <1> QED BY <1>3, <1>4, <1>5 DEF TimeAccepted

-----------------------------------------------------------------------------
(* STEPS                                                                    *)

\* What a decision writes fits what was written before it.
LEMMA WriteKeeps ==
    ASSUME ClocksInv, NEW s \in Submissions, ~Processed(s), account # None,
           NEW outcome \in Statuses,
           outcome = "PROCESSED" /\ ReferenceOf[s] # None =>
               Processed(ReferenceOf[s]) /\ ReferenceOf[s] \notin Losses,
           NEW created \in Nat, NEW now \in Nat, now >= account.updated,
           Write(s, created, outcome, now)
    PROVE  /\ account' \in Account /\ account' # None
           /\ entries' \in Seq([by : Submissions \cup {None}, at : Nat])
           /\ rows' \in [Submissions -> Row \cup {None}]
           /\ \A t \in Submissions : t # s => rows'[t] = rows[t]
           /\ EntriesInv' /\ RowsInv' /\ ScheduleInv'
  <1>1. /\ account \in Account /\ account.updated \in Nat /\ account.created \in Nat
        /\ entries \in Seq([by : Submissions \cup {None}, at : Nat])
        /\ rows \in [Submissions -> Row \cup {None}]
        /\ None \notin Account /\ None \notin Row
    BY ClocksAssumption DEF ClocksInv, ClockTypes, Account
  <1>2. FirstDelay \in Nat /\ Wait \in Nat /\ FirstDelay <= Wait
    BY ClocksAssumption
  <1>3. DEFINE moves == outcome = "PROCESSED" /\ s \notin Losses
               waits == outcome = "PENDING_REFERENCE"
  <1>4. PICK row : row = [status |-> outcome, created |-> created, updated |-> now,
                          due |-> IF waits THEN now + FirstDelay ELSE 0,
                          expires |-> IF waits THEN now + Wait ELSE 0,
                          until |-> 0]
    OBVIOUS
  <1>5. /\ rows' = [rows EXCEPT ![s] = row]
        /\ account' = IF moves THEN [account EXCEPT !.updated = now] ELSE account
        /\ entries' = IF moves THEN Append(entries, [by |-> s, at |-> now]) ELSE entries
    BY <1>4 DEF Write, EntryTime
  <1>6. /\ row \in Row /\ row # None /\ row.status = outcome /\ row.updated = now
        /\ waits => row.due <= row.expires
    <2>1. now + FirstDelay \in Nat /\ now + Wait \in Nat /\ now + FirstDelay <= now + Wait
      BY <1>2
    <2>2. row \in Row BY <1>4, <2>1 DEF Row
    <2> QED BY <1>1, <1>4, <2>1, <2>2
  <1>7. /\ rows' \in [Submissions -> Row \cup {None}] /\ rows'[s] = row
        /\ \A t \in Submissions : t # s => rows'[t] = rows[t]
    BY <1>1, <1>5, <1>6
  <1>8. /\ account' \in Account /\ account' # None /\ account'.created = account.created
        /\ account'.updated = IF moves THEN now ELSE account.updated
    BY <1>1, <1>5 DEF Account
  <1>9. entries' \in Seq([by : Submissions \cup {None}, at : Nat])
    <2>1. PICK e \in [by : Submissions \cup {None}, at : Nat] : e = [by |-> s, at |-> now]
      OBVIOUS
    <2>2. CASE moves
      <3>1. entries' = Append(entries, e) BY <1>5, <2>1, <2>2
      <3> QED BY <1>1, <2>1, <3>1
    <2>3. CASE ~moves
      <3>1. entries' = entries BY <1>5, <2>3
      <3> QED BY <1>1, <3>1
    <2> QED BY <2>2, <2>3
  <1>10. ASSUME NEW t \in Submissions
         PROVE  /\ Processed(t) => t # s /\ rows'[t] = rows[t] /\ Processed(t)'
                /\ Processed(t)' => Processed(t) \/ (t = s /\ outcome = "PROCESSED")
    BY <1>1, <1>6, <1>7 DEF Processed
  <1>11. EntriesInv'
    <2>1. PICK n \in Nat : n = Len(entries) BY <1>1
    <2>2. /\ DOMAIN entries = 1 .. n
          /\ \A i \in 1 .. n : entries[i].at \in Nat
      <3>1. DOMAIN entries = 1 .. n BY <1>1, <2>1
      <3>2. ASSUME NEW i \in 1 .. n PROVE entries[i].at \in Nat
        <4>1. PICK E : E = [by : Submissions \cup {None}, at : Nat] OBVIOUS
        <4>2. entries \in Seq(E) BY <1>1, <4>1
        <4>3. entries[i] \in E BY <2>1, <4>2
        <4> QED BY <4>1, <4>3
      <3> QED BY <3>1, <3>2
    <2>3. /\ \A i, j \in 1 .. n : i < j => entries[i].at <= entries[j].at
          /\ account.updated = IF entries = <<>> THEN account.created ELSE entries[n].at
          /\ \A i \in 1 .. n : entries[i].at <= account.updated
          /\ \A i \in 1 .. n, t \in Submissions : entries[i].by = t =>
                Processed(t) /\ entries[i].at = rows[t].updated
      BY <2>1, <2>2 DEF ClocksInv, EntriesInv
    <2>4. ASSUME NEW i \in 1 .. n, NEW t \in Submissions, entries[i].by = t
          PROVE  Processed(t)' /\ entries[i].at = rows'[t].updated
      <3>1. Processed(t) /\ entries[i].at = rows[t].updated BY <2>3, <2>4
      <3> QED BY <1>10, <3>1
    <2>5. CASE ~moves
      <3>1. entries' = entries /\ account'.updated = account.updated BY <1>5, <1>8, <2>5
      <3> QED BY <1>8, <2>1, <2>2, <2>3, <2>4, <3>1 DEF EntriesInv
    <2>6. CASE moves
      <3>1. /\ DOMAIN entries' = 1 .. n + 1 /\ Len(entries') = n + 1 /\ entries' # <<>>
            /\ entries'[n + 1] = [by |-> s, at |-> now]
            /\ \A i \in 1 .. n : entries'[i] = entries[i]
        BY <1>1, <1>5, <2>1, <2>6
      <3>2. entries'[n + 1].by = s /\ entries'[n + 1].at = now BY <3>1
      <3>3. account'.updated = now BY <1>8, <2>6
      <3>4. \A i \in 1 .. n + 1 : entries'[i].at <= now
        BY <1>1, <2>2, <2>3, <3>1, <3>2
      <3>5. ASSUME NEW i \in 1 .. n + 1, NEW j \in 1 .. n + 1, i < j
            PROVE  entries'[i].at <= entries'[j].at
        <4>1. i \in 1 .. n BY <3>5
        <4>2. CASE j = n + 1 BY <3>2, <3>4, <4>2
        <4>3. CASE j # n + 1
          <5>1. j \in 1 .. n BY <4>3
          <5> QED BY <2>3, <3>1, <3>5, <4>1, <5>1
        <4> QED BY <4>2, <4>3
      <3>6. ASSUME NEW i \in 1 .. n + 1, NEW t \in Submissions, entries'[i].by = t
            PROVE  Processed(t)' /\ entries'[i].at = rows'[t].updated
        <4>1. CASE i = n + 1
          <5>1. Processed(s)' BY <1>6, <1>7, <2>6 DEF Processed
          <5>2. t = s BY <3>2, <3>6, <4>1
          <5>3. rows'[t].updated = now BY <1>6, <1>7, <5>2
          <5> QED BY <3>2, <4>1, <5>1, <5>2, <5>3
        <4>2. CASE i # n + 1
          <5>1. i \in 1 .. n BY <2>1, <4>2
          <5>2. entries'[i] = entries[i] BY <3>1, <5>1
          <5>3. entries[i].by = t BY <3>6, <5>2
          <5> QED BY <2>4, <5>1, <5>2, <5>3
        <4> QED BY <4>1, <4>2
      <3> QED BY <1>8, <3>1, <3>2, <3>3, <3>4, <3>5, <3>6 DEF EntriesInv
    <2> QED BY <2>5, <2>6
  <1>12. RowsInv'
    <2>1. ASSUME NEW t \in Submissions, Processed(t)'
          PROVE  /\ t \notin Losses => rows'[t].updated <= account'.updated
                 /\ ReferenceOf[t] # None =>
                       /\ Processed(ReferenceOf[t])' /\ ReferenceOf[t] \notin Losses
                       /\ rows'[ReferenceOf[t]].updated <= rows'[t].updated
      <3>0. ReferenceOf[t] # None => ReferenceOf[t] \in Submissions
        BY ClocksAssumption
      <3>1. CASE t = s
        <4>1. outcome = "PROCESSED" BY <1>10, <2>1, <3>1
        <4>2. t \notin Losses => rows'[t].updated <= account'.updated
          BY <1>6, <1>7, <1>8, <3>1, <4>1
        <4>3. ASSUME ReferenceOf[t] # None
              PROVE  /\ Processed(ReferenceOf[t])' /\ ReferenceOf[t] \notin Losses
                     /\ rows'[ReferenceOf[t]].updated <= rows'[t].updated
          <5>1. PICK ref \in Submissions : ref = ReferenceOf[t] BY <3>0, <4>3
          <5>2. Processed(ref) /\ ref \notin Losses BY <3>1, <4>1, <4>3, <5>1
          <5>3. rows[ref].updated <= account.updated /\ rows[ref].updated \in Nat
            BY <1>1, <5>2 DEF ClocksInv, RowsInv, Processed, Row
          <5>4. rows'[ref] = rows[ref] /\ Processed(ref)' BY <1>10, <5>2
          <5>5. rows'[ref].updated <= now BY <1>1, <5>3, <5>4
          <5> QED BY <1>6, <1>7, <3>1, <5>1, <5>2, <5>4, <5>5
        <4> QED BY <4>2, <4>3
      <3>2. CASE t # s
        <4>1. Processed(t) /\ rows'[t] = rows[t] BY <1>7, <1>10, <2>1, <3>2
        <4>2. rows[t].updated \in Nat BY <1>1, <4>1 DEF Processed, Row
        <4>3. account.updated <= account'.updated BY <1>1, <1>8
        <4>4. t \notin Losses => rows'[t].updated <= account'.updated
          BY <1>1, <1>8, <4>1, <4>2, <4>3 DEF ClocksInv, RowsInv, Account
        <4>5. ReferenceOf[t] # None =>
                  /\ Processed(ReferenceOf[t])' /\ ReferenceOf[t] \notin Losses
                  /\ rows'[ReferenceOf[t]].updated <= rows'[t].updated
          BY <1>10, <3>0, <4>1 DEF ClocksInv, RowsInv
        <4> QED BY <4>4, <4>5
      <3> QED BY <3>1, <3>2
    <2> QED BY <2>1 DEF RowsInv
  <1>13. ScheduleInv'
    <2>1. ASSUME NEW t \in Submissions, Waiting(t)' PROVE rows'[t].due <= rows'[t].expires
      BY <1>6, <1>7, <2>1 DEF ClocksInv, ScheduleInv, Waiting
    <2> QED BY <2>1 DEF ScheduleInv
  <1> QED BY <1>7, <1>8, <1>9, <1>11, <1>12, <1>13

\* A new schedule leaves every other instant as it was.
LEMMA RescheduleKeeps ==
    ASSUME ClocksInv, NEW s \in Submissions, Waiting(s), NEW r \in Row,
           r.status = "PENDING_REFERENCE", r.due <= r.expires,
           rows' = [rows EXCEPT ![s] = r], UNCHANGED <<account, entries>>
    PROVE  /\ rows' \in [Submissions -> Row \cup {None}]
           /\ \A t \in Submissions : t # s => rows'[t] = rows[t]
           /\ EntriesInv' /\ RowsInv' /\ ScheduleInv'
  <1>1. rows \in [Submissions -> Row \cup {None}] BY DEF ClocksInv, ClockTypes
  <1>2. rows' \in [Submissions -> Row \cup {None}] /\ rows'[s] = r
        /\ \A t \in Submissions : t # s => rows'[t] = rows[t]
    BY <1>1
  <1>3. ASSUME NEW t \in Submissions
        PROVE  /\ Processed(t)' <=> Processed(t)
               /\ Processed(t) => rows'[t] = rows[t]
    BY <1>2 DEF Processed, Waiting
  <1>4. EntriesInv'
    <2>1. ASSUME NEW i \in DOMAIN entries, NEW t \in Submissions, entries[i].by = t
          PROVE  Processed(t)' /\ entries[i].at = rows'[t].updated
      BY <1>3, <2>1 DEF ClocksInv, EntriesInv
    <2> QED BY <2>1 DEF ClocksInv, EntriesInv
  <1>5. RowsInv'
    <2>1. ASSUME NEW t \in Submissions, Processed(t)'
          PROVE  /\ t \notin Losses => rows'[t].updated <= account'.updated
                 /\ ReferenceOf[t] # None =>
                       /\ Processed(ReferenceOf[t])' /\ ReferenceOf[t] \notin Losses
                       /\ rows'[ReferenceOf[t]].updated <= rows'[t].updated
      <3>1. Processed(t) /\ rows'[t] = rows[t] BY <1>3, <2>1
      <3>2. t \notin Losses => rows'[t].updated <= account'.updated
        BY <3>1 DEF ClocksInv, RowsInv
      <3>3. ASSUME ReferenceOf[t] # None
            PROVE  /\ Processed(ReferenceOf[t])' /\ ReferenceOf[t] \notin Losses
                   /\ rows'[ReferenceOf[t]].updated <= rows'[t].updated
        <4>1. ReferenceOf[t] \in Submissions BY <3>3, ClocksAssumption
        <4>2. PICK ref \in Submissions : ref = ReferenceOf[t] BY <4>1
        <4>3. Processed(ref) /\ ref \notin Losses /\ rows[ref].updated <= rows[t].updated
          BY <3>1, <3>3, <4>2 DEF ClocksInv, RowsInv
        <4> QED BY <1>3, <3>1, <4>2, <4>3
      <3> QED BY <3>2, <3>3
    <2> QED BY <2>1 DEF RowsInv
  <1>6. ScheduleInv'
    <2>1. ASSUME NEW t \in Submissions, Waiting(t)' PROVE rows'[t].due <= rows'[t].expires
      BY <1>2, <2>1 DEF ClocksInv, ScheduleInv, Waiting
    <2> QED BY <2>1 DEF ScheduleInv
  <1> QED BY <1>2, <1>4, <1>5, <1>6

\* A wager is processed only after a processed movement that it refers to.
LEMMA OutcomeFollows ==
    ASSUME NEW s \in Submissions, "PROCESSED" \in Outcomes(s), ReferenceOf[s] # None
    PROVE  Processed(ReferenceOf[s]) /\ ReferenceOf[s] \notin Losses
  BY DEF Outcomes

\* The invariant says nothing of a step that changes no row, no entry and no wallet.
LEMMA SameBooks ==
    ASSUME ClocksInv, UNCHANGED <<account, entries, rows>>
    PROVE  EntriesInv' /\ RowsInv' /\ ScheduleInv'
  BY DEF ClocksInv, EntriesInv, RowsInv, ScheduleInv, Processed, Waiting

\* The opening dates the wallet and its first entry alike.
LEMMA OpenKeeps ==
    ASSUME ClocksInv, NEW now \in Nat, NEW funded \in BOOLEAN, Open(now, funded)
    PROVE  ClocksInv'
  <1>1. \A s \in Submissions : rows[s] = None BY DEF ClocksInv, OrderInv, Open
  <1>2. PICK a \in Account : a = [created |-> now, updated |-> now] BY DEF Account
  <1>3. PICK e \in [by : Submissions \cup {None}, at : Nat] : e = [by |-> None, at |-> now]
    OBVIOUS
  <1>4. /\ account' = a /\ a.created = now /\ a.updated = now /\ a # None
        /\ entries' = IF funded THEN <<e>> ELSE <<>>
        /\ e.by = None /\ e.at = now
        /\ UNCHANGED <<db, rows, work, refused>>
    BY <1>2, <1>3, ClocksAssumption DEF Open
  <1>5. entries' \in Seq([by : Submissions \cup {None}, at : Nat])
    <2>1. CASE funded BY <1>3, <1>4, <2>1
    <2>2. CASE ~funded BY <1>4, <2>2
    <2> QED BY <2>1, <2>2
  <1>6. EntriesInv'
    <2>1. CASE funded
      <3>1. entries' = <<e>> BY <1>4, <2>1
      <3>2. DOMAIN entries' = {1} /\ Len(entries') = 1 /\ entries'[1] = e
        BY <3>1
      <3> QED BY <1>4, <3>1, <3>2, ClocksAssumption DEF EntriesInv
    <2>2. CASE ~funded
      <3>1. entries' = <<>> /\ DOMAIN entries' = {} BY <1>4, <2>2
      <3> QED BY <1>4, <3>1 DEF EntriesInv
    <2> QED BY <2>1, <2>2
  <1>7. RowsInv' /\ ScheduleInv'
    BY <1>1, <1>4 DEF RowsInv, ScheduleInv, Processed, Waiting
  <1>8. ClockTypes' BY <1>2, <1>4, <1>5 DEF ClocksInv, ClockTypes
  <1>9. OrderInv' BY <1>1, <1>4 DEF OrderInv
  <1> QED BY <1>4, <1>6, <1>7, <1>8, <1>9 DEF ClocksInv

\* A submission starts before it has a row.
LEMMA ReceiveKeeps ==
    ASSUME ClocksInv, NEW s \in Submissions, NEW claimed \in Nat, NEW received \in Nat,
           Receive(s, claimed, received)
    PROVE  ClocksInv'
  <1>1. PICK w \in Reading : w = [claimed |-> claimed, received |-> received]
    BY DEF Reading
  <1>2. /\ work' = [work EXCEPT ![s] = w] /\ rows[s] = None
        /\ UNCHANGED <<db, account, entries, rows, refused>>
    BY <1>1 DEF Receive
  <1>3. EntriesInv' /\ RowsInv' /\ ScheduleInv' BY <1>2, SameBooks
  <1>4. ClockTypes' BY <1>1, <1>2 DEF ClocksInv, ClockTypes
  <1>5. OrderInv' BY <1>2 DEF ClocksInv, ClockTypes, OrderInv
  <1> QED BY <1>2, <1>3, <1>4, <1>5 DEF ClocksInv

\* A rollback leaves nothing.
LEMMA AbortKeeps ==
    ASSUME ClocksInv, NEW s \in Submissions, Abort(s)
    PROVE  ClocksInv'
  <1>1. /\ work' = [work EXCEPT ![s] = None]
        /\ UNCHANGED <<db, account, entries, rows, refused>>
    BY DEF Abort
  <1>3. EntriesInv' /\ RowsInv' /\ ScheduleInv' BY <1>1, SameBooks
  <1>4. ClockTypes' BY <1>1 DEF ClocksInv, ClockTypes
  <1>5. OrderInv' BY <1>1 DEF ClocksInv, ClockTypes, OrderInv
  <1> QED BY <1>1, <1>3, <1>4, <1>5 DEF ClocksInv

\* The decision of a submission is refused by no check on its instants.
LEMMA ProcessKeeps ==
    ASSUME ClocksInv, NEW s \in Submissions, NEW now \in Nat, NEW completed \in Nat,
           NEW outcome \in Statuses, Process(s, now, completed, outcome)
    PROVE  ClocksInv'
  <1>1. /\ work[s] \in Reading /\ work[s] # None /\ account # None /\ rows[s] = None
        /\ outcome \in Outcomes(s) /\ work \in [Submissions -> Reading \cup {None}]
    BY DEF ClocksInv, ClockTypes, OrderInv, Process
  <1>2. PICK received \in Nat : received = work[s].received BY <1>1 DEF Reading
  <1>3. PICK time \in Nat : /\ time = ProcessingTime(now, received)
                            /\ time >= account.updated
                            /\ TimeAccepted(s, received, outcome, time)
    BY <1>1, <1>2, DecisionTime
  <1>4. /\ work' = [work EXCEPT ![s] = None] /\ ~refused' /\ db' = db
        /\ \/ Write(s, received, outcome, time)
           \/ UNCHANGED <<account, entries, rows>>
    BY <1>2, <1>3 DEF Process, ClocksInv
  <1>5. CASE Write(s, received, outcome, time)
    <2>1. ~Processed(s) BY <1>1 DEF Processed
    <2>2. outcome = "PROCESSED" /\ ReferenceOf[s] # None =>
              Processed(ReferenceOf[s]) /\ ReferenceOf[s] \notin Losses
      BY <1>1, OutcomeFollows
    <2>3. /\ account' \in Account /\ account' # None
          /\ entries' \in Seq([by : Submissions \cup {None}, at : Nat])
          /\ rows' \in [Submissions -> Row \cup {None}]
          /\ \A t \in Submissions : t # s => rows'[t] = rows[t]
          /\ EntriesInv' /\ RowsInv' /\ ScheduleInv'
      BY <1>1, <1>3, <1>5, <2>1, <2>2, WriteKeeps
    <2>4. ClockTypes' BY <1>1, <1>4, <2>3 DEF ClocksInv, ClockTypes
    <2>5. OrderInv' BY <1>1, <1>4, <2>3 DEF ClocksInv, OrderInv
    <2> QED BY <1>4, <2>3, <2>4, <2>5 DEF ClocksInv
  <1>6. CASE UNCHANGED <<account, entries, rows>>
    <2>1. EntriesInv' /\ RowsInv' /\ ScheduleInv' BY <1>6, SameBooks
    <2>2. ClockTypes' BY <1>1, <1>4, <1>6 DEF ClocksInv, ClockTypes
    <2>3. OrderInv' BY <1>1, <1>4, <1>6 DEF ClocksInv, OrderInv
    <2> QED BY <1>4, <2>1, <2>2, <2>3 DEF ClocksInv
  <1> QED BY <1>4, <1>5, <1>6

\* A claim never schedules an attempt after the end of the wait.
LEMMA ClaimKeeps ==
    ASSUME ClocksInv, NEW s \in Submissions, Claim(s)
    PROVE  ClocksInv'
  <1>1. /\ rows \in [Submissions -> Row \cup {None}] /\ rows[s] \in Row /\ Waiting(s)
        /\ rows[s].status = "PENDING_REFERENCE" /\ rows[s].expires \in Nat
        /\ db \in Nat /\ Lease \in Nat /\ db + Lease \in Nat
    <2>1. Waiting(s) BY DEF Claim
    <2>2. Lease \in Nat /\ db \in Nat BY ClocksAssumption DEF ClocksInv, ClockTypes
    <2>3. rows \in [Submissions -> Row \cup {None}] /\ rows[s] \in Row
      BY <2>1 DEF ClocksInv, ClockTypes, Waiting
    <2> QED BY <2>1, <2>2, <2>3 DEF Waiting, Row
  <1>2. PICK due \in Nat : due = Earlier(db + Lease, rows[s].expires) /\ due <= rows[s].expires
    BY <1>1, EarlierMeans
  <1>3. PICK r : r = [rows[s] EXCEPT !.until = db + Lease, !.due = due] OBVIOUS
  <1>4. r \in Row /\ r.status = "PENDING_REFERENCE" /\ r.due = due
        /\ r.expires = rows[s].expires
    BY <1>1, <1>2, <1>3 DEF Row
  <1>5. /\ rows' = [rows EXCEPT ![s] = r] /\ ~refused'
        /\ UNCHANGED <<db, account, entries, work>>
    BY <1>1, <1>2, <1>3 DEF Claim, ClocksInv, ScheduleAccepted
  <1>6. /\ rows' \in [Submissions -> Row \cup {None}]
        /\ \A t \in Submissions : t # s => rows'[t] = rows[t]
        /\ EntriesInv' /\ RowsInv' /\ ScheduleInv'
    BY <1>1, <1>2, <1>4, <1>5, RescheduleKeeps
  <1>7. ClockTypes' BY <1>5, <1>6 DEF ClocksInv, ClockTypes
  <1>8. account # None /\ work[s] = None BY <1>1 DEF ClocksInv, OrderInv, Waiting
  <1>9. OrderInv' BY <1>5, <1>6, <1>8 DEF ClocksInv, OrderInv
  <1> QED BY <1>5, <1>6, <1>7, <1>9 DEF ClocksInv

\* A resumed wager is decided at an instant that fits, or has its next attempt
\* before the end of the wait.
LEMMA ResumeKeeps ==
    ASSUME ClocksInv, NEW s \in Submissions, NEW now \in Nat, NEW backoff \in Backoffs,
           NEW outcome \in Statuses, Resume(s, now, backoff, outcome)
    PROVE  ClocksInv'
  <1>1. /\ rows \in [Submissions -> Row \cup {None}] /\ rows[s] \in Row /\ Waiting(s)
        /\ rows[s].status = "PENDING_REFERENCE" /\ rows[s].expires \in Nat
        /\ rows[s].created \in Nat /\ rows[s].updated \in Nat
        /\ backoff \in Nat /\ now + backoff \in Nat /\ outcome \in Outcomes(s)
    BY ClocksAssumption DEF ClocksInv, ClockTypes, Resume, Waiting, Row
  <1>2. account # None /\ work[s] = None BY <1>1 DEF ClocksInv, OrderInv, Waiting
  <1>3. db' = now /\ UNCHANGED work BY DEF Resume
  <1>4. CASE outcome = "PENDING_REFERENCE" /\ ~(now >= rows[s].expires)
    <2>1. PICK next \in Nat : next = NextAttempt(now, backoff, rows[s].expires)
                              /\ next <= rows[s].expires
      BY <1>1, EarlierMeans DEF NextAttempt
    <2>2. PICK r : r = [rows[s] EXCEPT !.due = next, !.until = 0] OBVIOUS
    <2>3. r \in Row /\ r.status = "PENDING_REFERENCE" /\ r.due = next
          /\ r.expires = rows[s].expires
      BY <1>1, <2>1, <2>2 DEF Row
    <2>4. /\ rows' = [rows EXCEPT ![s] = r] /\ ~refused'
          /\ UNCHANGED <<account, entries>>
      BY <1>1, <1>4, <2>1, <2>2 DEF Resume, ClocksInv, ScheduleAccepted
    <2>5. /\ rows' \in [Submissions -> Row \cup {None}]
          /\ \A t \in Submissions : t # s => rows'[t] = rows[t]
          /\ EntriesInv' /\ RowsInv' /\ ScheduleInv'
      BY <1>1, <2>1, <2>3, <2>4, RescheduleKeeps
    <2>6. ClockTypes' BY <1>3, <2>4, <2>5 DEF ClocksInv, ClockTypes
    <2>7. OrderInv' BY <1>2, <1>3, <2>4, <2>5 DEF ClocksInv, OrderInv
    <2> QED BY <2>4, <2>5, <2>6, <2>7 DEF ClocksInv
  <1>5. CASE ~(outcome = "PENDING_REFERENCE" /\ ~(now >= rows[s].expires))
    <2>1. PICK final \in Statuses :
              final = IF outcome = "PENDING_REFERENCE" THEN "REJECTED" ELSE outcome
      BY DEF Statuses
    <2>2. PICK time \in Nat : /\ time = ProcessingTime(now, rows[s].updated)
                              /\ time >= account.updated
                              /\ TimeAccepted(s, rows[s].updated, final, time)
      BY <1>1, <1>2, DecisionTime
    <2>3. Write(s, rows[s].created, final, time) /\ ~refused'
      BY <1>5, <2>1, <2>2 DEF Resume, ClocksInv
    <2>4. ~Processed(s) BY <1>1 DEF Processed
    <2>5. final = "PROCESSED" /\ ReferenceOf[s] # None =>
              Processed(ReferenceOf[s]) /\ ReferenceOf[s] \notin Losses
      BY <1>1, <2>1, OutcomeFollows
    <2>6. /\ account' \in Account /\ account' # None
          /\ entries' \in Seq([by : Submissions \cup {None}, at : Nat])
          /\ rows' \in [Submissions -> Row \cup {None}]
          /\ \A t \in Submissions : t # s => rows'[t] = rows[t]
          /\ EntriesInv' /\ RowsInv' /\ ScheduleInv'
      BY <1>1, <1>2, <2>2, <2>3, <2>4, <2>5, WriteKeeps
    <2>7. ClockTypes' BY <1>3, <2>6 DEF ClocksInv, ClockTypes
    <2>8. OrderInv' BY <1>2, <1>3, <2>6 DEF ClocksInv, OrderInv
    <2> QED BY <2>3, <2>6, <2>7, <2>8 DEF ClocksInv
  <1> QED BY <1>4, <1>5

\* The clock of the database moves alone.
LEMMA TickKeeps ==
    ASSUME ClocksInv, Tick
    PROVE  ClocksInv'
  <1>1. UNCHANGED <<account, entries, rows, work, refused>> /\ db' \in Nat
    BY DEF Tick, ClocksInv, ClockTypes
  <1>2. EntriesInv' /\ RowsInv' /\ ScheduleInv' BY <1>1, SameBooks
  <1> QED BY <1>1, <1>2 DEF ClocksInv, ClockTypes, OrderInv

-----------------------------------------------------------------------------
(* THEOREMS                                                                 *)

\* The invariant of the instants: wallets, ledgers and wagers are dated in the order
\* of the commits, whichever instance commits and whatever its clock says.
THEOREM Instants == Spec => []ClocksInv
  <1>1. Init => ClocksInv
    <2>1. SUFFICES ASSUME Init PROVE ClocksInv OBVIOUS
    <2>2. entries = <<>> /\ DOMAIN entries = {} BY <2>1 DEF Init
    <2>3. ClockTypes BY <2>1, <2>2 DEF Init, ClockTypes
    <2>4. OrderInv BY <2>1 DEF Init, OrderInv
    <2>5. EntriesInv BY <2>1, <2>2 DEF Init, EntriesInv
    <2>6. RowsInv /\ ScheduleInv
      BY <2>1 DEF Init, RowsInv, ScheduleInv, Processed, Waiting
    <2> QED BY <2>1, <2>3, <2>4, <2>5, <2>6 DEF Init, ClocksInv
  <1>2. ClocksInv /\ [Next]_vars => ClocksInv'
    <2>1. SUFFICES ASSUME ClocksInv, [Next]_vars PROVE ClocksInv' OBVIOUS
    <2>2. Clock \subseteq Nat /\ 1 \in Nat BY ClocksAssumption DEF Clock
    <2>3. CASE UNCHANGED vars
      <3>1. UNCHANGED <<db, account, entries, rows, work, refused>> BY <2>3 DEF vars
      <3>2. EntriesInv' /\ RowsInv' /\ ScheduleInv' BY <2>1, <3>1, SameBooks
      <3> QED BY <2>1, <3>1, <3>2 DEF ClocksInv, ClockTypes, OrderInv
    <2>4. ASSUME NEW now \in Clock, NEW funded \in BOOLEAN, Open(now, funded)
          PROVE  ClocksInv'
      BY <2>1, <2>2, <2>4, OpenKeeps
    <2>5. ASSUME NEW s \in Submissions,
                 NEW claimed \in IF s \in Messages THEN Clock ELSE {1},
                 NEW received \in Clock, Receive(s, claimed, received)
          PROVE  ClocksInv'
      <3>1. claimed \in Nat /\ received \in Nat BY <2>2
      <3> QED BY <2>1, <2>5, <3>1, ReceiveKeeps
    <2>6. ASSUME NEW s \in Submissions, Abort(s) PROVE ClocksInv'
      BY <2>1, <2>6, AbortKeeps
    <2>7. ASSUME NEW s \in Submissions, NEW now \in Clock, NEW outcome \in Statuses,
                 NEW completed \in IF s \in Messages THEN Clock ELSE {1},
                 Process(s, now, completed, outcome)
          PROVE  ClocksInv'
      <3>1. now \in Nat /\ completed \in Nat BY <2>2
      <3> QED BY <2>1, <2>7, <3>1, ProcessKeeps
    <2>8. ASSUME NEW s \in Submissions, Claim(s) PROVE ClocksInv'
      BY <2>1, <2>8, ClaimKeeps
    <2>9. ASSUME NEW s \in Submissions, NEW now \in Clock, NEW backoff \in Backoffs,
                 NEW outcome \in Statuses, Resume(s, now, backoff, outcome)
          PROVE  ClocksInv'
      BY <2>1, <2>2, <2>9, ResumeKeeps
    <2>10. CASE Tick BY <2>1, <2>10, TickKeeps
    <2> QED BY <2>1, <2>3, <2>4, <2>5, <2>6, <2>7, <2>8, <2>9, <2>10 DEF Next
  <1> QED BY <1>1, <1>2, PTL DEF Spec

\* No instant makes the domain or a CHECK of the schema refuse a wager, however the
\* clocks of the instances differ.
THEOREM NoClockRefuses == Spec => []ClocksNeverRefuse
  <1>1. ClocksInv => ClocksNeverRefuse BY DEF ClocksInv, ClocksNeverRefuse
  <1> QED BY <1>1, Instants, PTL

\* The instants written tell the order of the commits.
THEOREM InstantsTellTheOrder == Spec => []TimesFollowCommits
  <1>1. ClocksInv => TimesFollowCommits
    <2>1. SUFFICES ASSUME ClocksInv PROVE TimesFollowCommits OBVIOUS
    <2>2. ASSUME NEW i \in DOMAIN entries, entries[i].by # None
          PROVE  entries[i].at = rows[entries[i].by].updated
      <3>1. PICK n \in Nat : n = Len(entries) /\ DOMAIN entries = 1 .. n
        BY <2>1 DEF ClocksInv, ClockTypes
      <3>2. PICK E : E = [by : Submissions \cup {None}, at : Nat] OBVIOUS
      <3>3. entries \in Seq(E) BY <2>1, <3>2 DEF ClocksInv, ClockTypes
      <3>4. entries[i] \in E BY <3>1, <3>3
      <3>5. entries[i].by \in Submissions \cup {None} BY <3>2, <3>4
      <3> QED BY <2>1, <2>2, <3>5 DEF ClocksInv, EntriesInv
    <2>3. \A s \in Submissions :
              Processed(s) /\ ReferenceOf[s] # None =>
                  rows[ReferenceOf[s]].updated <= rows[s].updated
      BY <2>1 DEF ClocksInv, RowsInv
    <2> QED BY <2>1, <2>2, <2>3 DEF ClocksInv, EntriesInv, TimesFollowCommits
  <1> QED BY <1>1, Instants, PTL

\* A wager whose wait is over and that nobody holds can be claimed at once.
THEOREM TheLastAttemptComes == Spec => []ExpiredIsClaimable
  <1>1. ClocksInv => ExpiredIsClaimable
    <2>1. SUFFICES ASSUME ClocksInv, NEW s \in Submissions, Waiting(s),
                          rows[s].expires <= db, rows[s].until <= db
                   PROVE  rows[s].due <= db
      BY DEF ExpiredIsClaimable
    <2>2. rows[s].due \in Nat /\ rows[s].expires \in Nat /\ db \in Nat
      BY <2>1 DEF ClocksInv, ClockTypes, Waiting, Row
    <2>3. rows[s].due <= rows[s].expires BY <2>1 DEF ClocksInv, ScheduleInv
    <2> QED BY <2>1, <2>2, <2>3
  <1> QED BY <1>1, Instants, PTL

-----------------------------------------------------------------------------
(* How long retries wait                                                    *)

\* The loop of retryVisibilitySeconds, one delivery at a time.
LEMMA VisibilityDoubles ==
    /\ RetryVisibilitySeconds(1) = 5
    /\ \A n \in Nat : n >= 1 =>
          RetryVisibilitySeconds(n + 1) = Least(2 * RetryVisibilitySeconds(n), 300)
  <1> DEFINE step(g) == [n \in Nat |-> IF n <= 1 THEN 5 ELSE Least(2 * g[n - 1], 300)]
             seconds == CHOOSE g : g = step(g)
             h == [n \in Nat |-> IF n = 0 THEN 5 ELSE DocumentedVisibility(n)]
  <1>1. h = step(h)
    <2>1. ASSUME NEW n \in Nat PROVE h[n] = step(h)[n]
      <3>1. CASE n <= 1
        <4>1. n = 0 \/ n = 1 BY <3>1
        <4> QED BY <3>1, <4>1 DEF DocumentedVisibility
      <3>2. CASE n \in 2 .. 7
        <4>1. n = 2 \/ n = 3 \/ n = 4 \/ n = 5 \/ n = 6 \/ n = 7 BY <3>2
        <4>2. n - 1 \in Nat /\ n - 1 # 0 /\ ~(n <= 1) BY <3>2
        <4>3. h[n - 1] = DocumentedVisibility(n - 1) /\ h[n] = DocumentedVisibility(n)
          BY <4>2, <3>2
        <4>4. step(h)[n] = Least(2 * h[n - 1], 300) BY <4>2
        <4>5. DocumentedVisibility(n) = Least(2 * DocumentedVisibility(n - 1), 300)
          BY <4>1 DEF DocumentedVisibility, Least
        <4> QED BY <4>3, <4>4, <4>5
      <3>3. CASE n > 7
        <4>1. n - 1 \in Nat /\ n - 1 # 0 /\ ~(n <= 1) /\ ~(n <= 6) /\ ~(n - 1 <= 6)
          BY <3>3
        <4>2. h[n - 1] = 300 /\ h[n] = 300 BY <4>1 DEF DocumentedVisibility
        <4> QED BY <4>1, <4>2 DEF Least
      <3> QED BY <3>1, <3>2, <3>3
    <2>2. h = [n \in Nat |-> h[n]] OBVIOUS
    <2> HIDE DEF h, step
    <2>3. step(h) = [n \in Nat |-> step(h)[n]] BY DEF step
    <2> QED BY <2>1, <2>2, <2>3
  <1> HIDE DEF h
  <1>2. seconds = step(seconds) BY <1>1
  <1>3. \A n : RetryVisibilitySeconds(n) = seconds[n] BY DEF RetryVisibilitySeconds
  <1> HIDE DEF seconds
  <1>4. seconds[1] = 5 BY <1>2
  <1>5. ASSUME NEW n \in Nat, n >= 1 PROVE seconds[n + 1] = Least(2 * seconds[n], 300)
    <2>1. n + 1 \in Nat /\ ~(n + 1 <= 1) /\ (n + 1) - 1 = n BY <1>5
    <2>2. seconds[n + 1] = Least(2 * seconds[(n + 1) - 1], 300) BY <1>2, <2>1
    <2> QED BY <2>1, <2>2
  <1> QED BY <1>3, <1>4, <1>5

\* The loop of backoff, one attempt at a time.
LEMMA DelayDoubles ==
    /\ Delay(1) = 1
    /\ \A n \in Nat : n >= 1 => Delay(n + 1) = Least(2 * Delay(n), MaxDelay)
  <1> DEFINE step(g) == [n \in Nat |-> IF n <= 1 THEN 1 ELSE Least(2 * g[n - 1], MaxDelay)]
             delayed == CHOOSE g : g = step(g)
             h == [n \in Nat |-> IF n = 0 THEN 1 ELSE DoubledDelay(n)]
  <1>1. h = step(h)
    <2>1. ASSUME NEW n \in Nat PROVE h[n] = step(h)[n]
      <3>1. CASE n <= 1
        <4>1. n = 0 \/ n = 1 BY <3>1
        <4> QED BY <3>1, <4>1 DEF DoubledDelay
      <3>2. CASE n \in 2 .. 10
        <4>1. n \in {2, 3, 4, 5, 6, 7, 8, 9, 10} BY <3>2
        <4>2. n - 1 \in Nat /\ n - 1 # 0 /\ ~(n <= 1) BY <3>2
        <4>3. h[n - 1] = DoubledDelay(n - 1) /\ h[n] = DoubledDelay(n)
          BY <4>2, <3>2
        <4>4. step(h)[n] = Least(2 * h[n - 1], MaxDelay) BY <4>2
        <4>5. DoubledDelay(n) = Least(2 * DoubledDelay(n - 1), MaxDelay)
          BY <4>1 DEF DoubledDelay, Least, MaxDelay
        <4> QED BY <4>3, <4>4, <4>5
      <3>3. CASE n > 10
        <4>1. n - 1 \in Nat /\ n - 1 # 0 /\ ~(n <= 1) /\ ~(n <= 9) /\ ~(n - 1 <= 9)
          BY <3>3
        <4>2. h[n - 1] = 300 /\ h[n] = 300 BY <4>1 DEF DoubledDelay, MaxDelay
        <4> QED BY <4>1, <4>2 DEF Least, MaxDelay
      <3> QED BY <3>1, <3>2, <3>3
    <2>2. h = [n \in Nat |-> h[n]] OBVIOUS
    <2> HIDE DEF h, step
    <2>3. step(h) = [n \in Nat |-> step(h)[n]] BY DEF step
    <2> QED BY <2>1, <2>2, <2>3
  <1> HIDE DEF h
  <1>2. delayed = step(delayed) BY <1>1
  <1>3. \A n : Delay(n) = delayed[n] BY DEF Delay
  <1> HIDE DEF delayed
  <1>4. delayed[1] = 1 BY <1>2
  <1>5. ASSUME NEW n \in Nat, n >= 1 PROVE delayed[n + 1] = Least(2 * delayed[n], MaxDelay)
    <2>1. n + 1 \in Nat /\ ~(n + 1 <= 1) /\ (n + 1) - 1 = n BY <1>5
    <2>2. delayed[n + 1] = Least(2 * delayed[(n + 1) - 1], MaxDelay) BY <1>2, <2>1
    <2> QED BY <2>1, <2>2
  <1> QED BY <1>3, <1>4, <1>5

\* The next retry waits as the tables say: the strengthening of RetriesAreSpaced.
RetryInv == /\ attempt \in 1 .. MaxAttempts
            /\ RetryVisibilitySeconds(attempt) = DocumentedVisibility(attempt)
            /\ Delay(attempt) = DoubledDelay(attempt)
            /\ RetriesAreSpaced

\* The tables continue as the loops do.
LEMMA TablesDouble ==
    ASSUME NEW n \in Nat, n >= 1
    PROVE  /\ DocumentedVisibility(n + 1) = Least(2 * DocumentedVisibility(n), 300)
           /\ DoubledDelay(n + 1) = Least(2 * DoubledDelay(n), MaxDelay)
           /\ DoubledDelay(n) \in 1 .. MaxDelay
  <1>1. CASE n \in 1 .. 9
    <2>1. n \in {1, 2, 3, 4, 5, 6, 7, 8, 9} BY <1>1
    <2>2. DocumentedVisibility(n + 1) = Least(2 * DocumentedVisibility(n), 300)
      BY <2>1 DEF DocumentedVisibility, Least
    <2>3. /\ DoubledDelay(n + 1) = Least(2 * DoubledDelay(n), MaxDelay)
          /\ DoubledDelay(n) \in 1 .. MaxDelay
      BY <2>1 DEF DoubledDelay, Least, MaxDelay
    <2> QED BY <2>2, <2>3
  <1>2. CASE n > 9
    BY <1>2 DEF DocumentedVisibility, DoubledDelay, Least, MaxDelay
  <1> QED BY <1>1, <1>2

\* However often an item fails, its deliveries are hidden as README.md documents
\* (retryVisibilitySeconds) and its delays double up to five minutes, with at most a
\* quarter of jitter on top (backoff).
THEOREM RetriesKeepTheirSpacing == RetrySpec => []RetriesAreSpaced
  <1>1. RetryInit => RetryInv
    <2> SUFFICES ASSUME RetryInit PROVE RetryInv OBVIOUS
    <2>1. attempt = 1 /\ 1 \in 1 .. MaxAttempts
      BY AttemptsAssumption DEF RetryInit
    <2>2. RetryVisibilitySeconds(1) = DocumentedVisibility(1)
      BY VisibilityDoubles DEF DocumentedVisibility
    <2>3. Delay(1) = DoubledDelay(1)
      BY DelayDoubles DEF DoubledDelay
    <2> QED BY <2>1, <2>2, <2>3
          DEF RetryInv, RetriesAreSpaced, VisibilityAsDocumented, BackoffDoubles
  <1>2. RetryInv /\ [RetryNext]_retryVars => RetryInv'
    <2> SUFFICES ASSUME RetryInv, [RetryNext]_retryVars PROVE RetryInv' OBVIOUS
    <2>1. CASE Fails
      <3>1. PICK n \in Nat : n = attempt /\ n >= 1 /\ n < MaxAttempts
        BY <2>1, AttemptsAssumption DEF RetryInv, Fails
      <3>2. attempt' = n + 1 /\ n + 1 \in 1 .. MaxAttempts /\ (n + 1) - 1 = n /\ n + 1 > 1
        BY <2>1, <3>1, AttemptsAssumption DEF Fails
      <3>3. /\ RetryVisibilitySeconds(n) = DocumentedVisibility(n)
            /\ Delay(n) = DoubledDelay(n)
        BY <3>1 DEF RetryInv
      <3>4. /\ RetryVisibilitySeconds(n + 1) = DocumentedVisibility(n + 1)
            /\ Delay(n + 1) = DoubledDelay(n + 1)
        BY <3>1, <3>3, TablesDouble, VisibilityDoubles, DelayDoubles
      <3>5. visibility' = DocumentedVisibility(n) /\ delay' \in Backoff(n)
        BY <2>1, <3>1, <3>3 DEF Fails
      <3>6. PICK b \in 1 .. MaxDelay : b = DoubledDelay(n)
        BY <3>1, TablesDouble
      <3>7. IF b < MaxDelay THEN delay' >= b /\ 4 * delay' <= 5 * b ELSE delay' = MaxDelay
        <4>1. CASE b = MaxDelay
          BY <3>3, <3>5, <3>6, <4>1 DEF Backoff, MaxDelay
        <4>2. CASE b # MaxDelay
          <5>1. PICK jitter \in 0 .. b \div 4 : delay' = b + jitter
            BY <3>3, <3>5, <3>6, <4>2 DEF Backoff
          <5>2. 4 * (b \div 4) <= b /\ b \div 4 \in Nat BY DEF MaxDelay
          <5>3. delay' >= b /\ 4 * delay' <= 5 * b BY <5>1, <5>2 DEF MaxDelay
          <5> QED BY <4>2, <5>3 DEF MaxDelay
        <4> QED BY <4>1, <4>2
      <3>8. VisibilityAsDocumented'
        BY <3>2, <3>5 DEF VisibilityAsDocumented
      <3>9. BackoffDoubles'
        BY <3>2, <3>6, <3>7 DEF BackoffDoubles
      <3> QED BY <3>2, <3>4, <3>8, <3>9 DEF RetryInv, RetriesAreSpaced
    <2>2. CASE UNCHANGED retryVars
      BY <2>2 DEF retryVars, RetryInv, RetriesAreSpaced, VisibilityAsDocumented, BackoffDoubles
    <2> QED BY <2>1, <2>2 DEF RetryNext, GivenUp
  <1>3. RetryInv => RetriesAreSpaced BY DEF RetryInv
  <1> QED BY <1>1, <1>2, <1>3, PTL DEF RetrySpec

-----------------------------------------------------------------------------
(* What a text and an amount say of each other                              *)

\* Every set of naturals has a least one: induction over data is by the least
\* counterexample.
LEMMA LeastNumber ==
    ASSUME NEW T, T \subseteq Nat, T # {}
    PROVE  \E m \in T : \A n \in T : m <= n
  <1> DEFINE R == OpToRel(<, Nat)
  <1>1. IsWellFoundedOn(R, Nat) BY NatLessThanWellFounded
  <1>2. \A m, n \in Nat : <<m, n>> \in R <=> m < n
    BY DEF OpToRel
  <1> HIDE DEF R
  <1>3. PICK x \in T : \A y \in T : ~(<<y, x>> \in R)
    BY <1>1, WFMin
  <1>4. ASSUME NEW y \in T PROVE x <= y
    <2>1. x \in Nat /\ y \in Nat OBVIOUS
    <2>2. ~(y < x) BY <1>2, <1>3, <2>1
    <2> QED BY <2>1, <2>2
  <1> QED BY <1>4

\* g starts at z and goes on by the functions F.
Runs(g, F, z, n) == g[0] = z /\ \A i \in 1 .. n : g[i] = F[i][g[i - 1]]

\* Recursion from one number to the next defines a function.
LEMMA RecursionRuns ==
    ASSUME NEW S, NEW n \in Nat, NEW F \in [1 .. n -> [S -> S]], NEW z \in S
    PROVE  \E g \in [0 .. n -> S] : Runs(g, F, z, n)
  <1> DEFINE T == {m \in 0 .. n : ~ \E g \in [0 .. m -> S] : Runs(g, F, z, m)}
  <1>1. SUFFICES ASSUME T # {} PROVE FALSE OBVIOUS
  <1>2. T \subseteq Nat OBVIOUS
  <1>3. PICK m \in T : \A j \in T : m <= j
    <2> HIDE DEF T
    <2> QED BY <1>1, <1>2, LeastNumber
  <1>4. m \in 0 .. n /\ ~ \E g \in [0 .. m -> S] : Runs(g, F, z, m) OBVIOUS
  <1>5. m # 0
    <2> SUFFICES ASSUME m = 0 PROVE FALSE OBVIOUS
    <2>1. PICK g : g = [i \in 0 .. m |-> z] OBVIOUS
    <2>2. g \in [0 .. m -> S] /\ Runs(g, F, z, m) BY <2>1 DEF Runs
    <2> QED BY <1>4, <2>2
  <1>6. m - 1 \in 0 .. n /\ m - 1 \notin T BY <1>3, <1>4, <1>5
  <1>7. PICK g \in [0 .. m - 1 -> S] : Runs(g, F, z, m - 1) BY <1>6
  <1>8. PICK h : h = [i \in 0 .. m |-> IF i < m THEN g[i] ELSE F[m][g[m - 1]]] OBVIOUS
  <1>9. F[m][g[m - 1]] \in S
    <2>1. m \in 1 .. n /\ m - 1 \in 0 .. m - 1 BY <1>4, <1>5
    <2> QED BY <2>1
  <1>10. h \in [0 .. m -> S]
    <2>1. ASSUME NEW i \in 0 .. m, i < m PROVE g[i] \in S
      <3>1. i \in 0 .. m - 1 BY <1>4, <2>1
      <3> QED BY <3>1
    <2> QED BY <1>8, <1>9, <2>1
  <1>11. h[0] = z BY <1>4, <1>5, <1>7, <1>8 DEF Runs
  <1>12. ASSUME NEW i \in 1 .. m PROVE h[i] = F[i][h[i - 1]]
    <2>1. i \in 0 .. m /\ i - 1 \in 0 .. m /\ i - 1 < m BY <1>4
    <2>2. h[i - 1] = g[i - 1] BY <1>8, <2>1
    <2>3. CASE i = m BY <1>8, <2>1, <2>2, <2>3
    <2>4. CASE i # m
      <3>1. i \in 1 .. m - 1 /\ i < m BY <1>4, <2>4
      <3> QED BY <1>7, <1>8, <2>1, <2>2, <3>1 DEF Runs
    <2> QED BY <2>3, <2>4
  <1> QED BY <1>4, <1>10, <1>11, <1>12 DEF Runs

-----------------------------------------------------------------------------
\* Digits have the values 0 to 9, and neither a dot nor a sign is one.
LEMMA DigitValue ==
    /\ \A v \in 0 .. 9 : /\ DigitText[v + 1] \in Digits /\ ValueOf(DigitText[v + 1]) = v
                         /\ v # 0 => DigitText[v + 1] # "0"
    /\ \A d \in Digits : ValueOf(d) \in 0 .. 9 /\ d # "." /\ d # "-"
  <1>1. \A v, u \in 0 .. 9 : DigitText[v + 1] = DigitText[u + 1] => v = u
    <2> SUFFICES ASSUME NEW v \in 0 .. 9, NEW u \in 0 .. 9, DigitText[v + 1] = DigitText[u + 1]
                 PROVE  v = u
      OBVIOUS
    <2>1. /\ v \in {0, 1, 2, 3, 4, 5, 6, 7, 8, 9}
          /\ u \in {0, 1, 2, 3, 4, 5, 6, 7, 8, 9}
      OBVIOUS
    <2> QED BY <2>1 DEF DigitText
  <1>2. ASSUME NEW v \in 0 .. 9
        PROVE  DigitText[v + 1] \in Digits /\ ValueOf(DigitText[v + 1]) = v
    <2>1. v + 1 \in 1 .. 10 OBVIOUS
    <2>2. DigitText[v + 1] \in Digits BY <2>1 DEF Digits
    <2> QED BY <1>1, <2>2 DEF ValueOf
  <1>3. ASSUME NEW d \in Digits PROVE ValueOf(d) \in 0 .. 9 /\ d # "." /\ d # "-"
    <2>1. PICK i \in 1 .. 10 : d = DigitText[i] BY DEF Digits
    <2>2. i - 1 \in 0 .. 9 /\ (i - 1) + 1 = i OBVIOUS
    <2>3. ValueOf(d) \in 0 .. 9 BY <1>2, <2>1, <2>2
    <2>4. i \in {1, 2, 3, 4, 5, 6, 7, 8, 9, 10} OBVIOUS
    <2>5. d # "." /\ d # "-" BY <2>1, <2>4 DEF DigitText
    <2> QED BY <2>3, <2>5
  <1>4. ASSUME NEW v \in 0 .. 9, v # 0 PROVE DigitText[v + 1] # "0"
    <2>1. v \in {1, 2, 3, 4, 5, 6, 7, 8, 9} BY <1>4
    <2> QED BY <2>1 DEF DigitText
  <1> QED BY <1>2, <1>3, <1>4

\* The numbers that the first digits of X stand for.
Horner(h, X, n) == /\ h \in [0 .. n -> Nat] /\ h[0] = 0
                   /\ \A i \in 1 .. n : h[i] = 10 * h[i - 1] + ValueOf(X[i])

\* ParseInt's loop reads digit by digit.
LEMMA NumberIs ==
    ASSUME NEW X \in Seq(Digits), NEW n \in Nat, n = Len(X)
    PROVE  \E h : Horner(h, X, n) /\ Number(X) = h[n]
  <1> DEFINE step(g) == [i \in 0 .. n |-> IF i = 0 THEN 0 ELSE 10 * g[i - 1] + ValueOf(X[i])]
             upTo == CHOOSE g : g = step(g)
  <1>1. \A i \in 1 .. n : ValueOf(X[i]) \in Nat
    <2>1. \A i \in 1 .. n : X[i] \in Digits BY ElementOfSeq
    <2>2. \A i \in 1 .. n : ValueOf(X[i]) \in 0 .. 9 BY <2>1, DigitValue
    <2> QED BY <2>2
  <1>2. PICK h : Horner(h, X, n)
    <2>1. PICK F : F = [i \in 1 .. n |-> [x \in Nat |-> 10 * x + ValueOf(X[i])]] OBVIOUS
    <2>2. F \in [1 .. n -> [Nat -> Nat]]
      <3>1. ASSUME NEW i \in 1 .. n
            PROVE  [x \in Nat |-> 10 * x + ValueOf(X[i])] \in [Nat -> Nat]
        <4>1. PICK v \in Nat : v = ValueOf(X[i]) BY <1>1
        <4> QED BY <4>1
      <3> QED BY <2>1, <3>1
    <2>3. PICK g \in [0 .. n -> Nat] : Runs(g, F, 0, n) BY <2>2, RecursionRuns
    <2>4. ASSUME NEW i \in 1 .. n PROVE g[i] = 10 * g[i - 1] + ValueOf(X[i])
      <3>1. i - 1 \in 0 .. n OBVIOUS
      <3>2. g[i - 1] \in Nat BY <3>1
      <3>3. g[i] = F[i][g[i - 1]] BY <2>3 DEF Runs
      <3> QED BY <2>1, <3>2, <3>3
    <2>5. g[0] = 0 BY <2>3 DEF Runs
    <2> QED BY <2>4, <2>5 DEF Horner
  <1>3. h = step(h)
    <2>1. ASSUME NEW i \in 0 .. n PROVE h[i] = step(h)[i]
      <3>1. CASE i = 0 BY <1>2, <3>1 DEF Horner
      <3>2. CASE i # 0
        <4>1. i \in 1 .. n BY <3>2
        <4> QED BY <1>2, <3>2, <4>1 DEF Horner
      <3> QED BY <3>1, <3>2
    <2>2. h = [i \in 0 .. n |-> h[i]] BY <1>2 DEF Horner
    <2> HIDE DEF step
    <2>3. step(h) = [i \in 0 .. n |-> step(h)[i]] BY DEF step
    <2> QED BY <2>1, <2>2, <2>3
  <1>4. upTo = step(upTo) BY <1>3
  <1>5. Number(X) = upTo[n] BY DEF Number
  <1> HIDE DEF upTo
  <1>6. upTo[0] = 0 /\ \A i \in 1 .. n : upTo[i] = 10 * upTo[i - 1] + ValueOf(X[i])
    BY <1>4
  <1>7. \A i \in 0 .. n : upTo[i] = h[i]
    <2> DEFINE T == {i \in 0 .. n : upTo[i] # h[i]}
    <2>1. SUFFICES ASSUME T # {} PROVE FALSE OBVIOUS
    <2>2. T \subseteq Nat OBVIOUS
    <2>3. PICK m \in T : \A j \in T : m <= j
      <3> HIDE DEF T
      <3> QED BY <2>1, <2>2, LeastNumber
    <2>4. m \in 1 .. n /\ upTo[m] # h[m] BY <1>2, <1>6, <2>3 DEF Horner
    <2>5. m - 1 \in 0 .. n /\ m - 1 \notin T BY <2>3, <2>4
    <2>6. upTo[m - 1] = h[m - 1] BY <2>5
    <2> QED BY <1>2, <1>6, <2>4, <2>6 DEF Horner
  <1> QED BY <1>2, <1>5, <1>7

\* The first n digits are the same.
SameDigits(X, Y, n) == \A i \in 1 .. n : X[i] = Y[i]

\* Equal digits stand for equal numbers.
LEMMA HornerAgrees ==
    ASSUME NEW X, NEW Y, NEW n \in Nat, NEW m \in Nat, n <= m, NEW h, NEW k,
           Horner(h, X, n), Horner(k, Y, m), SameDigits(X, Y, n)
    PROVE  h[n] = k[n]
  <1> DEFINE T == {i \in 0 .. n : h[i] # k[i]}
  <1>1. SUFFICES ASSUME T # {} PROVE FALSE OBVIOUS
  <1>2. T \subseteq Nat OBVIOUS
  <1>3. PICK p \in T : \A j \in T : p <= j
    <2> HIDE DEF T
    <2> QED BY <1>1, <1>2, LeastNumber
  <1>4. p \in 1 .. n /\ h[p] # k[p] BY <1>3 DEF Horner
  <1>5. p - 1 \in 0 .. n /\ p - 1 \notin T BY <1>3, <1>4
  <1>6. h[p - 1] = k[p - 1] BY <1>5
  <1>7. p \in 1 .. m BY <1>4
  <1> QED BY <1>4, <1>6, <1>7 DEF Horner, SameDigits

\* One digit more.
LEMMA NumberAppend ==
    ASSUME NEW X \in Seq(Digits), NEW d \in Digits
    PROVE  Number(X) \in Nat /\ Number(Append(X, d)) = 10 * Number(X) + ValueOf(d)
  <1>1. PICK n \in Nat : n = Len(X) OBVIOUS
  <1>2. PICK Y : Y = Append(X, d) OBVIOUS
  <1>3. Y \in Seq(Digits) /\ Len(Y) = n + 1 /\ Y[n + 1] = d /\ \A i \in 1 .. n : X[i] = Y[i]
    BY <1>1, <1>2
  <1>4. PICK h : Horner(h, X, n) /\ Number(X) = h[n] BY <1>1, NumberIs
  <1>5. PICK k : Horner(k, Y, n + 1) /\ Number(Y) = k[n + 1] BY <1>1, <1>3, NumberIs
  <1>6. h[n] = k[n]
    <2>1. SameDigits(X, Y, n) /\ n + 1 \in Nat /\ n <= n + 1 BY <1>3 DEF SameDigits
    <2> QED BY <1>4, <1>5, <2>1, HornerAgrees
  <1>7. k[n + 1] = 10 * k[n] + ValueOf(Y[n + 1])
    <2>1. n + 1 \in 1 .. n + 1 /\ (n + 1) - 1 = n OBVIOUS
    <2> QED BY <1>5, <2>1 DEF Horner
  <1>8. h[n] \in Nat BY <1>4 DEF Horner
  <1> QED BY <1>2, <1>3, <1>4, <1>5, <1>6, <1>7, <1>8

-----------------------------------------------------------------------------
\* The powers of ten, and the worth of the last digits of X.
Places(p, n) == /\ p \in [0 .. n -> Nat] /\ p[0] = 1
                /\ \A k \in 1 .. n : p[k] = 10 * p[k - 1]

Lasts(l, p, X, n) == /\ l \in [0 .. n -> Nat] /\ l[0] = 0
                     /\ \A k \in 1 .. n : l[k] = l[k - 1] + p[k - 1] * ValueOf(X[n + 1 - k])

\* The digits of a number, each worth its place.
LEMMA WorthIs ==
    ASSUME NEW X \in Seq(Digits), NEW n \in Nat, n = Len(X)
    PROVE  \E p, l : Places(p, n) /\ Lasts(l, p, X, n) /\ Worth(X, n) = l[n]
  <1> DEFINE tens(g) == [k \in 0 .. n |-> IF k = 0 THEN 1 ELSE 10 * g[k - 1]]
             place == CHOOSE g : g = tens(g)
             sums(g) == [k \in 0 .. n |-> IF k = 0 THEN 0
                            ELSE g[k - 1] + place[k - 1] * ValueOf(X[n + 1 - k])]
             last == CHOOSE g : g = sums(g)
  <1>0. Worth(X, n) = last[n] BY DEF Worth
  <1>1. PICK p : Places(p, n)
    <2>1. PICK F : F = [k \in 1 .. n |-> [x \in Nat |-> 10 * x]] OBVIOUS
    <2>2. F \in [1 .. n -> [Nat -> Nat]] BY <2>1
    <2>3. PICK g \in [0 .. n -> Nat] : Runs(g, F, 1, n) BY <2>2, RecursionRuns
    <2>4. ASSUME NEW k \in 1 .. n PROVE g[k] = 10 * g[k - 1]
      <3>1. k - 1 \in 0 .. n OBVIOUS
      <3>2. g[k - 1] \in Nat BY <3>1
      <3>3. g[k] = F[k][g[k - 1]] BY <2>3 DEF Runs
      <3> QED BY <2>1, <3>2, <3>3
    <2>5. g[0] = 1 BY <2>3 DEF Runs
    <2> QED BY <2>4, <2>5 DEF Places
  <1>2. p = tens(p)
    <2>1. ASSUME NEW k \in 0 .. n PROVE p[k] = tens(p)[k]
      <3>1. CASE k = 0 BY <1>1, <3>1 DEF Places
      <3>2. CASE k # 0
        <4>1. k \in 1 .. n BY <3>2
        <4> QED BY <1>1, <3>2, <4>1 DEF Places
      <3> QED BY <3>1, <3>2
    <2>2. p = [k \in 0 .. n |-> p[k]] BY <1>1 DEF Places
    <2> HIDE DEF tens
    <2>3. tens(p) = [k \in 0 .. n |-> tens(p)[k]] BY DEF tens
    <2> QED BY <2>1, <2>2, <2>3
  <1>3. place = tens(place) BY <1>2
  <1> HIDE DEF place
  <1>4. place[0] = 1 /\ \A k \in 1 .. n : place[k] = 10 * place[k - 1] BY <1>3
  <1>5. \A k \in 0 .. n : place[k] = p[k]
    <2> DEFINE T == {i \in 0 .. n : place[i] # p[i]}
    <2>1. SUFFICES ASSUME T # {} PROVE FALSE OBVIOUS
    <2>2. T \subseteq Nat OBVIOUS
    <2>3. PICK m \in T : \A j \in T : m <= j
      <3> HIDE DEF T
      <3> QED BY <2>1, <2>2, LeastNumber
    <2>4. m \in 1 .. n /\ place[m] # p[m] BY <1>1, <1>4, <2>3 DEF Places
    <2>5. m - 1 \in 0 .. n /\ m - 1 \notin T BY <2>3, <2>4
    <2>6. place[m - 1] = p[m - 1] BY <2>5
    <2> QED BY <1>1, <1>4, <2>4, <2>6 DEF Places
  <1>6. ASSUME NEW k \in 1 .. n
        PROVE  place[k - 1] = p[k - 1] /\ p[k - 1] * ValueOf(X[n + 1 - k]) \in Nat
    <2>1. k - 1 \in 0 .. n /\ n + 1 - k \in 1 .. n OBVIOUS
    <2>2. X[n + 1 - k] \in Digits BY <2>1, ElementOfSeq
    <2>3. PICK v \in Nat : v = ValueOf(X[n + 1 - k])
      <3>1. ValueOf(X[n + 1 - k]) \in 0 .. 9 BY <2>2, DigitValue
      <3> QED BY <3>1
    <2>4. PICK t \in Nat : t = p[k - 1] BY <1>1, <2>1 DEF Places
    <2>5. t * v \in Nat OBVIOUS
    <2> QED BY <1>5, <2>1, <2>3, <2>4, <2>5
  <1>7. PICK l : Lasts(l, p, X, n)
    <2>1. PICK F : F = [k \in 1 .. n |-> [x \in Nat |-> x + p[k - 1] * ValueOf(X[n + 1 - k])]]
      OBVIOUS
    <2>2. F \in [1 .. n -> [Nat -> Nat]]
      <3>1. ASSUME NEW k \in 1 .. n
            PROVE  [x \in Nat |-> x + p[k - 1] * ValueOf(X[n + 1 - k])] \in [Nat -> Nat]
        <4>1. PICK v \in Nat : v = p[k - 1] * ValueOf(X[n + 1 - k]) BY <1>6
        <4>2. [x \in Nat |-> x + v] \in [Nat -> Nat] OBVIOUS
        <4> QED BY <4>1, <4>2
      <3> QED BY <2>1, <3>1
    <2>3. PICK g \in [0 .. n -> Nat] : Runs(g, F, 0, n) BY <2>2, RecursionRuns
    <2>4. ASSUME NEW k \in 1 .. n PROVE g[k] = g[k - 1] + p[k - 1] * ValueOf(X[n + 1 - k])
      <3>1. k - 1 \in 0 .. n OBVIOUS
      <3>2. g[k - 1] \in Nat BY <3>1
      <3>3. g[k] = F[k][g[k - 1]] BY <2>3 DEF Runs
      <3> QED BY <2>1, <3>2, <3>3
    <2>5. g[0] = 0 BY <2>3 DEF Runs
    <2> QED BY <2>4, <2>5 DEF Lasts
  <1>8. l = sums(l)
    <2>1. ASSUME NEW k \in 0 .. n PROVE l[k] = sums(l)[k]
      <3>1. CASE k = 0 BY <1>7, <3>1 DEF Lasts
      <3>2. CASE k # 0
        <4>1. k \in 1 .. n BY <3>2
        <4>2. sums(l)[k] = l[k - 1] + place[k - 1] * ValueOf(X[n + 1 - k]) BY <3>2
        <4>3. l[k] = l[k - 1] + p[k - 1] * ValueOf(X[n + 1 - k]) BY <1>7, <4>1 DEF Lasts
        <4>4. place[k - 1] = p[k - 1] BY <1>6, <4>1
        <4> QED BY <4>2, <4>3, <4>4
      <3> QED BY <3>1, <3>2
    <2>2. l = [k \in 0 .. n |-> l[k]] BY <1>7 DEF Lasts
    <2> HIDE DEF sums
    <2>3. sums(l) = [k \in 0 .. n |-> sums(l)[k]] BY DEF sums
    <2> QED BY <2>1, <2>2, <2>3
  <1>9. last = sums(last) BY <1>8
  <1> HIDE DEF last
  <1>10. /\ last[0] = 0
         /\ \A k \in 1 .. n : last[k] = last[k - 1] + place[k - 1] * ValueOf(X[n + 1 - k])
    BY <1>9
  <1>11. \A k \in 0 .. n : last[k] = l[k]
    <2> DEFINE T == {i \in 0 .. n : last[i] # l[i]}
    <2>1. SUFFICES ASSUME T # {} PROVE FALSE OBVIOUS
    <2>2. T \subseteq Nat OBVIOUS
    <2>3. PICK m \in T : \A j \in T : m <= j
      <3> HIDE DEF T
      <3> QED BY <2>1, <2>2, LeastNumber
    <2>4. m \in 1 .. n /\ last[m] # l[m] BY <1>7, <1>10, <2>3 DEF Lasts
    <2>5. m - 1 \in 0 .. n /\ m - 1 \notin T BY <2>3, <2>4
    <2>6. last[m - 1] = l[m - 1] /\ place[m - 1] = p[m - 1] BY <1>6, <2>4, <2>5
    <2>7. last[m] = last[m - 1] + place[m - 1] * ValueOf(X[n + 1 - m]) BY <1>10, <2>4
    <2>8. l[m] = l[m - 1] + p[m - 1] * ValueOf(X[n + 1 - m]) BY <1>7, <2>4 DEF Lasts
    <2> QED BY <2>4, <2>6, <2>7, <2>8
  <1> QED BY <1>0, <1>1, <1>7, <1>11

\* Reading digit by digit gives what the digits are worth.
LEMMA NumberIsWorth ==
    ASSUME NEW X \in Seq(Digits), NEW n \in Nat, n = Len(X)
    PROVE  Number(X) = Worth(X, n)
  <1>1. PICK h : Horner(h, X, n) /\ Number(X) = h[n] BY NumberIs
  <1>2. PICK p, l : Places(p, n) /\ Lasts(l, p, X, n) /\ Worth(X, n) = l[n] BY WorthIs
  <1> DEFINE T == {i \in 0 .. n : h[i] * p[n - i] + l[n - i] # l[n]}
  <1>3. T = {}
    <2>1. SUFFICES ASSUME T # {} PROVE FALSE OBVIOUS
    <2>2. T \subseteq Nat OBVIOUS
    <2>3. PICK m \in T : \A j \in T : m <= j
      <3> HIDE DEF T
      <3> QED BY <2>1, <2>2, LeastNumber
    <2>4. m \in 0 .. n /\ h[m] * p[n - m] + l[n - m] # l[n] OBVIOUS
    <2>5. m # 0
      <3> SUFFICES ASSUME m = 0 PROVE FALSE OBVIOUS
      <3>1. PICK a \in Nat, t \in Nat : a = l[n] /\ t = p[n]
        BY <1>2 DEF Places, Lasts
      <3>2. h[m] = 0 /\ n - m = n BY <1>1 DEF Horner
      <3>3. 0 * t + a = a OBVIOUS
      <3> QED BY <2>4, <3>1, <3>2, <3>3
    <2>6. m - 1 \in 0 .. n /\ m - 1 \notin T BY <2>3, <2>4, <2>5
    <2>7. h[m - 1] * p[n - (m - 1)] + l[n - (m - 1)] = l[n] BY <2>6
    <2>8. PICK k \in 1 .. n : k = n - (m - 1) BY <2>4, <2>5
    <2>9. k - 1 = n - m /\ k - 1 \in 0 .. n /\ m \in 1 .. n /\ n + 1 - k = m
      BY <2>4, <2>5, <2>8
    <2>10. PICK v \in Nat : v = ValueOf(X[m])
      <3>1. X[m] \in Digits BY <2>9, ElementOfSeq
      <3>2. ValueOf(X[m]) \in 0 .. 9 BY <3>1, DigitValue
      <3> QED BY <3>2
    <2>11. PICK a \in Nat, t \in Nat, s \in Nat :
              a = h[m - 1] /\ t = p[k - 1] /\ s = l[k - 1]
      BY <1>1, <1>2, <2>6, <2>9 DEF Horner, Places, Lasts
    <2>12. h[m] = 10 * a + v BY <1>1, <2>9, <2>10, <2>11 DEF Horner
    <2>13. p[k] = 10 * t /\ l[k] = s + t * v
      <3>1. p[k] = 10 * p[k - 1] /\ l[k] = l[k - 1] + p[k - 1] * ValueOf(X[n + 1 - k])
        BY <1>2 DEF Places, Lasts
      <3> QED BY <2>9, <2>10, <2>11, <3>1
    <2>14. a * (10 * t) + (s + t * v) = l[n] BY <2>7, <2>8, <2>11, <2>13
    <2>15. (10 * a + v) * t + s = a * (10 * t) + (s + t * v) OBVIOUS
    <2> QED BY <2>4, <2>9, <2>11, <2>12, <2>14, <2>15
  <1>4. n \in 0 .. n /\ n \notin T BY <1>3
  <1>5. h[n] * p[n - n] + l[n - n] = l[n] BY <1>4
  <1>6. PICK a \in Nat : a = h[n] BY <1>1 DEF Horner
  <1>7. n - n = 0 /\ p[0] = 1 /\ l[0] = 0 BY <1>2 DEF Places, Lasts
  <1>8. a * 1 + 0 = a OBVIOUS
  <1> QED BY <1>1, <1>2, <1>5, <1>6, <1>7, <1>8

-----------------------------------------------------------------------------
\* What fmt writes for m: its digits, the first of which is not zero.
Spells(x, m) == /\ x \in Seq(Digits) /\ Len(x) >= 1 /\ Number(x) = m
                /\ m # 0 => x[1] # "0"
                /\ m < 10 => Len(x) = 1
                /\ m \in 10 .. 99 => Len(x) = 2

\* One digit spells itself.
LEMMA DigitSpells ==
    ASSUME NEW m \in 0 .. 9
    PROVE  Spells(<<DigitText[m + 1]>>, m)
  <1>1. PICK d \in Digits : d = DigitText[m + 1] /\ ValueOf(d) = m /\ (m # 0 => d # "0")
    BY DigitValue
  <1>2. <<d>> \in Seq(Digits) /\ Len(<<d>>) = 1 /\ <<d>>[1] = d OBVIOUS
  <1>3. Number(<<d>>) = m
    <2>1. <<>> \in Seq(Digits) /\ <<d>> = Append(<<>>, d) OBVIOUS
    <2>2. Number(<<>>) = 0
      <3>1. 0 \in Nat /\ 0 = Len(<<>>) OBVIOUS
      <3>2. PICK h : Horner(h, <<>>, 0) /\ Number(<<>>) = h[0] BY <2>1, <3>1, NumberIs
      <3> QED BY <3>2 DEF Horner
    <2>3. Number(Append(<<>>, d)) = 10 * Number(<<>>) + ValueOf(d) BY <2>1, NumberAppend
    <2> QED BY <1>1, <2>1, <2>2, <2>3
  <1> QED BY <1>1, <1>2, <1>3 DEF Spells

\* One digit more spells ten times as much and this digit.
LEMMA NextDigitSpells ==
    ASSUME NEW m \in Nat, m >= 10, NEW x, Spells(x, m \div 10)
    PROVE  Spells(Append(x, DigitText[(m % 10) + 1]), m)
  <1>0. PICK q \in Nat, r \in 0 .. 9 : q = m \div 10 /\ r = m % 10
    OBVIOUS
  <1>1. m = 10 * q + r BY <1>0
  <1>2. q # 0 /\ (m \in 10 .. 99 => q < 10) BY <1>1
  <1>3. PICK d \in Digits : d = DigitText[r + 1] /\ ValueOf(d) = r
    BY DigitValue
  <1>4. /\ x \in Seq(Digits) /\ Len(x) >= 1 /\ Number(x) = q /\ x[1] # "0"
        /\ (q < 10 => Len(x) = 1)
    BY <1>0, <1>2 DEF Spells
  <1>5. PICK y : y = Append(x, d) OBVIOUS
  <1>6. y \in Seq(Digits) /\ Len(y) = Len(x) + 1 /\ y[1] = x[1]
    <2>1. PICK k \in Nat : k = Len(x) /\ k >= 1 BY <1>4
    <2>2. y \in Seq(Digits) BY <1>4, <1>5
    <2>3. Len(y) = k + 1 BY <1>4, <1>5, <2>1
    <2>4. \A i \in 1 .. k : y[i] = x[i] BY <1>4, <1>5, <2>1
    <2> QED BY <2>1, <2>2, <2>3, <2>4
  <1>7. Number(y) = 10 * q + r BY <1>3, <1>4, <1>5, NumberAppend
  <1>8. Spells(y, m)
    <2>1. PICK k \in Nat : k = Len(x) /\ k >= 1 BY <1>4
    <2>2. Len(y) >= 1 BY <1>6, <2>1
    <2>3. m \in 10 .. 99 => Len(y) = 2 BY <1>2, <1>4, <1>6, <2>1
    <2>4. Number(y) = m /\ y[1] # "0" /\ ~(m < 10) BY <1>1, <1>4, <1>6, <1>7
    <2> QED BY <1>6, <2>2, <2>3, <2>4 DEF Spells
  <1> QED BY <1>0, <1>3, <1>5, <1>8

\* fmt's %d spells every natural number.
LEMMA DecimalSpells ==
    ASSUME NEW n \in Nat
    PROVE  Spells(Decimal(n), n)
  <1> DEFINE step(g, m) == [j \in 0 .. m |-> IF j < 10 THEN <<DigitText[j + 1]>>
                               ELSE Append(g[j \div 10], DigitText[(j % 10) + 1])]
             decimal == CHOOSE g : g = step(g, n)
  <1>1. \A m \in Nat : \E g : g = step(g, m)
    <2> DEFINE T == {m \in Nat : ~ \E g : g = step(g, m)}
    <2>1. SUFFICES ASSUME T # {} PROVE FALSE OBVIOUS
    <2>2. T \subseteq Nat OBVIOUS
    <2>3. PICK m \in T : \A j \in T : m <= j
      <3> HIDE DEF T
      <3> QED BY <2>1, <2>2, LeastNumber
    <2>4. m \in Nat /\ ~ \E g : g = step(g, m) BY <2>3
    <2>5. PICK g : m # 0 => g = step(g, m - 1)
      <3>1. m # 0 => m - 1 \in Nat /\ m - 1 \notin T
        <4> HIDE DEF T
        <4>1. m \in Nat BY <2>4
        <4>2. m # 0 => m - 1 \in Nat /\ ~(m <= m - 1) BY <4>1
        <4> QED BY <2>3, <4>2
      <3>2. m # 0 => \E g : g = step(g, m - 1) BY <3>1
      <3> QED BY <3>2
    <2>6. PICK h : h = [j \in 0 .. m |-> IF j < m THEN g[j]
                            ELSE IF m < 10 THEN <<DigitText[m + 1]>>
                            ELSE Append(g[m \div 10], DigitText[(m % 10) + 1])]
      OBVIOUS
    <2>7. ASSUME NEW j \in 0 .. m PROVE h[j] = step(h, m)[j]
      <3>1. j >= 10 => j \div 10 \in 0 .. m /\ j \div 10 < m
        <4>1. j >= 10 => j \div 10 \in Nat /\ j \div 10 < j OBVIOUS
        <4> QED BY <2>4, <4>1
      <3>2. j >= 10 => h[j \div 10] = g[j \div 10] BY <2>6, <3>1
      <3>3. CASE j = m
        BY <2>6, <3>2, <3>3
      <3>4. CASE j # m
        <4>1. j \in 0 .. m - 1 /\ j < m /\ m # 0 BY <2>4, <3>4
        <4>2. h[j] = g[j] BY <2>6, <4>1
        <4>3. g[j] = step(g, m - 1)[j] BY <2>5, <4>1
        <4>4. g[j] = IF j < 10 THEN <<DigitText[j + 1]>>
                     ELSE Append(g[j \div 10], DigitText[(j % 10) + 1])
          BY <4>1, <4>3
        <4> QED BY <3>2, <4>2, <4>4
      <3> QED BY <3>3, <3>4
    <2>8. h = [j \in 0 .. m |-> h[j]] BY <2>6
    <2> HIDE DEF step
    <2>9. step(h, m) = [j \in 0 .. m |-> step(h, m)[j]] BY DEF step
    <2>10. h = step(h, m) BY <2>7, <2>8, <2>9
    <2> QED BY <2>4, <2>10
  <1>2. decimal = step(decimal, n) BY <1>1
  <1>3. Decimal(n) = decimal[n] BY DEF Decimal
  <1> HIDE DEF decimal
  <1>4. \A j \in 0 .. n : decimal[j] = IF j < 10 THEN <<DigitText[j + 1]>>
                             ELSE Append(decimal[j \div 10], DigitText[(j % 10) + 1])
    BY <1>2
  <1>5. \A j \in 0 .. n : Spells(decimal[j], j)
    <2> DEFINE T == {j \in 0 .. n : ~ Spells(decimal[j], j)}
    <2>1. SUFFICES ASSUME T # {} PROVE FALSE OBVIOUS
    <2>2. T \subseteq Nat OBVIOUS
    <2>3. PICK m \in T : \A j \in T : m <= j
      <3> HIDE DEF T
      <3> QED BY <2>1, <2>2, LeastNumber
    <2>4. m \in 0 .. n /\ m \in Nat /\ ~ Spells(decimal[m], m) OBVIOUS
    <2>5. CASE m < 10
      <3>1. m \in 0 .. 9 BY <2>4, <2>5
      <3> QED BY <1>4, <2>4, <2>5, <3>1, DigitSpells
    <2>6. CASE ~(m < 10)
      <3>1. m \div 10 \in 0 .. n /\ m \div 10 < m
        <4>1. m \div 10 \in Nat /\ m \div 10 < m BY <2>4, <2>6
        <4> QED BY <2>4, <4>1
      <3>2. m \div 10 \notin T BY <2>3, <2>4, <3>1
      <3>3. Spells(decimal[m \div 10], m \div 10) BY <3>1, <3>2
      <3>4. decimal[m] = Append(decimal[m \div 10], DigitText[(m % 10) + 1])
        BY <1>4, <2>4, <2>6
      <3>5. m >= 10 BY <2>4, <2>6
      <3>6. PICK x : x = decimal[m \div 10] OBVIOUS
      <3>7. Spells(Append(x, DigitText[(m % 10) + 1]), m)
        BY <2>4, <3>3, <3>5, <3>6, NextDigitSpells
      <3> QED BY <2>4, <3>4, <3>6, <3>7
    <2> QED BY <2>5, <2>6
  <1> QED BY <1>3, <1>5

-----------------------------------------------------------------------------
\* ParseInt refuses what has no place in an int64.
Bounded(m) == IF m \in Int64 THEN [ok |-> TRUE, minor |-> m] ELSE Refused

\* The parts that a spelled amount is split into.
LEMMA SpelledParts ==
    ASSUME NEW S, NEW t \in Seq(S), Spelled(t), NEW n \in Nat, n = Len(t)
    PROVE  /\ {i \in DOMAIN t : t[i] = "."} = {n - 2}
           /\ SubSeq(t, 1, n - 3) \in Seq(Digits) /\ SubSeq(t, 1, n - 3) # <<>>
           /\ SubSeq(t, n - 1, n) \in Seq(Digits) /\ Len(SubSeq(t, n - 1, n)) = 2
           /\ SubSeq(t, 1, n - 3) \o SubSeq(t, n - 1, n) = Undotted(t)
           /\ Undotted(t) \in Seq(Digits) /\ Len(Undotted(t)) = n - 1
  <1>1. /\ n >= 4 /\ t[n - 2] = "." /\ DOMAIN t = 1 .. n
        /\ \A i \in (1 .. n) \ {n - 2} : t[i] \in Digits
    BY DEF Spelled
  <1>2. {i \in DOMAIN t : t[i] = "."} = {n - 2}
    <2>1. n - 2 \in 1 .. n BY <1>1
    <2>2. \A i \in (1 .. n) \ {n - 2} : t[i] # "." BY <1>1, DigitValue
    <2> QED BY <1>1, <2>1, <2>2
  <1>3. PICK W, C, U : W = SubSeq(t, 1, n - 3) /\ C = SubSeq(t, n - 1, n) /\ U = Undotted(t)
    OBVIOUS
  <1>4. W \in Seq(S) /\ Len(W) = n - 3 /\ \A i \in 1 .. n - 3 : W[i] = t[i]
    <2>1. W \in Seq(S) BY <1>1, <1>3
    <2>2. Len(W) = n - 3 BY <1>1, <1>3
    <2>3. \A i \in 1 .. n - 3 : W[i] = t[i] BY <1>1, <1>3
    <2> QED BY <2>1, <2>2, <2>3
  <1>5. C \in Seq(S) /\ Len(C) = 2 /\ C[1] = t[n - 1] /\ C[2] = t[n]
    <2>1. C \in Seq(S) BY <1>1, <1>3
    <2>2. Len(C) = 2 BY <1>1, <1>3
    <2>3. \A i \in 1 .. 2 : C[i] = t[n - 2 + i] BY <1>1, <1>3
    <2>4. n - 2 + 1 = n - 1 /\ n - 2 + 2 = n /\ 1 \in 1 .. 2 /\ 2 \in 1 .. 2 OBVIOUS
    <2> QED BY <2>1, <2>2, <2>3, <2>4
  <1>6. W \in Seq(Digits) /\ W # <<>>
    <2>1. \A i \in 1 .. n - 3 : W[i] \in Digits BY <1>1, <1>4
    <2>2. W \in [1 .. n - 3 -> Digits] /\ n - 3 \in Nat BY <1>1, <1>4, <2>1
    <2>3. W \in Seq(Digits) BY <2>2, SeqDef
    <2>4. W # <<>> BY <1>1, <1>4
    <2> QED BY <2>3, <2>4
  <1>7. C \in Seq(Digits)
    <2>1. C[1] \in Digits /\ C[2] \in Digits BY <1>1, <1>5
    <2>2. \A i \in 1 .. 2 : C[i] \in Digits BY <2>1
    <2>3. C \in [1 .. 2 -> Digits] /\ 2 \in Nat BY <1>5, <2>2
    <2> QED BY <2>3, SeqDef
  <1>8. /\ U \in Seq(Digits) /\ Len(U) = n - 1
        /\ \A i \in 1 .. n - 1 : U[i] = t[IF i < n - 2 THEN i ELSE i + 1]
    <2>1. U = [i \in 1 .. n - 1 |-> t[IF i < n - 2 THEN i ELSE i + 1]] /\ n - 1 \in Nat
      BY <1>1, <1>3 DEF Undotted
    <2>2. ASSUME NEW i \in 1 .. n - 1 PROVE t[IF i < n - 2 THEN i ELSE i + 1] \in Digits
      <3>1. (IF i < n - 2 THEN i ELSE i + 1) \in (1 .. n) \ {n - 2} BY <1>1
      <3> QED BY <1>1, <3>1
    <2>3. U \in [1 .. n - 1 -> Digits] BY <2>1, <2>2
    <2>4. U \in Seq(Digits) BY <2>1, <2>3, SeqDef
    <2>5. Len(U) = n - 1 BY <2>1, <2>4
    <2> QED BY <2>1, <2>4, <2>5
  <1>9. PICK E : E = W \o C OBVIOUS
  <1>10. /\ E \in Seq(Digits) /\ Len(E) = n - 1
         /\ \A i \in 1 .. n - 1 : E[i] = IF i <= n - 3 THEN W[i] ELSE C[i - (n - 3)]
    <2>1. /\ E \in Seq(Digits) /\ Len(E) = Len(W) + Len(C)
          /\ \A i \in 1 .. Len(W) + Len(C) :
                E[i] = IF i <= Len(W) THEN W[i] ELSE C[i - Len(W)]
      BY <1>6, <1>7, <1>9, ConcatProperties
    <2>2. Len(W) = n - 3 /\ Len(W) + Len(C) = n - 1 BY <1>4, <1>5
    <2> QED BY <2>1, <2>2
  <1>11. ASSUME NEW i \in 1 .. n - 1 PROVE E[i] = U[i]
    <2>1. CASE i <= n - 3 BY <1>1, <1>4, <1>8, <1>10, <2>1
    <2>2. CASE ~(i <= n - 3)
      <3>1. i = n - 2 \/ i = n - 1 BY <2>2
      <3>2. E[i] = C[i - (n - 3)] BY <1>10, <2>2
      <3>3. U[i] = t[i + 1] BY <1>8, <2>2
      <3>4. (n - 2) - (n - 3) = 1 /\ (n - 1) - (n - 3) = 2 /\ (n - 2) + 1 = n - 1
            /\ (n - 1) + 1 = n
        OBVIOUS
      <3>5. CASE i = n - 2 BY <1>5, <3>2, <3>3, <3>4, <3>5
      <3>6. CASE i = n - 1 BY <1>5, <3>2, <3>3, <3>4, <3>6
      <3> QED BY <3>1, <3>5, <3>6
    <2> QED BY <2>1, <2>2
  <1>12. E = U BY <1>8, <1>10, <1>11, SeqEqual
  <1> QED BY <1>2, <1>3, <1>5, <1>6, <1>7, <1>8, <1>9, <1>12

\* The least member of a set of one number.
LEMMA MinOfOne ==
    ASSUME NEW d \in Int
    PROVE  Min({d}) = d
  BY DEF Min

\* A spelled amount is taken for its digits, with a sign or without.
LEMMA ParseSpelled ==
    ASSUME NEW S, NEW t \in Seq(S), Spelled(t)
    PROVE  /\ ParseMinorUnits(t) = Bounded(Number(Undotted(t)))
           /\ ParseMinorUnits(<<"-">> \o t) = Bounded(-Number(Undotted(t)))
           /\ Head(t) # "-" /\ t # <<>> /\ Tail(<<"-">> \o t) = t
           /\ Number(Undotted(t)) \in Nat
  <1>0. PICK n \in Nat : n = Len(t) OBVIOUS
  <1>1. PICK D, d, W, C, N :
           /\ D = {i \in DOMAIN t : t[i] = "."} /\ d = n - 2 /\ N = Number(Undotted(t))
           /\ W = SubSeq(t, 1, n - 3) /\ C = SubSeq(t, n - 1, n)
    OBVIOUS
  <1>2. /\ D = {d} /\ W \in Seq(Digits) /\ W # <<>> /\ C \in Seq(Digits) /\ Len(C) = 2
        /\ W \o C = Undotted(t) /\ Undotted(t) \in Seq(Digits)
    BY <1>0, <1>1, SpelledParts
  <1>3. Cardinality(D) = 1 /\ Min(D) = d
    <2>1. Cardinality({d}) = 1 BY FS_Singleton
    <2>2. d \in Int BY <1>1
    <2> QED BY <1>2, <2>1, <2>2, MinOfOne
  <1>4. AllDigits(W) /\ AllDigits(C)
    <2>1. ASSUME NEW X \in Seq(Digits) PROVE AllDigits(X)
      <3>1. DOMAIN X = 1 .. Len(X) OBVIOUS
      <3>2. \A i \in 1 .. Len(X) : X[i] \in Digits BY ElementOfSeq
      <3> QED BY <3>1, <3>2 DEF AllDigits
    <2> QED BY <1>2, <2>1
  <1>5. N \in Nat
    <2>1. PICK d0 \in Digits : TRUE
      BY DigitValue
    <2> QED BY <1>1, <1>2, <2>1, NumberAppend
  <1>6. n >= 4 /\ t[1] \in Digits
    <2>1. n >= 4 /\ \A i \in (1 .. n) \ {n - 2} : t[i] \in Digits BY <1>0 DEF Spelled
    <2>2. 1 \in (1 .. n) \ {n - 2} BY <2>1
    <2> QED BY <2>1, <2>2
  <1>7. Head(t) # "-" /\ t # <<>>
    <2>1. t # <<>> BY <1>0, <1>6
    <2>2. Head(t) = t[1] BY <2>1
    <2> QED BY <1>6, <2>1, <2>2, DigitValue
  <1>8. d - 1 = n - 3 /\ d + 1 = n - 1 BY <1>1
  <1>9. ParseMinorUnits(t) = Bounded(1 * N)
    BY <1>0, <1>1, <1>2, <1>3, <1>4, <1>7, <1>8 DEF ParseMinorUnits, Bounded
  <1>10. PICK u : u = <<"-">> \o t OBVIOUS
  <1>11. u # <<>> /\ Head(u) = "-" /\ Tail(u) = t
    <2>1. <<"-">> \in Seq(S \cup {"-"}) /\ t \in Seq(S \cup {"-"}) /\ Len(<<"-">>) = 1
          /\ <<"-">>[1] = "-"
      BY SeqMonotonic
    <2>2. /\ u \in Seq(S \cup {"-"}) /\ Len(u) = Len(<<"-">>) + Len(t)
          /\ \A i \in 1 .. Len(<<"-">>) + Len(t) :
                u[i] = IF i <= Len(<<"-">>) THEN <<"-">>[i] ELSE t[i - Len(<<"-">>)]
      BY <1>10, <2>1, ConcatProperties
    <2>3. /\ Len(u) = n + 1 /\ \A i \in 1 .. n + 1 : u[i] = IF i <= 1 THEN <<"-">>[i] ELSE t[i - 1]
      BY <1>0, <2>1, <2>2
    <2>4. u # <<>> BY <2>2, <2>3
    <2>5. u[1] = "-"
      <3>1. 1 \in 1 .. n + 1 /\ 1 <= 1 OBVIOUS
      <3> QED BY <2>1, <2>3, <3>1
    <2>6. Head(u) = u[1] BY <2>2, <2>4
    <2>7. PICK v : v = Tail(u) OBVIOUS
    <2>8. /\ v \in Seq(S \cup {"-"}) /\ Len(v) = Len(u) - 1
          /\ \A i \in 1 .. Len(v) : v[i] = u[i + 1]
      BY <2>2, <2>4, <2>7, HeadTailProperties
    <2>9. Len(v) = n BY <2>3, <2>8
    <2>10. ASSUME NEW i \in 1 .. n PROVE v[i] = t[i]
      <3>1. i + 1 \in 1 .. n + 1 /\ ~(i + 1 <= 1) /\ (i + 1) - 1 = i OBVIOUS
      <3>2. v[i] = u[i + 1] BY <2>8, <2>9
      <3> QED BY <2>3, <3>1, <3>2
    <2>11. v = t BY <1>0, <2>1, <2>8, <2>9, <2>10, SeqEqual
    <2> QED BY <2>4, <2>5, <2>6, <2>7, <2>11
  <1>12. ParseMinorUnits(u) = Bounded((-1) * N)
    BY <1>0, <1>1, <1>2, <1>3, <1>4, <1>8, <1>11 DEF ParseMinorUnits, Bounded
  <1>13. 1 * N = N /\ (-1) * N = -N BY <1>5
  <1> QED BY <1>1, <1>5, <1>7, <1>9, <1>10, <1>11, <1>12, <1>13

\* What is not spelled so is refused.
LEMMA ParseRefuses ==
    ASSUME NEW S, NEW t \in Seq(S), ~ Spelled(t), ~(t # <<>> /\ Head(t) = "-")
    PROVE  ParseMinorUnits(t) = Refused
  <1>0. PICK n \in Nat : n = Len(t) /\ DOMAIN t = 1 .. n OBVIOUS
  <1>1. PICK D, d, W, C :
           /\ D = {i \in DOMAIN t : t[i] = "."} /\ d = Min(D)
           /\ W = SubSeq(t, 1, d - 1) /\ C = SubSeq(t, d + 1, n)
    OBVIOUS
  <1>2. SUFFICES ASSUME Cardinality(D) = 1, W # <<>>, Len(C) = 2, AllDigits(W), AllDigits(C)
                 PROVE  Spelled(t)
    BY <1>0, <1>1 DEF ParseMinorUnits
  <1>3. d \in 1 .. n /\ D = {d}
    <2>1. IsFiniteSet(1 .. n) /\ D \subseteq 1 .. n BY <1>0, <1>1, FS_Interval
    <2>2. IsFiniteSet(D) BY <2>1, FS_Subset
    <2>3. PICK e : D = {e} BY <1>2, <2>2, FS_Singleton
    <2>4. e \in 1 .. n BY <2>1, <2>3
    <2>5. Min({e}) = e BY <2>4, MinOfOne
    <2> QED BY <1>1, <2>3, <2>4, <2>5
  <1>4. t[d] = "." BY <1>1, <1>3
  <1>5. /\ d > 1 /\ Len(W) = d - 1 /\ DOMAIN W = 1 .. d - 1
        /\ \A i \in 1 .. d - 1 : W[i] = t[i]
    <2>1. d > 1
      <3>1. d = 1 => W = <<>>
        <4>1. d = 1 => 1 \in Int /\ d - 1 \in Int /\ d - 1 < 1 BY <1>3
        <4> QED BY <1>1, <4>1, SubSeqEmpty
      <3> QED BY <1>2, <1>3, <3>1
    <2>2. PICK e \in 1 .. n : e = d - 1 BY <1>3, <2>1
    <2>3. W = SubSeq(t, 1, e) BY <1>1, <2>2
    <2>4. W \in Seq(S) BY <1>0, <2>3
    <2>5. Len(W) = e BY <1>0, <2>3
    <2>6. \A i \in 1 .. e : W[i] = t[i] BY <1>0, <2>3
    <2> QED BY <2>1, <2>2, <2>4, <2>5, <2>6
  <1>6. d = n - 2
    <2>1. d + 1 <= n => Len(C) = n - d BY <1>0, <1>1, <1>3
    <2>2. ~(d + 1 <= n) => Len(C) = 0 BY <1>0, <1>1, <1>3
    <2> QED BY <1>2, <1>3, <2>1, <2>2
  <1>7. n >= 4
    BY <1>3, <1>5, <1>6
  <1>8. DOMAIN C = 1 .. 2 /\ \A i \in 1 .. 2 : C[i] = t[d + i]
    <2>1. d + 1 \in Int /\ n \in Int /\ \A i \in d + 1 .. n : t[i] \in S
      BY <1>0, <1>3
    <2>2. PICK e \in Int : e = d + 1 /\ n - e + 1 = 2 BY <1>3, <1>6
    <2>3. /\ SubSeq(t, e, n) \in Seq(S)
          /\ \A i \in 1 .. n - e + 1 : SubSeq(t, e, n)[i] = t[e + i - 1]
      BY <2>1, <2>2, SubSeqProperties
    <2>4. C \in Seq(S) /\ \A i \in 1 .. 2 : C[i] = t[e + i - 1] BY <1>1, <2>2, <2>3
    <2>5. \A i \in 1 .. 2 : e + i - 1 = d + i BY <1>3, <2>2
    <2>6. \A i \in 1 .. 2 : C[i] = t[d + i] BY <2>4, <2>5
    <2> QED BY <1>2, <2>4, <2>6
  <1>9. ASSUME NEW i \in (1 .. n) \ {n - 2} PROVE t[i] \in Digits
    <2>1. CASE i < n - 2
      <3>1. i \in 1 .. d - 1 BY <1>6, <2>1
      <3> QED BY <1>2, <1>5, <3>1 DEF AllDigits
    <2>2. CASE ~(i < n - 2)
      <3>1. i - d \in 1 .. 2 /\ d + (i - d) = i BY <1>3, <1>6, <2>2
      <3> QED BY <1>2, <1>8, <3>1 DEF AllDigits
    <2> QED BY <2>1, <2>2
  <1> QED BY <1>0, <1>4, <1>6, <1>7, <1>9 DEF Spelled

\* The format %02d, and a whole number of units with cents.
Padded(c) == IF Len(c) = 1 THEN <<"0">> \o c ELSE c
Dotted(W, a, b) == (W \o <<".">>) \o <<a, b>>

\* Two digits, one after the other.
LEMMA PairJoins ==
    ASSUME NEW S, NEW a \in S, NEW b \in S
    PROVE  <<a>> \o <<b>> = <<a, b>>
  <1>1. PICK A, B, P, E : A = <<a>> /\ B = <<b>> /\ P = <<a, b>> /\ E = A \o B OBVIOUS
  <1>2. A \in Seq(S) /\ B \in Seq(S) /\ Len(A) = 1 /\ Len(B) = 1 /\ A[1] = a /\ B[1] = b
    BY <1>1
  <1>3. P \in Seq(S) /\ Len(P) = 2 /\ P[1] = a /\ P[2] = b BY <1>1
  <1>4. /\ E \in Seq(S) /\ Len(E) = Len(A) + Len(B)
        /\ \A i \in 1 .. Len(A) + Len(B) : E[i] = IF i <= Len(A) THEN A[i] ELSE B[i - Len(A)]
    BY <1>1, <1>2, ConcatProperties
  <1>5. Len(E) = 2 /\ \A i \in 1 .. 2 : E[i] = IF i <= 1 THEN A[i] ELSE B[i - 1]
    BY <1>2, <1>4
  <1>6. ASSUME NEW i \in 1 .. 2 PROVE E[i] = P[i]
    <2>1. i = 1 \/ i = 2 OBVIOUS
    <2>2. 2 - 1 = 1 /\ 1 <= 1 /\ ~(2 <= 1) OBVIOUS
    <2> QED BY <1>2, <1>3, <1>5, <2>1, <2>2
  <1>7. E = P BY <1>3, <1>4, <1>5, <1>6, SeqEqual
  <1> QED BY <1>1, <1>7

\* The cents are written with two digits.
LEMMA CentsPadded ==
    ASSUME NEW r \in 0 .. 99, NEW c, Spells(c, r)
    PROVE  \E a, b \in Digits : Padded(c) = <<a, b>> /\ 10 * ValueOf(a) + ValueOf(b) = r
  <1>0. PICK z \in Digits : z = "0" /\ ValueOf(z) = 0
    <2>1. 0 \in 0 .. 9 /\ DigitText[0 + 1] = "0" BY DEF DigitText
    <2> QED BY <2>1, DigitValue
  <1>1. c \in Seq(Digits) /\ Number(c) = r BY DEF Spells
  <1>2. <<>> \in Seq(Digits) /\ Number(<<>>) = 0
    <2>1. <<>> \in Seq(Digits) /\ 0 \in Nat /\ 0 = Len(<<>>) OBVIOUS
    <2>2. PICK h : Horner(h, <<>>, 0) /\ Number(<<>>) = h[0] BY <2>1, NumberIs
    <2> QED BY <2>1, <2>2 DEF Horner
  <1>3. ASSUME NEW d \in Digits PROVE <<d>> \in Seq(Digits) /\ Number(<<d>>) = ValueOf(d)
    <2>1. <<d>> = Append(<<>>, d) /\ <<d>> \in Seq(Digits) OBVIOUS
    <2>2. Number(Append(<<>>, d)) = 10 * Number(<<>>) + ValueOf(d) BY <1>2, NumberAppend
    <2>3. ValueOf(d) \in 0 .. 9 BY DigitValue
    <2> QED BY <1>2, <2>1, <2>2, <2>3
  <1>4. CASE r < 10
    <2>1. Len(c) = 1 BY <1>4 DEF Spells
    <2>2. PICK d \in Digits : c = <<d>>
      <3>1. c[1] \in Digits
        <4>1. 1 \in 1 .. Len(c) BY <2>1
        <4> QED BY <1>1, <4>1, ElementOfSeq
      <3>2. c = <<c[1]>> BY <1>1, <2>1
      <3> QED BY <3>1, <3>2
    <2>3. Padded(c) = <<z, d>>
      <3>1. <<z>> \o <<d>> = <<z, d>> BY PairJoins
      <3> QED BY <1>0, <2>1, <2>2, <3>1 DEF Padded
    <2>4. ValueOf(d) = r BY <1>1, <1>3, <2>2
    <2>5. 10 * 0 + r = r OBVIOUS
    <2>6. 10 * ValueOf(z) + ValueOf(d) = r BY <1>0, <2>4, <2>5
    <2> QED BY <2>3, <2>6
  <1>5. CASE ~(r < 10)
    <2>1. r \in 10 .. 99 BY <1>5
    <2>2. Len(c) = 2 /\ Padded(c) = c
      <3>1. Len(c) = 2 BY <2>1 DEF Spells
      <3>2. Len(c) # 1 BY <3>1
      <3> QED BY <3>1, <3>2 DEF Padded
    <2>3. PICK a \in Digits, b \in Digits : c = <<a, b>>
      <3>1. c[1] \in Digits /\ c[2] \in Digits BY <1>1, <2>2
      <3>2. c = <<c[1], c[2]>> BY <1>1, <2>2
      <3> QED BY <3>1, <3>2
    <2>4. c = Append(<<a>>, b) BY <2>3
    <2>5. Number(Append(<<a>>, b)) = 10 * Number(<<a>>) + ValueOf(b) BY <1>3, NumberAppend
    <2>6. 10 * ValueOf(a) + ValueOf(b) = r BY <1>1, <1>3, <2>4, <2>5
    <2> QED BY <2>2, <2>3, <2>6
  <1> QED BY <1>4, <1>5

\* Digits, a dot and two digits are spelled; without the dot they are the number.
LEMMA JoinedSpelled ==
    ASSUME NEW q \in Nat, NEW W, Spells(W, q), NEW a \in Digits, NEW b \in Digits,
           NEW t, t = Dotted(W, a, b)
    PROVE  /\ t \in Seq(Digits \cup {"."}) /\ Spelled(t) /\ Len(t) = Len(W) + 3 /\ t[1] = W[1]
           /\ Number(Undotted(t)) = 100 * q + (10 * ValueOf(a) + ValueOf(b))
  <1>1. W \in Seq(Digits) /\ Len(W) >= 1 /\ Number(W) = q BY DEF Spells
  <1>2. PICK k \in Nat : k = Len(W) /\ k >= 1 BY <1>1
  <1>0. PICK S, dot : S = Digits \cup {"."} /\ dot = "." OBVIOUS
  <1>01. a \in S /\ b \in S /\ dot \in S /\ Digits \subseteq S BY <1>0
  <1>3. W \in Seq(S) /\ \A i \in 1 .. k : W[i] \in Digits
    <2>1. \A i \in 1 .. k : W[i] \in Digits BY <1>1, <1>2, ElementOfSeq
    <2>2. W \in Seq(S) BY <1>01, <1>1, SeqMonotonic
    <2> QED BY <2>1, <2>2
  <1>4. t = Append(Append(Append(W, dot), a), b)
    <2>1. PICK V : V = W \o <<dot>> OBVIOUS
    <2>2. V = Append(W, dot) BY <1>01, <1>3, <2>1, AppendIsConcat
    <2>3. V \in Seq(S) BY <1>01, <1>3, <2>2
    <2>4. V \o <<a, b>> = Append(Append(V, a), b)
      <3>1. <<a>> \in Seq(S) /\ <<b>> \in Seq(S) BY <1>01
      <3>2. <<a, b>> = <<a>> \o <<b>> BY PairJoins
      <3>3. V \o (<<a>> \o <<b>>) = (V \o <<a>>) \o <<b>>
        BY <2>3, <3>1, ConcatAssociative
      <3>4. Append(V, a) = V \o <<a>> BY <1>01, <2>3, AppendIsConcat
      <3>5. Append(V, a) \in Seq(S) BY <1>01, <2>3
      <3>6. Append(Append(V, a), b) = Append(V, a) \o <<b>> BY <1>01, <3>5, AppendIsConcat
      <3> QED BY <3>2, <3>3, <3>4, <3>6
    <2> QED BY <1>0, <2>1, <2>2, <2>4 DEF Dotted
  <1>5. /\ t \in Seq(S) /\ Len(t) = k + 3
        /\ \A i \in 1 .. k : t[i] = W[i]
        /\ t[k + 1] = dot /\ t[k + 2] = a /\ t[k + 3] = b
    <2>1. PICK V : V = Append(W, dot) OBVIOUS
    <2>2. V \in Seq(S) /\ Len(V) = k + 1 /\ V[k + 1] = dot
          /\ \A i \in 1 .. k : V[i] = W[i]
      BY <1>01, <1>2, <1>3, <2>1
    <2>3. PICK X : X = Append(V, a) OBVIOUS
    <2>4. X \in Seq(S) /\ Len(X) = k + 2 /\ X[k + 2] = a
          /\ \A i \in 1 .. k + 1 : X[i] = V[i]
      BY <1>01, <2>2, <2>3
    <2>5. t = Append(X, b) BY <1>4, <2>1, <2>3
    <2>6. t \in Seq(S) /\ Len(t) = k + 3 /\ t[k + 3] = b
          /\ \A i \in 1 .. k + 2 : t[i] = X[i]
      BY <1>01, <2>4, <2>5
    <2>7. \A i \in 1 .. k : i \in 1 .. k + 1 /\ i \in 1 .. k + 2 OBVIOUS
    <2>8. k + 1 \in 1 .. k + 1 /\ k + 1 \in 1 .. k + 2 /\ k + 2 \in 1 .. k + 2 OBVIOUS
    <2> QED BY <2>2, <2>4, <2>6, <2>7, <2>8
  <1>6. PICK n \in Nat : n = k + 3 OBVIOUS
  <1>7. Spelled(t)
    <2>1. ASSUME NEW i \in (1 .. n) \ {n - 2} PROVE t[i] \in Digits
      <3>1. i \in 1 .. k \/ i = k + 2 \/ i = k + 3 BY <1>6
      <3> QED BY <1>3, <1>5, <3>1
    <2>2. n >= 4 /\ n - 2 = k + 1 BY <1>2, <1>6
    <2> QED BY <1>0, <1>5, <1>6, <2>1, <2>2 DEF Spelled
  <1>8. PICK U : U = Undotted(t) OBVIOUS
  <1>9. U \in Seq(Digits) /\ Len(U) = n - 1 BY <1>5, <1>6, <1>7, <1>8, SpelledParts
  <1>10. \A i \in 1 .. n - 1 : U[i] = t[IF i < n - 2 THEN i ELSE i + 1]
    BY <1>5, <1>6, <1>8 DEF Undotted
  <1>11. PICK Y, Z : Y = Append(W, a) /\ Z = Append(Y, b) OBVIOUS
  <1>12. Y \in Seq(Digits) /\ Len(Y) = k + 1 /\ Y[k + 1] = a /\ \A i \in 1 .. k : Y[i] = W[i]
    BY <1>1, <1>2, <1>11
  <1>13. Z \in Seq(Digits) /\ Len(Z) = k + 2 /\ Z[k + 2] = b
         /\ \A i \in 1 .. k + 1 : Z[i] = Y[i]
    BY <1>11, <1>12
  <1>14. ASSUME NEW i \in 1 .. k + 2 PROVE U[i] = Z[i]
    <2>1. i \in 1 .. n - 1 /\ n - 2 = k + 1 BY <1>6
    <2>2. CASE i \in 1 .. k
      <3>1. i < n - 2 /\ i \in 1 .. k + 1 BY <2>1, <2>2
      <3> QED BY <1>5, <1>10, <1>12, <1>13, <2>1, <2>2, <3>1
    <2>3. CASE i = k + 1
      <3>1. ~(i < n - 2) /\ i + 1 = k + 2 /\ i \in 1 .. k + 1 BY <2>1, <2>3
      <3> QED BY <1>5, <1>10, <1>12, <1>13, <2>1, <2>3, <3>1
    <2>4. CASE i = k + 2
      <3>1. ~(i < n - 2) /\ i + 1 = k + 3 BY <2>1, <2>4
      <3> QED BY <1>5, <1>10, <1>13, <2>1, <2>4, <3>1
    <2> QED BY <2>2, <2>3, <2>4
  <1>15. U = Z
    <2>1. Len(U) = Len(Z) /\ \A i \in 1 .. Len(U) : U[i] = Z[i]
      <3>1. n - 1 = k + 2 BY <1>6
      <3> QED BY <1>9, <1>13, <1>14, <3>1
    <2> QED BY <1>9, <1>13, <2>1, SeqEqual
  <1>16. Number(Y) = 10 * q + ValueOf(a) BY <1>1, <1>11, NumberAppend
  <1>17. Number(Z) = 10 * Number(Y) + ValueOf(b) BY <1>11, <1>12, NumberAppend
  <1>18. PICK x \in Nat, y \in Nat : x = ValueOf(a) /\ y = ValueOf(b)
    <2>1. ValueOf(a) \in 0 .. 9 /\ ValueOf(b) \in 0 .. 9 BY DigitValue
    <2> QED BY <2>1
  <1>19. 10 * (10 * q + x) + y = 100 * q + (10 * x + y) OBVIOUS
  <1>20. Number(U) = 100 * q + (10 * x + y) BY <1>15, <1>16, <1>17, <1>18, <1>19
  <1>21. t[1] = W[1] /\ Len(t) = Len(W) + 3
    <2>1. 1 \in 1 .. k BY <1>2
    <2> QED BY <1>2, <1>5, <2>1
  <1> QED BY <1>0, <1>5, <1>7, <1>8, <1>18, <1>20, <1>21

\* What String writes of an int64 is parsed as this int64.
LEMMA TextParses ==
    ASSUME NEW m \in Int64
    PROVE  /\ ParseMinorUnits(Text(m)) = [ok |-> TRUE, minor |-> m]
           /\ LET digits == IF m < 0 THEN Tail(Text(m)) ELSE Text(m)
              IN  Len(digits) > 4 => digits[1] # "0"
  <1>0. m \in Int BY WidthAssumption DEF Int64, MinInt
  <1>1. PICK g \in Nat : g = IF m < 0 THEN -(m + 1) + 1 ELSE m BY <1>0
  <1>2. (m < 0 => -g = m) /\ (~(m < 0) => g = m) BY <1>0, <1>1
  <1>3. PICK q \in Nat, r \in 0 .. 99 : q = g \div 100 /\ r = g % 100 OBVIOUS
  <1>4. g = 100 * q + r BY <1>3
  <1>5. PICK W, c : W = Decimal(q) /\ c = Decimal(r) OBVIOUS
  <1>6. Spells(W, q) /\ Spells(c, r)
    <2>1. r \in Nat OBVIOUS
    <2> QED BY <1>5, <2>1, DecimalSpells
  <1>7. PICK C : C = Padded(c) OBVIOUS
  <1>8. PICK a \in Digits, b \in Digits : C = <<a, b>> /\ 10 * ValueOf(a) + ValueOf(b) = r
    BY <1>6, <1>7, CentsPadded
  <1>9. PICK t : t = Dotted(W, a, b) OBVIOUS
  <1>10. /\ t \in Seq(Digits \cup {"."}) /\ Spelled(t) /\ Len(t) = Len(W) + 3 /\ t[1] = W[1]
         /\ Number(Undotted(t)) = 100 * q + (10 * ValueOf(a) + ValueOf(b))
    BY <1>6, <1>9, JoinedSpelled
  <1>11. Number(Undotted(t)) = g BY <1>4, <1>8, <1>10
  <1>12. /\ ParseMinorUnits(t) = Bounded(g) /\ ParseMinorUnits(<<"-">> \o t) = Bounded(-g)
         /\ Tail(<<"-">> \o t) = t
    BY <1>10, <1>11, ParseSpelled
  <1>13. Text(m) = IF m < 0 THEN <<"-">> \o t ELSE t
    <2>1. Text(m) = (((IF m < 0 THEN <<"-">> ELSE <<>>) \o W) \o <<".">>) \o C
      BY <1>1, <1>3, <1>5, <1>7 DEF Text, Padded
    <2>2. PICK S : S = Digits \cup {".", "-"} OBVIOUS
    <2>3. /\ W \in Seq(S) /\ <<".">> \in Seq(S) /\ <<a, b>> \in Seq(S) /\ <<"-">> \in Seq(S)
      <3>1. W \in Seq(Digits) /\ Digits \subseteq S BY <1>6, <2>2 DEF Spells
      <3>2. W \in Seq(S) BY <3>1, SeqMonotonic
      <3> QED BY <2>2, <3>1, <3>2
    <2>4. <<>> \o W = W
      <3>1. W \in Seq(S) BY <2>3
      <3> QED BY <3>1, ConcatEmptySeq
    <2>5. PICK V : V = W \o <<".">> /\ V \in Seq(S)
      <3>1. PICK V, D : D = <<".">> /\ V = W \o D OBVIOUS
      <3>2. V \in Seq(S) BY <2>3, <3>1, ConcatProperties
      <3> QED BY <3>1, <3>2
    <2>6. (<<"-">> \o W) \o <<".">> = <<"-">> \o V BY <2>3, <2>5, ConcatAssociative
    <2>7. (<<"-">> \o V) \o <<a, b>> = <<"-">> \o (V \o <<a, b>>)
      BY <2>3, <2>5, ConcatAssociative
    <2>8. CASE m < 0 BY <1>8, <1>9, <2>1, <2>5, <2>6, <2>7, <2>8 DEF Dotted
    <2>9. CASE ~(m < 0) BY <1>8, <1>9, <2>1, <2>4, <2>9 DEF Dotted
    <2> QED BY <2>8, <2>9
  <1>14. Bounded(m) = [ok |-> TRUE, minor |-> m] BY DEF Bounded
  <1>15. ParseMinorUnits(Text(m)) = [ok |-> TRUE, minor |-> m]
    BY <1>2, <1>12, <1>13, <1>14
  <1>16. (IF m < 0 THEN Tail(Text(m)) ELSE Text(m)) = t BY <1>12, <1>13
  <1>17. Len(t) > 4 => t[1] # "0"
    <2>1. PICK k \in Nat : k = Len(W) /\ k >= 1 BY <1>6 DEF Spells
    <2>2. Len(t) > 4 => k # 1 BY <1>10, <2>1
    <2>3. k # 1 => q # 0 BY <1>6, <2>1 DEF Spells
    <2>4. q # 0 => W[1] # "0" BY <1>6 DEF Spells
    <2> QED BY <1>10, <2>2, <2>3, <2>4
  <1> QED BY <1>15, <1>16, <1>17

-----------------------------------------------------------------------------
\* The strengthening of AmountsSurviveText: what is stored is an int64.
AmountInv == /\ stage \in {"received", "refused", "stored", "written"} /\ minor \in Int64
             /\ stage = "received" => text \in Seq(Characters)
             /\ AmountsSurviveText

\* A text that arrives is refused, or stored as it is spelled (ParseNonNegative).
LEMMA ParseKeepsMeaning ==
    ASSUME AmountInv, Parse
    PROVE  AmountInv'
  <1>0. PICK t, p : t = text /\ p = ParseNonNegative(t) OBVIOUS
  <1>1. /\ t \in Seq(Characters) /\ stage' = (IF p.ok THEN "stored" ELSE "refused")
        /\ minor' = p.minor /\ text' = t
    BY <1>0 DEF AmountInv, Parse
  <1>2. 0 \in Int64 BY WidthAssumption DEF Int64, MinInt
  <1>3. PICK n \in Nat : n = Len(t) BY <1>1
  <1>4. CASE Spelled(t)
    <2>1. PICK U, N : U = Undotted(t) /\ N = Number(U) OBVIOUS
    <2>2. /\ ParseMinorUnits(t) = Bounded(N) /\ ~(t # <<>> /\ Head(t) = "-") /\ t # <<>>
          /\ N \in Nat
      BY <1>1, <1>4, <2>1, ParseSpelled
    <2>3. p = Bounded(N) BY <1>0, <2>2 DEF ParseNonNegative
    <2>4. N = Worth(U, n - 1)
      <3>1. U \in Seq(Digits) /\ Len(U) = n - 1 BY <1>1, <1>3, <1>4, <2>1, SpelledParts
      <3>2. PICK k \in Nat : k = n - 1
        <4>1. n >= 4 BY <1>3, <1>4 DEF Spelled
        <4> QED BY <4>1
      <3> QED BY <2>1, <3>1, <3>2, NumberIsWorth
    <2>5. N \in Int64 <=> N <= MaxInt BY <2>2, WidthAssumption DEF Int64, MinInt
    <2>6. CASE N \in Int64
      <3>1. p = [ok |-> TRUE, minor |-> N] BY <2>3, <2>6 DEF Bounded
      <3>2. stage' = "stored" /\ minor' = N BY <1>1, <3>1
      <3>3. StoredAsSpelled'
        BY <1>1, <1>3, <1>4, <2>1, <2>4, <3>2 DEF StoredAsSpelled
      <3>4. WrittenAsStored' BY <3>2 DEF WrittenAsStored
      <3> QED BY <2>6, <3>2, <3>3, <3>4 DEF AmountInv, AmountsSurviveText
    <2>7. CASE N \notin Int64
      <3>1. p = [ok |-> FALSE, minor |-> 0] BY <2>3, <2>7 DEF Bounded, Refused
      <3>2. stage' = "refused" /\ minor' = 0 BY <1>1, <3>1
      <3>3. N > MaxInt BY <2>2, <2>5, <2>7, WidthAssumption
      <3>4. StoredAsSpelled'
        BY <1>1, <1>3, <2>1, <2>4, <3>2, <3>3 DEF StoredAsSpelled
      <3>5. WrittenAsStored' BY <3>2 DEF WrittenAsStored
      <3> QED BY <1>2, <3>2, <3>4, <3>5 DEF AmountInv, AmountsSurviveText
    <2> QED BY <2>6, <2>7
  <1>5. CASE ~ Spelled(t)
    <2>1. p = Refused
      <3>1. CASE t # <<>> /\ Head(t) = "-" BY <1>0, <3>1 DEF ParseNonNegative
      <3>2. CASE ~(t # <<>> /\ Head(t) = "-")
        <4>1. ParseMinorUnits(t) = Refused BY <1>1, <1>5, <3>2, ParseRefuses
        <4> QED BY <1>0, <3>2, <4>1 DEF ParseNonNegative
      <3> QED BY <3>1, <3>2
    <2>2. stage' = "refused" /\ minor' = 0 BY <1>1, <2>1 DEF Refused
    <2>3. StoredAsSpelled' BY <1>1, <1>5, <2>2 DEF StoredAsSpelled
    <2>4. WrittenAsStored' BY <2>2 DEF WrittenAsStored
    <2> QED BY <1>2, <2>2, <2>3, <2>4 DEF AmountInv, AmountsSurviveText
  <1> QED BY <1>4, <1>5

\* An amount means the same as text and as minor units, for every text that comes in
\* and for every int64 that goes out (ParseNonNegative, String).
THEOREM AmountsKeepMeaning == AmountSpec => []AmountsSurviveText
  <1>1. AmountInit => AmountInv
    <2> SUFFICES ASSUME AmountInit PROVE AmountInv OBVIOUS
    <2>1. 0 \in Int64 BY WidthAssumption DEF Int64, MinInt
    <2>2. Texts \subseteq Seq(Characters)
      <3> SUFFICES ASSUME NEW t \in Texts PROVE t \in Seq(Characters) OBVIOUS
      <3>1. PICK n \in 0 .. MaxLength : t \in [1 .. n -> Characters] BY DEF Texts
      <3>2. n \in Nat OBVIOUS
      <3> QED BY <3>1, <3>2, SeqDef
    <2> QED BY <2>1, <2>2
          DEF AmountInit, AmountInv, AmountsSurviveText, StoredAsSpelled, WrittenAsStored
  <1>2. AmountInv /\ [AmountNext]_amountVars => AmountInv'
    <2> SUFFICES ASSUME AmountInv, [AmountNext]_amountVars PROVE AmountInv' OBVIOUS
    <2>1. CASE Parse BY <2>1, ParseKeepsMeaning
    <2>2. CASE MarshalJSON
      <3>1. PICK m \in Int64 : m = minor BY DEF AmountInv
      <3>2. stage' = "written" /\ text' = Text(m) /\ minor' = m
        BY <2>2, <3>1 DEF MarshalJSON
      <3>3. WrittenAsStored' BY <3>2, TextParses DEF WrittenAsStored
      <3>4. StoredAsSpelled' BY <3>2 DEF StoredAsSpelled
      <3> QED BY <3>2, <3>3, <3>4 DEF AmountInv, AmountsSurviveText
    <2>3. CASE UNCHANGED amountVars
      BY <2>3 DEF amountVars, AmountInv, AmountsSurviveText, StoredAsSpelled, WrittenAsStored
    <2> QED BY <2>1, <2>2, <2>3 DEF AmountNext, Finished
  <1>3. AmountInv => AmountsSurviveText BY DEF AmountInv
  <1> QED BY <1>1, <1>2, <1>3, PTL DEF AmountSpec
=============================================================================
