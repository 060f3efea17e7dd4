----------------------------- MODULE WalletReads -----------------------------
(***************************************************************************)
(* The read side of the wallets, beside the writers of Wagering: the       *)
(* balance, the pages of the ledger and the reconciliation, each a         *)
(* transaction of its own that sees what is committed when its statement   *)
(* runs.  A reader is a client of GET /wallets/{id}, of a sequence of      *)
(* GET /wallets/{id}/ledger that follows the cursors, or of                *)
(* POST /wallets/{id}/reconciliation.                                      *)
(***************************************************************************)
EXTENDS Wagering

CONSTANTS
    Readers,
    Limits       \* the page sizes a client may ask for

\* The place in a ledger where a page ended; what is known of a balance.
Cursor == [wallet : Wallets, version : Nat]
Known == [version : Nat, balance : Money]

\* A listing, a cursor or a balance that is missing is none.
ASSUME ReadersAssumption ==
    /\ Readers \cap Actors = {} /\ Limits \subseteq Nat \ {0}
    /\ None \notin Seq(Entry) /\ None \notin Cursor /\ None \notin Known

VARIABLES
    call,   \* where a reader is
    view    \* what a reader asked for and was given

readVars == <<call, view>>

\* first and checked are history: the ledger, newest entry first, as it was when
\* the first page was read, and the number of entries that were summed.
NoView == [wallet |-> None, limit |-> 0, cursor |-> None, given |-> <<>>,
           first |-> None, known |-> None, stored |-> None, checked |-> 0,
           verdict |-> None]

ReadInit == /\ call = [c \in Readers |-> "idle"]
            /\ view = [c \in Readers |-> NoView]

-----------------------------------------------------------------------------
\* ORDER BY wallet_version DESC, id DESC LIMIT limit.  Versions are unique in a wallet,
\* so the id never decides: the row at place k is the one with k rows from it up.
Newest(rows, limit) ==
    [k \in 1 .. IF limit < Cardinality(rows) THEN limit ELSE Cardinality(rows) |->
        CHOOSE e \in rows : Cardinality({d \in rows : d.version >= e.version}) = k]

\* Mutant: the key of the cursor is read again.
ListByWalletInclusive(w, cursor, limit) ==
    Newest({ledger[w][i] : i \in {j \in DOMAIN ledger[w] :
               cursor = None \/ ledger[w][j].version <= cursor.version}}, limit)

\* LedgerRepository.ListByWallet.
ListByWallet(w, cursor, limit) ==
    Newest({ledger[w][i] : i \in {j \in DOMAIN ledger[w] :
               cursor = None \/ ledger[w][j].version < cursor.version}}, limit)

\* Service.ListLedger asks for one row more than the limit: that row only tells
\* that there is another page, and the cursor names the last row returned.
PageOf(rows, limit) == SubSeq(rows, 1, IF limit < Len(rows) THEN limit ELSE Len(rows))

NextCursor(w, rows, limit) ==
    IF Len(rows) > limit THEN [wallet |-> w, version |-> rows[limit].version]
    ELSE None

\* A page is asked for: the first, or the one after the cursor, which must be
\* of the same wallet.  The limit may change from page to page.
AskPage(c, w, limit) ==
    /\ call[c] \in {"idle", "gap"}
    /\ view[c].cursor # None => view[c].cursor.wallet = w
    /\ view[c].known # None => view[c].wallet = w
    /\ call' = [call EXCEPT ![c] = "wallet"]
    /\ view' = [view EXCEPT ![c].wallet = w, ![c].limit = limit]
    /\ UNCHANGED vars

\* WalletStore.ListLedger, first statement: the wallet must exist.
FindWallet(c) ==
    /\ call[c] = "wallet"
    /\ \/ /\ view[c].wallet \in DOMAIN wallets
          /\ call' = [call EXCEPT ![c] = "entries"]
       \/ /\ view[c].wallet \notin DOMAIN wallets
          /\ call' = [call EXCEPT ![c] = "idle"]
    /\ UNCHANGED <<view, vars>>

\* Second statement: the rows, and the page made of them.
ReadPage(c) ==
    LET v == view[c]
        rows == ListByWallet(v.wallet, v.cursor, v.limit + 1)
        next == NextCursor(v.wallet, rows, v.limit)
    IN  /\ call[c] = "entries"
        /\ view' = [view EXCEPT
              ![c].given = @ \o PageOf(rows, v.limit),
              ![c].cursor = next,
              ![c].first = IF @ = None
                           THEN ListByWallet(v.wallet, None, Len(ledger[v.wallet]))
                           ELSE @]
        /\ call' = [call EXCEPT ![c] = IF next = None THEN "end" ELSE "gap"]
        /\ UNCHANGED vars

\* The database fails or the answer is lost: the client asks for the page again.
PageLost(c) ==
    /\ call[c] \in {"wallet", "entries"}
    /\ call' = [call EXCEPT ![c] = IF view[c].cursor = None THEN "idle" ELSE "gap"]
    /\ UNCHANGED <<view, vars>>

-----------------------------------------------------------------------------
\* WalletStore.FindByID: balance and version of one committed row.
ReadWallet(c, w) ==
    /\ call[c] = "idle"
    /\ view[c].known = None
    /\ w \in DOMAIN wallets
    /\ view' = [view EXCEPT ![c].wallet = w,
                            ![c].known = [version |-> wallets[w].version,
                                          balance |-> wallets[w].balance]]
    /\ UNCHANGED <<call, vars>>

-----------------------------------------------------------------------------
\* SUM over the entries, as numeric: it cannot overflow.
Sum(entries) ==
    LET upTo[i \in 0 .. Len(entries)] ==
            IF i = 0 THEN 0
            ELSE Moved(entries[i].direction, upTo[i - 1], entries[i].amount)
    IN  upTo[Len(entries)]

Int64 == -(MaxMoney + 1) .. MaxMoney

\* Service.Reconcile: what it makes of a balance and a sum.
Judge(stored, calculated) ==
    CASE calculated \notin Int64 \/ stored - calculated \notin Int64 -> "overflow"
      [] calculated \in Int64 /\ stored = calculated                 -> "consistent"
      [] OTHER                                                       -> "mismatch"

AskReconciliation(c, w) ==
    /\ call[c] = "idle"
    /\ view[c].known = None
    /\ call' = [call EXCEPT ![c] = "snapshot"]
    /\ view' = [view EXCEPT ![c].wallet = w]
    /\ UNCHANGED vars

\* Mutant: the balance and the sum are read by two statements.
SnapshotTwoStatements(c) ==
    LET w == view[c].wallet
    IN  /\ call[c] = "snapshot"
        /\ w \in DOMAIN wallets
        /\ IF view[c].stored = None
           THEN /\ view' = [view EXCEPT ![c].stored = wallets[w].balance]
                /\ UNCHANGED call
           ELSE /\ view' = [view EXCEPT
                              ![c].checked = Len(ledger[w]),
                              ![c].verdict = Judge(view[c].stored, Sum(ledger[w]))]
                /\ call' = [call EXCEPT ![c] = "end"]
        /\ UNCHANGED vars

\* ReconciliationStore.Snapshot: balance, sum and count by one statement of a
\* REPEATABLE READ transaction.
Snapshot(c) ==
    LET w == view[c].wallet
    IN  /\ call[c] = "snapshot"
        /\ call' = [call EXCEPT ![c] = "end"]
        /\ \/ /\ w \notin DOMAIN wallets
              /\ view' = [view EXCEPT ![c].verdict = "not found"]
           \/ /\ w \in DOMAIN wallets
              /\ view' = [view EXCEPT
                            ![c].stored = wallets[w].balance,
                            ![c].checked = Len(ledger[w]),
                            ![c].verdict = Judge(wallets[w].balance, Sum(ledger[w]))]
        /\ UNCHANGED vars

-----------------------------------------------------------------------------
Read(c) ==
    \/ \E w \in Wallets, limit \in Limits : AskPage(c, w, limit)
    \/ FindWallet(c)
    \/ ReadPage(c)
    \/ PageLost(c)
    \/ \E w \in Wallets : ReadWallet(c, w) \/ AskReconciliation(c, w)
    \/ Snapshot(c)

ReadNext == \/ Next /\ UNCHANGED readVars
            \/ \E c \in Readers : Read(c)

ReadSpec == Init /\ ReadInit /\ [][ReadNext]_<<vars, readVars>>

-----------------------------------------------------------------------------
\* Following the cursors of a wallet's ledger gives every entry that was there
\* when the first page was read, once, newest first, and none that was committed
\* later: what ListLedger and the strict comparison with the cursor promise while
\* bets, wins and resumed references are appended between the pages.
PagesAreOneListing ==
    \A c \in Readers :
        LET v == view[c]
        IN  v.first # None =>
                /\ Len(v.given) <= Len(v.first)
                /\ v.given = SubSeq(v.first, 1, Len(v.given))
                /\ call[c] = "end" => v.given = v.first

\* A balance and version once read by GET /wallets/{id} stay a fact of the ledger:
\* the entry of that version left that balance, whatever is written later, and a
\* listing read afterwards contains it.
BalancesReadStayTrue ==
    \A c \in Readers :
        LET v == view[c]
            tells(e) == e.version = v.known.version /\ e.after = v.known.balance
        IN  v.known # None =>
                \/ v.known = [version |-> 1, balance |-> 0]
                \/ /\ \E i \in DOMAIN ledger[v.wallet] : tells(ledger[v.wallet][i])
                   /\ \A i \in DOMAIN ledger[v.wallet] :
                         ledger[v.wallet][i].version = v.known.version =>
                             tells(ledger[v.wallet][i])
                   /\ v.first # None => \E i \in DOMAIN v.first : tells(v.first[i])

\* What a client reads stays consistent while others write: its pages are one
\* listing, and the balances it saw are in it (ListLedger, FindByID).
ReadsAgree == PagesAreOneListing /\ BalancesReadStayTrue

\* A reconciliation that runs beside the writers never reports a mismatch or an
\* overflow: it finds the balance that one prefix of the ledger left, and the sum
\* and the number of exactly those entries.
ReconciliationFindsNoFault ==
    \A c \in Readers :
        LET v == view[c]
        IN  v.verdict # None /\ v.verdict # "not found" =>
                /\ v.verdict = "consistent"
                /\ v.stored = IF v.checked = 0 THEN 0
                              ELSE ledger[v.wallet][v.checked].after
=============================================================================
