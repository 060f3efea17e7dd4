------------------------------- MODULE HttpApi -------------------------------
(***************************************************************************)
(* The wager endpoints in front of Wagering, and the clients that use them *)
(* as the README asks: one operation each, repeated with the same identity *)
(* after a 5xx or when no answer came, read again while it is pending.     *)
(*                                                                         *)
(* A call is a session of Wagering once the middleware and the handler     *)
(* have admitted it; the token is verified anew at each.  A client that    *)
(* gives up waiting need not have stopped the call it made: its next call  *)
(* may run beside it.                                                      *)
(***************************************************************************)
EXTENDS Wagering

CONSTANTS
    Clients,
    Wants,       \* who a client may be and what it may want, one call repeated
    Attempts,    \* the sessions its calls run as, in this order
    MaxDenials   \* bound: the calls whose token is not worth what it should be

\* What a token is worth: None when the verifier rejects it.
Identity == [roles : SUBSET {"provider", "internal"},
             provider : Providers \cup {None}] \cup {None}

\* The body is None when it does not decode.  Every call is a session of its own,
\* which carries no message and may carry what its client wants.
ASSUME ClientsAssumption ==
    /\ Wants \in [Clients -> SUBSET [id : Identity, body : Request \cup {None}]]
    /\ Attempts \in [Clients -> Seq(Sessions)]
    /\ \A c \in Clients : \A i \in DOMAIN Attempts[c] :
          /\ Message[Attempts[c][i]] = None
          /\ \A x \in Wants[c] : x.body # None => x.body \in Offers[Attempts[c][i]]
          /\ \A d \in Clients : \A j \in DOMAIN Attempts[d] :
                Attempts[c][i] = Attempts[d][j] => c = d /\ i = j
    /\ MaxDenials \in Nat

VARIABLES
    want,      \* the identity and the operation of a client
    made,      \* the calls of a client that were let in
    waiting,   \* the call a client waits for
    told,      \* the latest answer a client got: status and transaction
    peeked,    \* what a client found under an id it was never told
    lost,      \* the answers that did not reach their client
    denied     \* the calls whose token was not worth what it should be

clientVars == <<want, made, waiting, told, peeked, lost, denied>>

Untold == [status |-> 0, answer |-> NoAnswer]

HttpInit ==
    /\ want \in [Clients -> UNION {Wants[c] : c \in Clients}]
    /\ \A c \in Clients : want[c] \in Wants[c]
    /\ made = [c \in Clients |-> 0]
    /\ waiting = [c \in Clients |-> None]
    /\ told = [c \in Clients |-> Untold]
    /\ peeked = [c \in Clients |-> Untold]
    /\ lost = 0
    /\ denied = 0

-----------------------------------------------------------------------------
\* Verifier.Verify at one call: the identity of the client, less the roles it was
\* stripped of; or none, when the token has expired or the keys to check it with
\* cannot be fetched.
Verdicts(id) ==
    {None} \cup (IF id = None THEN {}
                 ELSE {[id EXCEPT !.roles = held] : held \in SUBSET id.roles})

\* Authenticate, RequireRole("provider") and the checks of wagerHandler.submit
\* before Submit: 200 when the call reaches it, else the status it is refused
\* with.
Admission(id, r) ==
    LET authorised == id # None /\ "provider" \in id.roles /\ id.provider # None
    IN  CASE id = None                                           -> 401
          [] id # None /\ ~authorised                            -> 403
          [] authorised /\ r = None                              -> 400
          [] authorised /\ r # None /\ r.provider # id.provider  -> 403
          [] /\ authorised /\ r # None /\ r.provider = id.provider
             /\ r.key = None                                     -> 400
          [] OTHER                                               -> 200

\* Mutant: an unknown error is taken for a refusal.
StatusesRefusingErrors(res) ==
    CASE res.code = "OK" -> {IF res.answer.status = "PENDING_REFERENCE" THEN 202 ELSE 200}
      [] res.code = "INVALID_INPUT" -> {400}
      [] res.code = "WALLET_NOT_FOUND" -> {404}
      [] OTHER -> {409, 503}

\* writeDependencyOrInternalError: a lost connection, an aborted transaction or an
\* uncertain commit is 503 when it is recognised as transient, else 500.
DependencyOrInternalError == {500, 503}

\* writeWagerResponse and writeWagerError.
StatusesOf(res) ==
    CASE res.code = "OK" -> {IF res.answer.status = "PENDING_REFERENCE" THEN 202 ELSE 200}
      [] res.code = "INVALID_INPUT"         -> {400}
      [] res.code = "WALLET_NOT_FOUND"      -> {404}
      [] res.code = "WALLET_MISMATCH"       -> {422}
      [] res.code \in {"IDEMPOTENCY_CONFLICT", "EXTERNAL_ID_CONFLICT"} -> {409}
      [] res.code = "IDENTITY_RACE"         -> {503}
      [] OTHER                              -> DependencyOrInternalError

\* An answer after which the client stops: 202 and 5xx ask for another call, and so
\* does a 401 of a client that can get a new token.
Final(c) ==
    /\ told[c].status \in 200 .. 499 \ {202}
    /\ told[c].status = 401 => want[c].id = None

-----------------------------------------------------------------------------
Idle(c) == waiting[c] = None /\ ~Final(c)

\* The client makes its next call, with a token that is verified as id: refused at
\* once, or running as a session.
Call(c, id) ==
    LET s == Attempts[c][made[c] + 1]
        status == Admission(id, want[c].body)
    IN  /\ Idle(c)
        /\ told[c].status # 202
        /\ made[c] < Len(Attempts[c])
        /\ denied' = IF id = want[c].id THEN denied ELSE denied + 1
        /\ denied' <= MaxDenials
        /\ \/ /\ status = 200
              /\ Receive(s, want[c].body)
              /\ made' = [made EXCEPT ![c] = @ + 1]
              /\ waiting' = [waiting EXCEPT ![c] = s]
              /\ UNCHANGED told
           \/ /\ status # 200
              /\ told' = [told EXCEPT ![c] = [Untold EXCEPT !.status = status]]
              /\ UNCHANGED <<made, waiting, vars>>
        /\ UNCHANGED <<want, peeked, lost>>

\* The client calls and its token is as good as it should be, or not.
Calls(c) == \E id \in Verdicts(want[c].id) : Call(c, id)

\* The response reaches the client.
Respond(c) ==
    LET s == waiting[c]
    IN  /\ s # None
        /\ pc[s] = "done"
        /\ \E status \in StatusesOf(result[s]) :
              told' = [told EXCEPT ![c] = [status |-> status,
                                           answer |-> result[s].answer]]
        /\ waiting' = [waiting EXCEPT ![c] = None]
        /\ UNCHANGED <<want, made, peeked, lost, denied, vars>>

\* The client's patience ends, or the response is lost on the way: one of the
\* failures that MaxFaults bounds.
GiveUp(c) ==
    /\ waiting[c] # None
    /\ faults + lost < MaxFaults
    /\ lost' = lost + 1
    /\ waiting' = [waiting EXCEPT ![c] = None]
    /\ UNCHANGED <<want, made, told, peeked, denied, vars>>

\* What a client is told by a read that found the transactions in found.
ReadAnswer(found) ==
    IF found = {} THEN [Untold EXCEPT !.status = 404]
    ELSE LET answer == AnswerOf(CHOOSE t \in found : TRUE)
         IN  [status |-> IF answer.status = "PENDING_REFERENCE" THEN 202 ELSE 200,
              answer |-> answer]

\* Mutant: a transaction is found by its id whoever asks.
FindByIDAnyProvider(provider, t) == {t} \cap DOMAIN wagers

\* Service.FindByID shows a provider its own transactions only.
FindByID(provider, t) ==
    {u \in {t} \cap DOMAIN wagers : wagers[u].req.provider = provider}

FindByExternalID(provider, ext) == ByExternal(provider, ext)

\* The client reads its operation by external id or by the id it was told, one
\* statement that sees the committed row.  A read whose token is refused, or that
\* fails, says nothing of the operation, and the client reads again.
ReadOwn(c) ==
    /\ Idle(c)
    /\ told[c].answer # NoAnswer
    /\ \/ told' = [told EXCEPT ![c] =
              ReadAnswer(FindByExternalID(want[c].id.provider, want[c].body.ext))]
       \/ told' = [told EXCEPT ![c] =
              ReadAnswer(FindByID(want[c].id.provider, told[c].answer.tx))]
    /\ UNCHANGED <<want, made, waiting, peeked, lost, denied, vars>>

\* Before it calls, a client asks for any id; a transaction of another provider
\* does not exist for it.
Peek(c, t) ==
    /\ want[c].id # None
    /\ want[c].id.provider # None
    /\ made[c] = 0
    /\ peeked[c] = Untold
    /\ t \in DOMAIN wagers
    /\ peeked' = [peeked EXCEPT ![c] = ReadAnswer(FindByID(want[c].id.provider, t))]
    /\ UNCHANGED <<want, made, waiting, told, lost, denied, vars>>

-----------------------------------------------------------------------------
ServerStep ==
    /\ \/ \E o \in Openings : OpenWallet(o)
       \/ \E s \in Sessions : SessionStatement(s) \/ WalletMismatch(s)
       \/ \E r \in Workers, t \in TxIds : Claim(r, t)
       \/ \E r \in Workers : LockPending(r)
       \/ \E a \in Actors : LockWallet(a) \/ LockedStatement(a)
       \/ \E a \in Actors : Failure(a)
       \/ \E t \in TxIds : TimePasses(t)
    /\ faults' + lost <= MaxFaults
    /\ UNCHANGED clientVars

ClientStep(c) == Calls(c) \/ Respond(c) \/ ReadOwn(c)

HttpNext ==
    \/ ServerStep
    \/ \E c \in Clients : ClientStep(c) \/ GiveUp(c)
    \/ \E c \in Clients, t \in TxIds : Peek(c, t)
    \/ Quiescent /\ UNCHANGED clientVars

HttpSpec == Init /\ HttpInit /\ [][HttpNext]_<<vars, clientVars>>

\* Clients repeat their calls and take their answers; the server is as fair as
\* in Wagering.
HttpFairSpec ==
    /\ HttpSpec
    /\ Fairness
    /\ \A c \in Clients : WF_<<vars, clientVars>>(ClientStep(c))

-----------------------------------------------------------------------------
\* What a provider submits is recorded under its own name and what it is told is
\* about its own wagers, also when providers use the same keys and external ids:
\* RequireRole, the provider check of submit and that of FindByID.
ProvidersAreSeparate ==
    \A c \in Clients :
        /\ \A answer \in {told[c].answer, peeked[c].answer} :
              answer # NoAnswer =>
                  wagers[answer.tx].req.provider = want[c].id.provider
        /\ \A i \in DOMAIN Attempts[c] :
              Attempts[c][i] \in DOMAIN wagers =>
                  wagers[Attempts[c][i]].req.provider = want[c].id.provider

\* The statuses that say something of the call they answer, not of the operation:
\* a repeat may get them for its token or for a wallet that is missing, whatever
\* came of an earlier call.
OfOneCall == {401, 403, 404}

\* A failed or uncertain round trip is never reported as a definitive refusal
\* (dependency_errors.go): a client that was refused has left no wager by any of
\* its calls and never will, although calls it gave up on may still run.  A 404
\* says so only of the one call that was let in, and a 401 or 403 only when the
\* middleware and the handler refuse the operation with every token of the client.
\* A client that was told 200 has the wager it was told about, settled as it was
\* told.
RefusalsLeaveNothing ==
    \A c \in Clients :
        /\ /\ told[c].status \in 400 .. 499
           /\ \/ told[c].status \notin OfOneCall
              \/ told[c].status = 404 /\ made[c] = 1
              \/ Admission(want[c].id, want[c].body) # 200
           => \A i \in DOMAIN Attempts[c] : Attempts[c][i] \notin DOMAIN wagers
        /\ told[c].status = 200 => told[c].answer = AnswerOf(told[c].answer.tx)

\* A client that repeats its call gets a final answer in the end: a refusal, or
\* the settled operation, through lost answers, expired tokens, aborted
\* transactions, uncertain commits and calls that overtake each other.
ClientsGetAnswers == \A c \in Clients : <>Final(c)
=============================================================================
