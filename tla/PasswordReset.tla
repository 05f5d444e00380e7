--------------------------- MODULE PasswordReset ---------------------------
(***************************************************************************)
(* Self-service password recovery of one account: ForgotPassword,         *)
(* ResetPassword and the detached mail                                    *)
(* (admin/backend/internal/handler/auth_password_reset.go), as the SQL    *)
(* statements they issue under READ COMMITTED.  ForgotPassword runs each  *)
(* statement on its own; ResetPassword runs one transaction, whose        *)
(* UPDATEs lock the token rows they touch until it ends, and whose writes *)
(* nobody sees before the COMMIT.                                         *)
(*                                                                        *)
(* Accounts do not share tokens, so one is enough; requests about unknown *)
(* addresses, or with a malformed body, change nothing.  Time is a small  *)
(* integer.  PostgreSQL (row locks, deadlock detection) and the mail      *)
(* server are external.                                                   *)
(***************************************************************************)
EXTENDS Integers, FiniteSets

CONSTANTS
    Tokens,    \* reset tokens that can be generated (the bound of a run)
    Reqs,      \* request slots: how many requests are served at once
    NoToken,   \* a request that carries no token
    TTL,       \* passwordResetTokenTTL
    Window,    \* passwordResetThrottleWindow
    MaxTime,   \* the last instant of a run (a bound)
    CountMayFail  \* whether the throttle's count can fail

ASSUME TimesAreNatural ==
    /\ TTL \in Nat /\ Window \in Nat /\ MaxTime \in Nat
    /\ Window < TTL
    /\ NoToken \notin Tokens
    /\ CountMayFail \in BOOLEAN

VARIABLES
    now,       \* the clock
    stored,    \* the tokens in table password_reset_tokens
    at,        \* at[t]: created_at of token t; it expires at at[t] + TTL
    used,      \* tokens whose used_at is set and committed
    version,   \* how often a reset has committed a new users.password_hash
    pending,   \* tokens whose mail a goroutine is about to send
    inbox,     \* tokens the user has received
    pc,        \* pc[r]: the next statement of request r
    req        \* req[r]: the token it redeems and what its transaction did

mail == <<pending, inbox>>
vars == <<now, stored, at, used, version, pending, inbox, pc, req>>

\* now: the handler's time.Now(); holds: token rows the transaction has set
\* used_at on, and so locked; todo: rows its second UPDATE has yet to visit;
\* known: tokens in the table when it claimed its own.
Request == [token : Tokens \cup {NoToken}, now : 0..MaxTime,
            holds : SUBSET Tokens, todo : SUBSET Tokens, known : SUBSET Tokens]

Idle == [token |-> NoToken, now |-> 0, holds |-> {}, todo |-> {}, known |-> {}]

InTx == {"invalidate", "visit"}

TypeOK ==
    /\ now \in 0..MaxTime
    /\ stored \subseteq Tokens
    /\ at \in [Tokens -> 0..MaxTime]
    /\ used \subseteq stored
    /\ version \in Nat
    /\ pending \subseteq Tokens
    /\ inbox \subseteq Tokens
    /\ pc \in [Reqs -> {"idle", "issue", "claim"} \cup InTx]
    /\ req \in [Reqs -> Request]

Init ==
    /\ now = 0
    /\ stored = {}
    /\ at = [t \in Tokens |-> 0]
    /\ used = {}
    /\ version = 0
    /\ pending = {}
    /\ inbox = {}
    /\ pc = [r \in Reqs |-> "idle"]
    /\ req = [r \in Reqs |-> Idle]

Unexpired(t, instant) == at[t] + TTL > instant

\* The row of token t is locked by the transaction of another request.
LockedByOther(r, t) == \E q \in Reqs \ {r} : t \in req[q].holds

Goto(r, step, data) ==
    /\ pc' = [pc EXCEPT ![r] = step]
    /\ req' = [req EXCEPT ![r] = data]

Finish(r) == Goto(r, "idle", Idle)

-----------------------------------------------------------------------------
(* ForgotPassword *)

\* What the throttle counts: the unused, unexpired tokens of the last Window.
Recent == {t \in stored \ used : Unexpired(t, now) /\ at[t] > now - Window}

\* A request that finds a recent token ends there.  A count that fails is
\* logged, and the request goes on as if there were none.
ForgotPassword(r) ==
    /\ pc[r] = "idle"
    /\ Recent = {} \/ CountMayFail
    /\ Goto(r, "issue", Idle)
    /\ UNCHANGED <<now, stored, at, used, version, mail>>

\* INSERT, then the goroutine that mails the link is on its own.
IssueToken(r) ==
    /\ pc[r] = "issue"
    /\ \E t \in Tokens \ stored :
          /\ stored' = stored \cup {t}
          /\ at' = [at EXCEPT ![t] = now]
          /\ pending' = pending \cup {t}
    /\ Finish(r)
    /\ UNCHANGED <<now, used, version, inbox>>

\* The mail server takes the mail or refuses it, within the timeout; a refusal
\* is logged and never tried again.
DispatchEmail(t) ==
    /\ t \in pending
    /\ pending' = pending \ {t}
    /\ inbox' \in {inbox, inbox \cup {t}}
    /\ UNCHANGED <<now, stored, at, used, version, pc, req>>

-----------------------------------------------------------------------------
(* ResetPassword *)

BeginReset(r, t) ==
    /\ pc[r] = "idle"
    /\ t \in inbox
    /\ Goto(r, "claim", [Idle EXCEPT !.token = t, !.now = now])
    /\ UNCHANGED <<now, stored, at, used, version, mail>>

\* Mutant: SELECT, check and a later UPDATE instead of the compare-and-set, so
\* nothing makes a second request wait.
ClaimTokenUnlocked(r) ==
    /\ pc[r] = "claim"
    /\ req[r].token \notin used
    /\ Unexpired(req[r].token, req[r].now)
    /\ Goto(r, "invalidate", [req[r] EXCEPT !.holds = {req[r].token}, !.known = stored])
    /\ UNCHANGED <<now, stored, at, used, version, mail>>

\* UPDATE ... SET used_at WHERE the token is unused and unexpired.  It waits
\* for a transaction that has the row, and then looks at what that one left.
ClaimToken(r) ==
    /\ pc[r] = "claim"
    /\ \/ /\ req[r].token \in used \/ ~Unexpired(req[r].token, req[r].now)
          /\ Finish(r)
       \/ /\ req[r].token \notin used
          /\ Unexpired(req[r].token, req[r].now)
          /\ ~LockedByOther(r, req[r].token)
          /\ Goto(r, "invalidate", [req[r] EXCEPT !.holds = {req[r].token},
                                                  !.known = stored])
    /\ UNCHANGED <<now, stored, at, used, version, mail>>

\* Mutant: the UPDATE goes through h.db instead of tx: on a connection of its own
\* it waits for the row its own transaction has.
InvalidateOthersOutsideTx(r) ==
    /\ pc[r] = "invalidate"
    /\ \A t \in stored \ used, q \in Reqs : t \notin req[q].holds
    /\ Goto(r, "visit", [req[r] EXCEPT !.todo = stored \ used])
    /\ UNCHANGED <<now, stored, at, used, version, mail>>

\* The second UPDATE sees the rows that are in the table, unused, when it
\* starts.
InvalidateOthers(r) ==
    /\ pc[r] = "invalidate"
    /\ Goto(r, "visit", [req[r] EXCEPT !.todo = stored \ (used \cup {req[r].token})])
    /\ UNCHANGED <<now, stored, at, used, version, mail>>

\* Mutant: FOR UPDATE SKIP LOCKED, so that two resets never wait for each other.
VisitTokenSkipLocked(r) ==
    /\ pc[r] = "visit"
    /\ \E t \in req[r].todo :
          Goto(r, "visit", [req[r] EXCEPT !.todo = @ \ {t},
                    !.holds = IF t \in used \/ LockedByOther(r, t) THEN @ ELSE @ \cup {t}])
    /\ UNCHANGED <<now, stored, at, used, version, mail>>

\* It visits them one by one: it waits for the transaction that has the row,
\* and passes over one that has been used by then.
VisitToken(r) ==
    /\ pc[r] = "visit"
    /\ \E t \in req[r].todo :
          /\ ~LockedByOther(r, t)
          /\ Goto(r, "visit", [req[r] EXCEPT !.todo = @ \ {t},
                    !.holds = IF t \in used THEN @ ELSE @ \cup {t}])
    /\ UNCHANGED <<now, stored, at, used, version, mail>>

\* bcrypt, the UPDATE of users.password_hash, and the COMMIT, which publishes
\* the used marks.
SetPassword(r) ==
    /\ pc[r] = "visit"
    /\ req[r].todo = {}
    /\ version' = version + 1
    /\ used' = used \cup req[r].holds
    /\ Finish(r)
    /\ UNCHANGED <<now, stored, at, mail>>

-----------------------------------------------------------------------------
(* Failures and time *)

\* A statement, bcrypt or the connection fails: the transaction is rolled back.
\* ForgotPassword answers 204 all the same.
Abort(r) ==
    /\ pc[r] # "idle"
    /\ Finish(r)
    /\ UNCHANGED <<now, stored, at, used, version, mail>>

\* Request r waits for a token row that q's transaction has.
WaitsFor(r, q) ==
    /\ q # r
    /\ \/ pc[r] = "claim" /\ req[r].token \in req[q].holds \ used
       \/ pc[r] = "visit" /\ req[r].todo # {} /\ req[r].todo \subseteq req[q].holds

\* Two transactions wait for each other: PostgreSQL rolls one of them back.
DetectDeadlock(r) ==
    /\ \E q \in Reqs : WaitsFor(r, q) /\ WaitsFor(q, r)
    /\ Abort(r)

\* The process dies: requests, transactions and unsent mails are gone.
Crash ==
    /\ pc' = [r \in Reqs |-> "idle"]
    /\ req' = [r \in Reqs |-> Idle]
    /\ pending' = {}
    /\ UNCHANGED <<now, stored, at, used, version, inbox>>

Tick ==
    /\ now < MaxTime
    /\ now' = now + 1
    /\ UNCHANGED <<stored, at, used, version, mail, pc, req>>

Next ==
    \/ \E r \in Reqs : \/ ForgotPassword(r) \/ IssueToken(r)
                       \/ ClaimToken(r) \/ InvalidateOthers(r) \/ VisitToken(r)
                       \/ SetPassword(r) \/ Abort(r) \/ DetectDeadlock(r)
                       \/ \E t \in Tokens : BeginReset(r, t)
    \/ \E t \in Tokens : DispatchEmail(t)
    \/ Crash \/ Tick

\* Requests run on; a waiter for a row gets it in its turn; PostgreSQL's
\* deadlock check comes round.  Time, mails and new requests owe us nothing.
Fairness ==
    \A r \in Reqs : /\ WF_vars(IssueToken(r)) /\ WF_vars(InvalidateOthers(r))
                    /\ WF_vars(SetPassword(r)) /\ WF_vars(DetectDeadlock(r))
                    /\ SF_vars(ClaimToken(r)) /\ SF_vars(VisitToken(r))

Spec == Init /\ [][Next]_vars /\ Fairness

-----------------------------------------------------------------------------
(* Properties *)

\* A link the user can have is a link the database knows: a token is stored
\* before its mail leaves.
LinksAreStored == pending \cup inbox \subseteq stored

\* A token is consumed by a reset that changes the password, and by nothing
\* else; and no reset changes the password without consuming one, so no token
\* works twice, however many requests carry it.
ResetIsAtomic ==
    [][used' # used <=> version' # version]_vars

\* A reset that succeeds leaves none of the tokens usable that existed when it
\* claimed its own, not even one that another reset was redeeming meanwhile.
ResetKillsOlderTokens ==
    [][\A r \in Reqs : pc[r] = "visit" /\ version' # version /\ pc'[r] = "idle"
                           => req[r].known \subseteq used']_vars

\* Every reset is answered: two resets that wait for each other's token do not
\* wait for ever.
ResetsAreAnswered ==
    \A r \in Reqs : pc[r] \in InTx \cup {"claim"} ~> pc[r] = "idle"

\* "A successful reset also invalidates every other outstanding token for the
\* same user" (admin/backend/README.md:510): none is left when it succeeds.
NoTokenSurvivesReset ==
    [][version' # version => stored \subseteq used']_vars

\* The throttle window "is the minimum time between two outbound emails for the
\* same user" (auth_password_reset.go:37): no two tokens are issued within it.
MailsAreSpaced ==
    \A t, u \in stored : t # u => at[t] >= at[u] + Window \/ at[u] >= at[t] + Window
=============================================================================
