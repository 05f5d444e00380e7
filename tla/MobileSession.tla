--------------------------- MODULE MobileSession ---------------------------
(***************************************************************************)
(* The session of the mobile app: AuthProvider, the screens that sign in   *)
(* and out, and the requests they have in flight.                          *)
(*                                                                         *)
(* External: expo-secure-store carries out the calls it is given one after *)
(* the other (native is its queue) and may fail any of them; the code that *)
(* awaits a call runs in a later step, in the order the calls ended (done  *)
(* is that queue).  A request ends in an answer of the gateway (module     *)
(* Gateway) or in a network error; the system may kill the app, with a     *)
(* native call done or not.                                                *)
(***************************************************************************)
EXTENDS Gateway, Sequences

CONSTANTS
    Tokens,       \* tokens the gateway can issue (a bound)
    Slots,        \* sign-ins in flight at once (a bound)
    NoToken,      \* null
    MaxFailures,  \* calls of SecureStore that fail (a bound)
    MaxRestarts,  \* times the app is killed (a bound)
    MaxNative     \* calls under way at which the user waits (a bound)

ASSUME NullIsFresh == NoToken \notin Tokens
ASSUME BoundsAreNatural == MaxFailures \in Nat /\ MaxRestarts \in Nat

VARIABLES
    store,       \* the token SecureStore holds
    native,      \* calls SecureStore has not finished
    done,        \* calls it has, that the code awaiting them has not taken in
    token,       \* AuthProvider: the token in memory
    hydration,   \* AuthProvider: "reading" while isLoading
    screen,      \* the route shown; "splash" and "gate" are where the app is opened
    submitting,  \* LoginScreen: submitting
    prompting,   \* the Google consent flow is open
    logins,      \* logins[l]: a sign-in in flight
    mes,         \* tokens of the GET /me requests in flight
    issued,      \* tokens the gateway has issued
    expired,     \* tokens that verify no longer
    logout,      \* history: "never" pressed, "asked", or "out" since it was carried out
    failures,
    restarts

outside == <<issued, expired, failures, restarts>>
form   == <<submitting, prompting, logins>>
vars    == <<store, native, done, token, hydration, screen, submitting, prompting, logins, mes,
             issued, expired, logout, failures, restarts>>

MaybeToken == Tokens \cup {NoToken}

\* A call of SecureStore; by is the sign-in that waits for it.
Call(op, tok, by) == [op |-> op, tok |-> tok, by |-> by]
CallsOf(s) == [op : {"hydrate", "read", "set", "clear"}, tok : MaybeToken, by : s \cup {"user", "app"}]

\* How it ended; tok is the token written or read.
Ended(c, tok, ok) == [call |-> c, tok |-> tok, ok |-> ok]
EndsOf(s) == [call : CallsOf(s), tok : MaybeToken, ok : BOOLEAN]

\* A sign-in in flight.  here: the login screen that started it is still shown.
Attempt(at, here) == [at |-> at, here |-> here]
NoAttempt == Attempt("idle", FALSE)

TypeOK ==
    /\ store \in MaybeToken /\ token \in MaybeToken
    /\ native \in Seq(CallsOf(Slots)) /\ done \in Seq(EndsOf(Slots))
    /\ hydration \in {"reading", "read", "failed"}
    /\ screen \in {"splash", "gate", "login", "home"}
    /\ submitting \in BOOLEAN /\ prompting \in BOOLEAN
    /\ logins \in [Slots -> [at : {"idle", "password", "google", "set"}, here : BOOLEAN]]
    /\ mes \subseteq MaybeToken
    /\ issued \subseteq Tokens /\ expired \subseteq issued
    /\ logout \in {"never", "asked", "out"}
    /\ failures \in 0..MaxFailures /\ restarts \in 0..MaxRestarts

\* A start of the app, at the splash screen or through a link to a private one.
Mount ==
    /\ native' = <<Call("hydrate", NoToken, "app")>> /\ done' = <<>>
    /\ token' = NoToken
    /\ hydration' = "reading"
    /\ screen' \in {"splash", "gate"}
    /\ submitting' = FALSE /\ prompting' = FALSE
    /\ logins' = [l \in Slots |-> NoAttempt]
    /\ mes' = {}

Init ==
    /\ store = NoToken
    /\ native = <<Call("hydrate", NoToken, "app")>> /\ done = <<>>
    /\ token = NoToken
    /\ hydration = "reading"
    /\ screen \in {"splash", "gate"}
    /\ submitting = FALSE /\ prompting = FALSE
    /\ logins = [l \in Slots |-> NoAttempt]
    /\ mes = {}
    /\ issued = {} /\ expired = {}
    /\ logout = "never"
    /\ failures = 0 /\ restarts = 0

-----------------------------------------------------------------------------
(* The screens *)

\* The calls made when screen s is shown: the home screen asks for the profile
\* once, when it appears.
OnShow(s) == IF s = "home" /\ screen # "home" THEN <<Call("read", NoToken, "app")>> ELSE <<>>

\* Leaving the login screen forgets its state; its sign-ins go on.
Away(attempts) == [l \in Slots |-> [attempts[l] EXCEPT !.here = FALSE]]

\* Screen s is shown.
Show(s, attempts, busy) ==
    /\ screen' = s
    /\ native' = native \o OnShow(s)
    /\ logins' = IF s = screen THEN attempts ELSE Away(attempts)
    /\ submitting' = (s = screen /\ busy)
    /\ prompting' = (s = screen /\ prompting)

Redirect(s) ==
    /\ Show(s, logins, submitting)
    /\ UNCHANGED <<store, done, token, hydration, mes, outside, logout>>

\* Mutant: the splash screen does not wait.
IndexAtOnce == screen = "splash" /\ Redirect(IF token # NoToken THEN "home" ELSE "login")

\* The splash screen, once the provider has read the store.
Index ==
    /\ screen = "splash"
    /\ hydration # "reading"
    /\ Redirect(IF token # NoToken THEN "home" ELSE "login")

\* The gate of the private screens, when the app is opened behind it.
AppLayout ==
    /\ screen = "gate"
    /\ hydration # "reading"
    /\ Redirect(IF token # NoToken THEN "home" ELSE "login")

-----------------------------------------------------------------------------
(* Signing in *)

\* components/Button.tsx
Pressable(disabled, loading) == ~disabled /\ ~loading

\* The sign-in button shows the work in progress, and either button is inert then.
CanSubmit == screen = "login" /\ Pressable(FALSE, submitting)
CanPrompt == screen = "login" /\ Pressable(prompting \/ submitting, FALSE)

\* A sign-in starts in a free slot.
Submit(kind) ==
    /\ \E l \in Slots :
        /\ logins[l].at = "idle"
        /\ logins' = [logins EXCEPT ![l] = Attempt(kind, TRUE)]
    /\ submitting' = TRUE

\* onSubmit, with both fields filled in.
OnSubmit ==
    /\ CanSubmit
    /\ Submit("password")
    /\ UNCHANGED <<store, native, done, token, hydration, screen, prompting, mes, outside, logout>>

\* The Google button opens the consent flow.
Prompt ==
    /\ CanPrompt
    /\ prompting' = TRUE
    /\ UNCHANGED <<store, native, done, token, hydration, screen, submitting, logins, mes, outside, logout>>

GoogleResults == {"success", "cancel", "error"}

\* The consent flow ends in success, in an error, or is cancelled; a password
\* sign-in may have been submitted meanwhile.
OnGoogleResult ==
    /\ prompting
    /\ prompting' = FALSE
    /\ \E r \in GoogleResults :
        \/ r = "success" /\ Submit("google")
        \/ r # "success" /\ UNCHANGED <<submitting, logins>>
    /\ UNCHANGED <<store, native, done, token, hydration, screen, mes, outside, logout>>

\* The attempt of slot l is over: its finally reaches only its own screen.
Over(l) == [logins EXCEPT ![l] = NoAttempt]
BusyAfter(l) == submitting /\ ~logins[l].here

\* Mutant: submitting is reset on success only.
RefusedStaysBusy(l) ==
    /\ logins' = Over(l)
    /\ UNCHANGED <<native, submitting>>

\* An error is shown, and the buttons come back.
Refused(l) ==
    /\ logins' = Over(l)
    /\ submitting' = BusyAfter(l)
    /\ UNCHANGED native

\* Mutant: the envelope is not taken off.
TokenOfEnvelope(answer) == answer

\* request returns the data of the envelope.
TokenOf(answer) == answer.data

\* Mutant: memory before the store.
SignInMemoryFirst(l, t) ==
    /\ native' = Append(native, Call("set", t, l))
    /\ token' = t
    /\ logins' = [logins EXCEPT ![l].at = "set"]
    /\ UNCHANGED submitting

\* signIn hands the token to SecureStore and awaits it.
SignIn(l, t) ==
    /\ native' = Append(native, Call("set", t, l))
    /\ logins' = [logins EXCEPT ![l].at = "set"]
    /\ UNCHANGED <<token, submitting>>

\* The statuses an attempt can meet.
LoginStatuses  == {Login(TRUE, a) : a \in AdminAnswers}
GoogleStatuses == {GoogleLogin(t, a) : t \in {"genuine", "refused"}, a \in AdminAnswers}

LoginAnswered(l) ==
    /\ \/ logins[l].at = "password" /\ 200 \in LoginStatuses
       \/ logins[l].at = "google" /\ 200 \in GoogleStatuses
    /\ \E t \in Tokens \ issued :
        /\ issued' = issued \cup {t}
        /\ SignIn(l, TokenOf([data |-> t]))
    /\ UNCHANGED <<store, done, hydration, screen, prompting, mes, expired, logout, failures, restarts>>

\* A refusal of the gateway, or no answer at all.
LoginRefused(l) ==
    /\ logins[l].at \in {"password", "google"}
    /\ Refused(l)
    /\ UNCHANGED <<store, done, token, hydration, screen, prompting, mes, outside, logout>>

-----------------------------------------------------------------------------
(* Signing out *)

\* Nothing keeps the button from being pressed again while signOut awaits.
LogoutShown == screen = "home" /\ Pressable(FALSE, FALSE)

Logout ==
    /\ LogoutShown /\ Len(native) + Len(done) < MaxNative
    /\ native' = Append(native, Call("clear", NoToken, "user"))
    /\ logout' = "asked"
    /\ UNCHANGED <<store, done, token, hydration, screen, form, mes, outside>>

Authorised(t) == JwtAuth(t # NoToken, t \in issued \ expired)

MeStatuses == [authorised \in BOOLEAN |-> {Me(authorised, a) : a \in AdminAnswers}]

\* The answer to GET /me.  A 401 signs out, whoever is signed in by now and
\* whichever screen is shown; anything else is shown where it was asked.
MeAnswered(t) ==
    /\ t \in mes
    /\ mes' = mes \ {t}
    /\ \E s \in MeStatuses[Authorised(t)] \cup {NoAnswer} :
        native' = IF s = 401 THEN Append(native, Call("clear", NoToken, "app")) ELSE native
    /\ UNCHANGED <<store, done, token, hydration, screen, form, outside, logout>>

-----------------------------------------------------------------------------
(* SecureStore *)

\* A sign-in is stored: the user is not, or no longer, signed out.
SignedIn == IF logout = "out" THEN "asked" ELSE logout

\* The call at the head of the queue is carried out, or fails.
CarriedOut(c) ==
    /\ store' = CASE c.op = "set" -> c.tok [] c.op = "clear" -> NoToken [] OTHER -> store
    /\ done' = Append(done, Ended(c, store', TRUE))
    /\ logout' = IF c.op = "set" THEN SignedIn ELSE logout
    /\ UNCHANGED failures

Fails(c) ==
    /\ failures < MaxFailures
    /\ failures' = failures + 1
    /\ done' = Append(done, Ended(c, NoToken, FALSE))
    /\ UNCHANGED <<store, logout>>

NativeDone ==
    /\ native # <<>>
    /\ native' = Tail(native)
    /\ CarriedOut(Head(native)) \/ Fails(Head(native))
    /\ UNCHANGED <<token, hydration, screen, form, mes, issued, expired, restarts>>

-----------------------------------------------------------------------------
(* The code behind the await of a call; e is how the call ended *)

\* Mutant: isLoading is reset on success only.
HydrateFailsSilently ==
    /\ token' = NoToken
    /\ UNCHANGED hydration

HydrateFails ==
    /\ token' = NoToken
    /\ hydration' = "failed"

\* The token read at start-up.
Hydrated(e) ==
    /\ e.call.op = "hydrate"
    /\ \/ e.ok /\ token' = e.tok /\ hydration' = "read"
       \/ ~e.ok /\ HydrateFails
    /\ UNCHANGED <<native, screen, form, mes, logout>>

\* me reads the token and sends its request; without the store it shows an error.
ReadForMe(e) ==
    /\ e.call.op = "read"
    /\ mes' = IF e.ok THEN mes \cup {e.tok} ELSE mes
    /\ UNCHANGED <<native, token, hydration, screen, form, logout>>

\* The rest of signIn, and of the screen's handler.
TokenSet(e) ==
    /\ e.call.op = "set"
    /\ \/ /\ e.ok
          /\ token' = e.tok
          /\ Show("home", Over(e.call.by), BusyAfter(e.call.by))
       \/ /\ ~e.ok
          /\ logins' = Over(e.call.by)
          /\ submitting' = BusyAfter(e.call.by)
          /\ UNCHANGED <<native, token, screen, prompting>>
    /\ UNCHANGED <<hydration, mes, logout>>

\* The rest of signOut, which goes on after an error, and of its caller.  A sign-in
\* stored since then is taken in next.
TokenCleared(e) ==
    /\ e.call.op = "clear"
    /\ token' = NoToken
    /\ Show("login", logins, submitting)
    /\ logout' = IF e.call.by = "user" /\ \A i \in 2..Len(done) : done[i].call.op # "set"
                 THEN "out" ELSE logout
    /\ UNCHANGED <<hydration, mes>>

Continue ==
    /\ done # <<>>
    /\ done' = Tail(done)
    /\ LET e == Head(done) IN Hydrated(e) \/ ReadForMe(e) \/ TokenSet(e) \/ TokenCleared(e)
    /\ UNCHANGED <<store, outside>>

-----------------------------------------------------------------------------
(* What happens outside *)

\* Twenty-four hours pass, or the secret changes.
Expire(t) ==
    /\ t \in issued \ expired
    /\ expired' = expired \cup {t}
    /\ UNCHANGED <<store, native, done, token, hydration, screen, form, mes, issued, logout, failures, restarts>>

\* The app is killed and opened again; the call under way is carried out or not.
Restart ==
    /\ restarts < MaxRestarts
    /\ restarts' = restarts + 1
    /\ \/ UNCHANGED <<store, logout>>
       \/ native # <<>> /\ Head(native).op = "set" /\ store' = Head(native).tok /\ logout' = SignedIn
       \/ native # <<>> /\ Head(native).op = "clear" /\ store' = NoToken /\ UNCHANGED logout
    /\ Mount
    /\ UNCHANGED <<issued, expired, failures>>

-----------------------------------------------------------------------------
App ==
    \/ Index \/ AppLayout \/ NativeDone \/ Continue
    \/ \E l \in Slots : LoginAnswered(l) \/ LoginRefused(l)
    \/ \E t \in MaybeToken : MeAnswered(t)

User == OnSubmit \/ Prompt \/ OnGoogleResult \/ Logout

Next == App \/ User \/ Restart \/ \E t \in Tokens : Expire(t)

Spec == Init /\ [][Next]_vars

\* SecureStore ends its calls, the platform every request (the code sets no timeout
\* for its own), and the event loop runs what awaits them; the user need do nothing.
Fairness ==
    /\ WF_vars(Index) /\ WF_vars(AppLayout) /\ WF_vars(NativeDone) /\ WF_vars(Continue)
    /\ \A l \in Slots : WF_vars(LoginAnswered(l) \/ LoginRefused(l))

FairSpec == Spec /\ Fairness

-----------------------------------------------------------------------------
(* Properties *)

\* auth.tsx:45-60: however sign-ins, sign-outs and failing calls overlap, the app
\* ends up believing no more than SecureStore would tell it after a restart.  Between
\* the end of a call and the code that awaits it the two may differ; whenever all the
\* calls that have ended are taken in, they agree, others being under way or not.
MemoryIsPersisted == done = <<>> => token \in {store, NoToken}

\* me.ts:27-39: no outage of the gateway or of the admin backend ends a session.
\* The stored token goes when the user has asked to leave, or a token is rejected.
ForgetsToken == store # NoToken /\ store' = NoToken

OutageKeepsSession == [][ForgetsToken => logout # "never" \/ expired # {}]_vars

\* index.tsx:7-9: a start with a token stored never shows the login form, unless
\* the store cannot be read.
ShowsLoginAtStart == screen \in {"splash", "gate"} /\ screen' = "login"

HolderGoesHome == [][ShowsLoginAtStart => store = NoToken \/ hydration = "failed"]_vars

\* auth.tsx:34-38: whatever SecureStore does, the splash screen goes away.
SplashEnds == [](screen \in {"splash", "gate"} => <>(screen \in {"login", "home"}))

\* login.tsx:36-38, 58-60: a login screen does not stay busy for ever.
SubmittingEnds == [](submitting => <>(~submitting))

\* auth.tsx:54: "A storage failure must never strand the user in a logged-in state".
SignedOutStays == logout = "out" => token = NoToken
=============================================================================
