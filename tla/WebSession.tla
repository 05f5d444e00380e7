----------------------------- MODULE WebSession -----------------------------
(***************************************************************************)
(* The session of the admin web app in one tab of the browser: the token   *)
(* in localStorage, the pages that guard themselves with it, the           *)
(* navigation bar that shows it, and the guard that watches whether the    *)
(* system is set up.  Other tabs read and write the same token.            *)
(*                                                                         *)
(* External: the router shows a page some time after it was sent there,    *)
(* the last order winning; requests outlive the page that made them.       *)
(***************************************************************************)
EXTENDS Naturals, FiniteSets

CONSTANTS
    Tokens,      \* tokens the server can issue (a bound)
    RootTokens,  \* those of the root user
    NoToken,     \* null
    MaxChecks,   \* status requests in flight at once (a bound)
    MaxActs      \* what the user and other tabs do (a bound)

ASSUME TokensAssumption == RootTokens \subseteq Tokens /\ NoToken \notin Tokens
ASSUME BoundAssumption == MaxActs \in Nat

VARIABLES
    stored,      \* localStorage: the token
    issued,      \* server: tokens issued
    expired,     \* server: tokens it answers 401 to
    configured,  \* server: a root user exists
    route,       \* the page shown
    goto,        \* where the router is going
    navbar,      \* Navbar: loggedIn and role
    homeShows,   \* HomePage: loggedIn
    dashboard,   \* DashboardPage: "nobody" until the user is there, then the role read with it
    step,        \* LoginPage: step
    login,       \* the sign-in in flight (at most one: a bound)
    mes,         \* tokens of the requests for the user in flight
    checks,      \* systemStatus requests in flight: the pathname and the server's state when they left
    mine,        \* history: no other tab has written the token since this one did
    overtaken,   \* history: the router was sent elsewhere while under way
    acts

server == <<issued, expired, configured>>
screen == <<route, navbar, homeShows, dashboard, step>>
flight == <<login, mes, checks>>
router == <<goto, overtaken>>
vars   == <<stored, mine, server, screen, router, flight, acts>>

Protected == {"dashboard", "users"}
Pages == {"home", "login", "register", "callback", "setup"} \cup Protected
Stay  == "stay"
Who   == {"nobody", "user", "root"}

TypeOK ==
    /\ stored \in Tokens \cup {NoToken} /\ issued \subseteq Tokens /\ expired \subseteq issued
    /\ configured \in BOOLEAN /\ mine \in BOOLEAN /\ overtaken \in BOOLEAN
    /\ route \in Pages \cup {"blank"} /\ goto \in Pages \cup {Stay}
    /\ navbar \in Who /\ homeShows \in BOOLEAN /\ dashboard \in Who
    /\ step \in {"credentials", "mfa"}
    /\ login \in {"idle", "password", "code", "register"}
    /\ mes \subseteq Tokens
    /\ checks \subseteq Pages \X BOOLEAN
    /\ acts \in 0..MaxActs

\* The tab is opened at some address, with a token of an earlier visit or none.
Init ==
    /\ \/ stored = NoToken /\ issued = {}
       \/ stored \in Tokens /\ issued = {stored}
    /\ expired \in SUBSET issued
    /\ configured \in BOOLEAN
    /\ route = "blank" /\ goto \in Pages \ {"callback"}
    /\ navbar = "nobody" /\ homeShows = FALSE /\ dashboard = "nobody" /\ step = "credentials"
    /\ login = "idle" /\ mes = {} /\ checks = {}
    /\ mine = TRUE /\ overtaken = FALSE /\ acts = 0

-----------------------------------------------------------------------------
(* lib/auth.ts *)

IsAuthenticated == stored # NoToken

\* The role the stored token claims.
IsRoot == stored \in RootTokens

\* isAuthenticated and getRole together, as the pages show them.
Claimed == CASE ~IsAuthenticated -> "nobody"
             [] IsRoot           -> "root"
             [] OTHER            -> "user"

\* setToken and clearToken.
Write(token) == stored' = token /\ mine' = TRUE

GoTo(page) == goto' = page /\ overtaken' = (overtaken \/ goto # Stay)

-----------------------------------------------------------------------------
(* A page appears: the navigation bar's effect runs, then the page's own, then   *)
(* the system guard's, which asks for the status.                               *)

Leads(page) == goto' = page /\ UNCHANGED <<stored, mine, issued, mes>>

\* LoginPage: whoever is signed in goes on.
LoginEffect == Leads(IF IsAuthenticated THEN "dashboard" ELSE Stay)

\* AdminUsersPage: for root only.
UsersEffect == Leads(CASE ~IsAuthenticated            -> "login"
                       [] IsAuthenticated /\ ~IsRoot -> "dashboard"
                       [] OTHER                       -> Stay)

\* DashboardPage: the user is asked for, with the token there is.
DashboardEffect ==
    \/ ~IsAuthenticated /\ Leads("login")
    \/ /\ IsAuthenticated
       /\ mes' = mes \cup {stored}
       /\ goto' = Stay /\ UNCHANGED <<stored, mine, issued>>

\* AuthCallbackPage: the address holds a token, which is stored, or an error.
CallbackEffect ==
    \/ \E k \in Tokens \ issued :
        Write(k) /\ issued' = issued \cup {k} /\ goto' = "dashboard" /\ UNCHANGED mes
    \/ Leads(Stay)

PageEffect(page) ==
    CASE page = "login"     -> LoginEffect
      [] page = "users"     -> UsersEffect
      [] page = "dashboard" -> DashboardEffect
      [] page = "callback"  -> CallbackEffect
      [] OTHER              -> Leads(Stay)

\* The navigation bar reads the token again whenever the pathname changes.
NavbarEffect == navbar' = Claimed

\* The router is there: a new page appears, or the same one stays as it is.
Navigate ==
    /\ goto # Stay
    /\ \/ /\ goto = route
          /\ goto' = Stay
          /\ UNCHANGED <<stored, mine, issued, mes, screen, checks>>
       \/ /\ goto # route /\ Cardinality(checks) < MaxChecks
          /\ route' = goto
          /\ NavbarEffect
          /\ PageEffect(goto)
          /\ homeShows' = (goto = "home" /\ IsAuthenticated)
          /\ dashboard' = "nobody" /\ step' = "credentials"
          /\ checks' = checks \cup {<<goto, configured>>}
    /\ UNCHANGED <<expired, configured, overtaken, login, acts>>

-----------------------------------------------------------------------------
(* Answers *)

\* SystemGuard: where an answer sends the tab that asked on a page.
Guard(isConfigured, page) ==
    CASE ~isConfigured /\ page # "setup" -> "setup"
      [] isConfigured /\ page = "setup"  -> "home"
      [] OTHER                           -> Stay

\* The server answered when it was asked, or only now; without an answer the guard
\* leaves the page alone.
StatusAnswered(c) ==
    /\ c \in checks
    /\ checks' = checks \ {c}
    /\ \E page \in {Guard(c[2], c[1]), Guard(configured, c[1]), Stay} :
        \/ page = Stay /\ UNCHANGED router
        \/ page # Stay /\ GoTo(page)
    /\ UNCHANGED <<stored, mine, server, screen, login, mes, acts>>

\* Mutant: the token is kept.
RejectedKeepsToken == GoTo("login") /\ UNCHANGED <<stored, mine>>

\* The catch of a 401.
Rejected == GoTo("login") /\ Write(NoToken)

\* The user arrives, or an error the page shows, or a 401, whatever is shown by then.
\* The dashboard appears with the user, and with the role of the token there is now.
MeAnswered(k) ==
    /\ k \in mes
    /\ mes' = mes \ {k}
    /\ \/ k \in expired /\ Rejected /\ UNCHANGED dashboard
       \/ UNCHANGED <<stored, mine, router, dashboard>>
       \/ /\ route = "dashboard"
          /\ dashboard' = IF IsRoot THEN "root" ELSE "user"
          /\ UNCHANGED <<stored, mine, router>>
    /\ UNCHANGED <<server, route, navbar, homeShows, step, login, checks, acts>>

\* A new token is stored, and the router sent to the dashboard.
SignedIn ==
    \E k \in Tokens \ issued : Write(k) /\ issued' = issued \cup {k} /\ GoTo("dashboard")

NotSignedIn == UNCHANGED <<stored, mine, issued, router>>

Ends(kind) ==
    /\ login = kind /\ login' = "idle"
    /\ UNCHANGED <<expired, configured, route, navbar, homeShows, dashboard, mes, checks, acts>>

\* A token, a challenge, or an error; on another page the challenge goes unseen.
HandleCredentials ==
    /\ Ends("password")
    /\ \/ SignedIn /\ UNCHANGED step
       \/ NotSignedIn /\ step' = IF route = "login" THEN "mfa" ELSE step
       \/ NotSignedIn /\ UNCHANGED step

HandleMFA ==
    /\ Ends("code")
    /\ SignedIn \/ NotSignedIn
    /\ UNCHANGED step

HandleRegister ==
    /\ Ends("register")
    /\ SignedIn \/ NotSignedIn
    /\ UNCHANGED step

-----------------------------------------------------------------------------
(* What the user does *)

Act == acts < MaxActs /\ acts' = acts + 1

\* The links of the navigation bar.
NavbarLinks ==
    {"home"} \cup CASE navbar = "nobody" -> {"login", "register"}
                     [] navbar = "user"   -> {"dashboard"}
                     [] OTHER             -> {"dashboard", "users"}

\* The links of the home page, for whom it saw when it appeared.
HomeLinks == IF homeShows THEN {"dashboard"} ELSE {"register", "login"}

\* The dashboard's.
DashboardLinks == IF dashboard = "root" THEN {"users"} ELSE {}

Links == NavbarLinks \cup (CASE route = "home"      -> HomeLinks
                             [] route = "dashboard" -> DashboardLinks
                             [] route = "users"     -> {"dashboard"}
                             [] route = "login"     -> {"register"}
                             [] route \in {"register", "callback"} -> {"login"}
                             [] OTHER               -> {})

Follow ==
    /\ route # "blank" /\ Act
    /\ \E page \in Links : GoTo(page)
    /\ UNCHANGED <<stored, mine, server, screen, flight>>

Submit(kind) ==
    /\ login = "idle" /\ Act
    /\ login' = kind
    /\ UNCHANGED <<stored, mine, server, screen, router, mes, checks>>

\* The login form; Google's link leaves the app, and comes back at the callback
\* (requests outlive this, too: more than can happen).
CredentialsForm ==
    /\ route = "login" /\ step = "credentials"
    /\ \/ Submit("password")
       \/ Act /\ GoTo("callback") /\ UNCHANGED <<stored, mine, server, screen, flight>>

\* The form for the code, and the button back to the other.
MfaForm ==
    /\ route = "login" /\ step = "mfa"
    /\ \/ Submit("code")
       \/ /\ Act /\ step' = "credentials"
          /\ UNCHANGED <<stored, mine, server, route, navbar, homeShows, dashboard, router, flight>>

RegisterForm == route = "register" /\ Submit("register")

\* Mutant: the bar is left to its effect.
LogoutQuietly ==
    /\ navbar # "nobody" /\ Act
    /\ Write(NoToken)
    /\ GoTo("home")
    /\ UNCHANGED <<server, screen, flight>>

\* The navigation bar's logout.
HandleLogout ==
    /\ navbar # "nobody" /\ Act
    /\ Write(NoToken)
    /\ navbar' = "nobody"
    /\ GoTo("home")
    /\ UNCHANGED <<server, route, homeShows, dashboard, step, flight>>

\* The dashboard's own.
DashboardLogout ==
    /\ dashboard # "nobody" /\ Act
    /\ Write(NoToken)
    /\ GoTo("home")
    /\ UNCHANGED <<server, screen, flight>>

\* SetupPage: the status is asked for, and the home page shown once it is good.
HandleCheckAgain ==
    /\ route = "setup" /\ Act
    /\ configured /\ GoTo("home")
    /\ UNCHANGED <<stored, mine, server, screen, flight>>

\* Another tab signs in or out.
OtherTab ==
    /\ Act
    /\ \/ \E k \in Tokens \ issued : stored' = k /\ issued' = issued \cup {k}
       \/ stored' = NoToken /\ UNCHANGED issued
    /\ mine' = FALSE
    /\ UNCHANGED <<expired, configured, screen, router, flight>>

\* Twenty-four hours pass; or the root user is seeded.
Outside ==
    /\ \/ \E k \in issued \ expired : expired' = expired \cup {k} /\ UNCHANGED configured
       \/ ~configured /\ configured' = TRUE /\ UNCHANGED expired
    /\ UNCHANGED <<stored, mine, issued, screen, router, flight, acts>>

-----------------------------------------------------------------------------
App ==
    \/ HandleCredentials \/ HandleMFA \/ HandleRegister
    \/ \E k \in mes : MeAnswered(k)
    \/ \E c \in checks : StatusAnswered(c)

User ==
    \/ Follow \/ CredentialsForm \/ MfaForm \/ RegisterForm
    \/ HandleLogout \/ DashboardLogout \/ HandleCheckAgain

Next == Navigate \/ App \/ User \/ OtherTab \/ Outside

Spec == Init /\ [][Next]_vars

\* The router arrives and requests end; nobody need do anything.
FairSpec == Spec /\ WF_vars(Navigate) /\ WF_vars(App)

-----------------------------------------------------------------------------
(* Properties *)

\* Once everybody leaves the app alone it comes to rest: the guards of the pages,
\* the 401s and the system guard do not send the tab round in circles.
ComesToRest == <>[](goto = Stay)

\* A tab that has arrived agrees with the token it wrote itself: its navigation bar
\* shows it, and no page that needs one is shown without.  (Where one redirect
\* overtakes another the bar may miss a change: it reads the token on arrival only.)
TabAgrees ==
    goto = Stay /\ mine /\ ~overtaken =>
        /\ navbar # "nobody" <=> IsAuthenticated
        /\ route \in Protected => IsAuthenticated
=============================================================================
