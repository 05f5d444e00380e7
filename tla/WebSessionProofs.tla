-------------------------- MODULE WebSessionProofs --------------------------
(***************************************************************************)
(* Proofs about WebSession, for any tokens and however much the user and   *)
(* other tabs do.                                                          *)
(*                                                                         *)
(* The navigation bar reads the token only when another page appears, so a *)
(* redirect to the page already shown refreshes nothing.  What saves it is *)
(* where the redirects that write a token lead: to the login page, where   *)
(* the bar shows nobody, to the dashboard, where it shows somebody, or to  *)
(* the home page, by a button that has set the bar itself or is found on   *)
(* another page.                                                           *)
(***************************************************************************)
EXTENDS WebSession, TLAPS

\* A tab that has arrived, or is sent to where it is: on the login page the bar
\* shows nobody, whoever else signs in, and on the dashboard it shows somebody.
Settled ==
    ~overtaken /\ goto \in {Stay, route} =>
        /\ route = "login" => navbar = "nobody"
        /\ route = "dashboard" => navbar # "nobody"
        /\ mine => /\ navbar # "nobody" <=> IsAuthenticated
                   /\ route \in Protected => IsAuthenticated

\* The user is on the dashboard or nowhere.
UserHere == dashboard # "nobody" => route = "dashboard"

IInv == TypeOK /\ Settled /\ UserHere

LEMMA Named ==
    /\ Stay \notin Pages /\ "blank" \notin Pages /\ "blank" # Stay
    /\ {"home", "login", "register", "callback", "setup", "dashboard", "users"} = Pages
  BY DEF Pages, Protected, Stay

LEMMA InitHolds == Init => IInv
  <1> SUFFICES ASSUME Init PROVE IInv  OBVIOUS
  <1>1. route = "blank" /\ goto \in Pages /\ goto \notin {Stay, route}
    BY Named DEF Init
  <1>2. TypeOK
    <2>1. issued \subseteq Tokens /\ expired \subseteq issued  BY DEF Init
    <2>2. acts \in 0..MaxActs  BY BoundAssumption DEF Init
    <2> QED  BY <1>1, <2>1, <2>2 DEF Init, TypeOK, Who
  <1>3. Settled /\ UserHere  BY <1>1 DEF Init, Settled, UserHere
  <1> QED  BY <1>2, <1>3 DEF IInv

-----------------------------------------------------------------------------
(* Orders to the router *)

\* What an order to the router leaves to be shown: where another was still being
\* followed there is nothing left to show.
LEMMA SentKeeps ==
    ASSUME IInv, NEW page \in Pages, GoTo(page), UNCHANGED route,
           goto = Stay /\ ~overtaken /\ page = route =>
               /\ route = "login" => navbar' = "nobody"
               /\ route = "dashboard" => navbar' # "nobody"
               /\ mine' => /\ navbar' # "nobody" <=> IsAuthenticated'
                           /\ route \in Protected => IsAuthenticated'
    PROVE  Settled'
  BY Named DEF GoTo, Settled

LEMMA NavigateKeeps == ASSUME IInv, Navigate PROVE IInv'
  <1>1. goto \in Pages /\ UNCHANGED <<expired, configured, overtaken, login, acts>>
    BY DEF Navigate, IInv, TypeOK
  <1>2. CASE goto = route /\ goto' = Stay /\ UNCHANGED <<stored, mine, issued, mes, screen, checks>>
    BY <1>1, <1>2 DEF IInv, TypeOK, Settled, UserHere, IsAuthenticated, screen
  <1>3. CASE /\ goto # route
             /\ route' = goto
             /\ NavbarEffect
             /\ PageEffect(goto)
             /\ homeShows' = (goto = "home" /\ IsAuthenticated)
             /\ dashboard' = "nobody" /\ step' = "credentials"
             /\ checks' = checks \cup {<<goto, configured>>}
    <2>1. /\ navbar' \in Who
          /\ navbar' = "nobody" <=> ~IsAuthenticated
          /\ route' = goto
      BY <1>3, TokensAssumption DEF NavbarEffect, Claimed, Who, IsAuthenticated, IsRoot
    <2>2. \/ UNCHANGED <<stored, mine, issued>> /\ goto' \in {"login", "dashboard", Stay}
          \/ /\ goto = "callback" /\ goto' = "dashboard"
             /\ \E k \in Tokens \ issued : Write(k) /\ issued' = issued \cup {k}
      BY <1>3 DEF PageEffect, LoginEffect, UsersEffect, DashboardEffect, CallbackEffect, Leads
    <2>3. /\ goto = "login" => goto' = IF IsAuthenticated THEN "dashboard" ELSE Stay
          /\ goto \in Protected /\ ~IsAuthenticated => goto' = "login"
          /\ goto' # goto /\ (goto' = "login" => goto \in Protected)
          /\ mes' \subseteq Tokens
      <3>1. CASE goto = "login"
        BY <1>1, <1>3, <3>1 DEF PageEffect, LoginEffect, Leads, Protected, Stay, IInv, TypeOK
      <3>2. CASE goto = "users"
        BY <1>1, <1>3, <3>2, TokensAssumption
        DEF PageEffect, UsersEffect, Leads, Protected, Stay, IInv, TypeOK,
           IsAuthenticated, IsRoot
      <3>3. CASE goto = "dashboard"
        BY <1>1, <1>3, <3>3 DEF PageEffect, DashboardEffect, Leads, Protected, Stay, IInv, TypeOK,
           IsAuthenticated
      <3>4. CASE goto = "callback"
        BY <1>1, <1>3, <3>4 DEF PageEffect, CallbackEffect, Leads, Protected, Stay, IInv, TypeOK
      <3>5. CASE goto \notin {"login", "users", "dashboard", "callback"}
        BY <1>1, <1>3, <3>5, Named DEF PageEffect, Leads, Protected, Stay, IInv, TypeOK
      <3> QED  BY <3>1, <3>2, <3>3, <3>4, <3>5
    <2>4. TypeOK'
      <3>1. /\ stored' \in Tokens \cup {NoToken} /\ issued' \subseteq Tokens
            /\ expired' \subseteq issued' /\ mine' \in BOOLEAN /\ goto' \in Pages \cup {Stay}
        BY <1>1, <2>2, Named DEF IInv, TypeOK, Write
      <3>2. checks' \subseteq Pages \X BOOLEAN
        BY <1>1, <1>3 DEF IInv, TypeOK
      <3> QED
        BY <1>1, <1>3, <2>1, <2>3, <3>1, <3>2 DEF IInv, TypeOK, Who
    <2>5. Settled'
      <3> SUFFICES ASSUME goto' = Stay
                   PROVE  /\ route' = "login" => navbar' = "nobody"
                          /\ route' = "dashboard" => navbar' # "nobody"
                          /\ navbar' # "nobody" <=> IsAuthenticated'
                          /\ route' \in Protected => IsAuthenticated'
        BY <2>1, <2>3 DEF Settled
      <3>1. UNCHANGED stored  BY <2>2, Named
      <3>2. goto \in Protected \cup {"login"} => (IsAuthenticated <=> goto # "login")
        BY <2>3, Named DEF Protected
      <3> QED  BY <2>1, <3>1, <3>2 DEF IsAuthenticated, Protected
    <2>6. UserHere'  BY <1>3 DEF UserHere
    <2> QED  BY <2>4, <2>5, <2>6 DEF IInv
  <1> QED  BY <1>2, <1>3 DEF Navigate

-----------------------------------------------------------------------------
(* Answers *)

LEMMA StatusKeeps == ASSUME IInv, NEW c, StatusAnswered(c) PROVE IInv'
  <1>1. /\ UNCHANGED <<stored, mine, issued, expired, configured, route, navbar, homeShows,
                       dashboard, step, login, mes, acts>>
        /\ checks' \subseteq checks
    BY DEF StatusAnswered, server, screen
  <1>2. PICK page \in {Guard(c[2], c[1]), Guard(configured, c[1]), Stay} :
            \/ page = Stay /\ UNCHANGED router
            \/ page # Stay /\ GoTo(page)
    BY DEF StatusAnswered
  <1>3. page \in Pages \cup {Stay}  BY Named DEF Guard
  <1>4. Settled'
    <2>1. CASE UNCHANGED router
      BY <1>1, <2>1 DEF IInv, Settled, IsAuthenticated, router
    <2>2. CASE page # Stay /\ GoTo(page)
      <3>1. goto = Stay /\ ~overtaken =>
               /\ route = "login" => navbar = "nobody"
               /\ route = "dashboard" => navbar # "nobody"
               /\ mine => /\ navbar # "nobody" <=> IsAuthenticated
                          /\ route \in Protected => IsAuthenticated
        BY DEF IInv, Settled
      <3> QED  BY <1>1, <1>3, <2>2, <3>1, SentKeeps DEF IsAuthenticated
    <2> QED  BY <1>2, <2>1, <2>2
  <1>5. goto' \in Pages \cup {Stay} /\ overtaken' \in BOOLEAN
    BY <1>2, <1>3 DEF GoTo, router, IInv, TypeOK
  <1>6. TypeOK'  BY <1>1, <1>5 DEF IInv, TypeOK
  <1>7. UserHere'  BY <1>1 DEF IInv, UserHere
  <1> QED  BY <1>4, <1>6, <1>7 DEF IInv

\* A token is written, and the tab sent where the bar, as it is or is now set, fits it.
LEMMA WrittenKeeps ==
    ASSUME IInv, NEW token \in Tokens \cup {NoToken}, Write(token),
           NEW page \in Pages, GoTo(page),
           UNCHANGED route, navbar' \in Who,
           page = route /\ goto = Stay /\ ~overtaken =>
               /\ route = "login" => navbar' = "nobody"
               /\ route = "dashboard" => navbar' # "nobody"
               /\ navbar' # "nobody" <=> token # NoToken
               /\ route \in Protected => token # NoToken
    PROVE  /\ stored' \in Tokens \cup {NoToken} /\ mine' \in BOOLEAN
           /\ goto' \in Pages \cup {Stay} /\ overtaken' \in BOOLEAN
           /\ Settled'
  <1>1. stored' = token /\ mine' = TRUE  BY DEF Write
  <1>2. Settled'  BY <1>1, SentKeeps DEF IsAuthenticated
  <1> QED  BY <1>1, <1>2 DEF GoTo, IInv, TypeOK

LEMMA MeKeeps == ASSUME IInv, NEW k, MeAnswered(k) PROVE IInv'
  <1>1. /\ UNCHANGED <<issued, expired, configured, route, navbar, homeShows, step, login,
                       checks, acts>>
        /\ mes' \subseteq mes
    BY DEF MeAnswered, server
  <1>2. CASE Rejected /\ UNCHANGED dashboard
    <2>1. GoTo("login") /\ Write(NoToken) /\ "login" \in Pages
      BY <1>2, Named DEF Rejected
    <2>2. route = "login" /\ goto = Stay /\ ~overtaken => navbar = "nobody"
      BY DEF IInv, Settled
    <2>3. /\ stored' \in Tokens \cup {NoToken} /\ mine' \in BOOLEAN
          /\ goto' \in Pages \cup {Stay} /\ overtaken' \in BOOLEAN
          /\ Settled'
      BY <1>1, <2>1, <2>2, WrittenKeeps DEF IInv, TypeOK, Protected
    <2>4. TypeOK'  BY <1>1, <1>2, <2>3 DEF IInv, TypeOK
    <2>5. UserHere'  BY <1>1, <1>2 DEF IInv, UserHere
    <2> QED  BY <2>3, <2>4, <2>5 DEF IInv
  <1>3. CASE /\ UNCHANGED <<stored, mine, router>>
             /\ UNCHANGED dashboard \/ (route = "dashboard" /\ dashboard' \in {"root", "user"})
    <2>1. TypeOK'  BY <1>1, <1>3 DEF IInv, TypeOK, router, Who
    <2>2. Settled'  BY <1>1, <1>3 DEF IInv, Settled, IsAuthenticated, router
    <2>3. UserHere'  BY <1>1, <1>3 DEF IInv, UserHere
    <2> QED  BY <2>1, <2>2, <2>3 DEF IInv
  <1> QED  BY <1>2, <1>3 DEF MeAnswered

LEMMA SignInKeeps ==
    ASSUME IInv, HandleCredentials \/ HandleMFA \/ HandleRegister
    PROVE  IInv'
  <1>1. /\ UNCHANGED <<expired, configured, route, navbar, homeShows, dashboard, mes, checks, acts>>
        /\ login' = "idle" /\ step' \in {"credentials", "mfa"}
    BY DEF HandleCredentials, HandleMFA, HandleRegister, Ends, IInv, TypeOK
  <1>2. UserHere'  BY <1>1 DEF IInv, UserHere
  <1>3. CASE SignedIn
    <2>1. PICK k \in Tokens \ issued :
             Write(k) /\ issued' = issued \cup {k} /\ GoTo("dashboard")
      BY <1>3 DEF SignedIn
    <2>2. k # NoToken /\ "dashboard" \in Pages  BY TokensAssumption, Named
    <2>3. route = "dashboard" /\ goto = Stay /\ ~overtaken => navbar # "nobody"
      BY DEF IInv, Settled
    <2>4. /\ stored' \in Tokens \cup {NoToken} /\ mine' \in BOOLEAN
          /\ goto' \in Pages \cup {Stay} /\ overtaken' \in BOOLEAN
          /\ Settled'
      BY <1>1, <2>1, <2>2, <2>3, WrittenKeeps DEF IInv, TypeOK
    <2>5. TypeOK'  BY <1>1, <2>1, <2>4 DEF IInv, TypeOK
    <2> QED  BY <1>2, <2>4, <2>5 DEF IInv
  <1>4. CASE NotSignedIn
    <2>1. TypeOK' /\ Settled'
      BY <1>1, <1>4 DEF NotSignedIn, router, IInv, TypeOK, Settled, IsAuthenticated
    <2> QED  BY <1>2, <2>1 DEF IInv
  <1> QED  BY <1>3, <1>4 DEF HandleCredentials, HandleMFA, HandleRegister

-----------------------------------------------------------------------------
(* The user *)

LEMMA ActTyped == ASSUME IInv, Act PROVE acts' \in 0..MaxActs
  BY BoundAssumption DEF Act, IInv, TypeOK

\* A link, the way to Google, the setup page's button: the token is not written.
LEMMA LinksKeep ==
    ASSUME IInv, Act, NEW page \in Pages, GoTo(page),
           UNCHANGED <<stored, mine, server, screen, flight>>
    PROVE  IInv'
  <1>1. UNCHANGED <<stored, mine, issued, expired, configured, route, navbar, homeShows,
                    dashboard, step, login, mes, checks>>
    BY DEF server, screen, flight
  <1>2. Settled'
    <2>1. goto = Stay /\ ~overtaken =>
             /\ route = "login" => navbar = "nobody"
             /\ route = "dashboard" => navbar # "nobody"
             /\ mine => /\ navbar # "nobody" <=> IsAuthenticated
                        /\ route \in Protected => IsAuthenticated
      BY DEF IInv, Settled
    <2> QED  BY <1>1, <2>1, SentKeeps DEF IsAuthenticated
  <1>3. goto' \in Pages \cup {Stay} /\ overtaken' \in BOOLEAN  BY DEF GoTo, IInv, TypeOK
  <1>4. TypeOK'  BY <1>1, <1>3, ActTyped DEF IInv, TypeOK
  <1>5. UserHere'  BY <1>1 DEF IInv, UserHere
  <1> QED  BY <1>2, <1>4, <1>5 DEF IInv

LEMMA FormsKeep ==
    ASSUME IInv, CredentialsForm \/ MfaForm \/ RegisterForm \/ Follow \/ HandleCheckAgain
    PROVE  IInv'
  <1>1. ASSUME NEW kind \in {"password", "code", "register"}, Submit(kind) PROVE IInv'
    <2>1. /\ UNCHANGED <<stored, mine, issued, expired, configured, route, navbar, homeShows,
                         dashboard, step, goto, overtaken, mes, checks>>
          /\ login' = kind /\ Act
      BY <1>1 DEF Submit, server, screen, router
    <2>2. TypeOK'  BY <2>1, ActTyped DEF IInv, TypeOK
    <2>3. Settled' /\ UserHere'  BY <2>1 DEF IInv, Settled, UserHere, IsAuthenticated
    <2> QED  BY <2>2, <2>3 DEF IInv
  <1>2. CASE /\ Act /\ step' = "credentials"
             /\ UNCHANGED <<stored, mine, server, route, navbar, homeShows, dashboard, router, flight>>
    <2>1. UNCHANGED <<stored, mine, issued, expired, configured, route, navbar, homeShows,
                      dashboard, goto, overtaken, login, mes, checks>>
      BY <1>2 DEF server, router, flight
    <2>2. TypeOK'  BY <1>2, <2>1, ActTyped DEF IInv, TypeOK
    <2>3. Settled' /\ UserHere'  BY <2>1 DEF IInv, Settled, UserHere, IsAuthenticated
    <2> QED  BY <2>2, <2>3 DEF IInv
  <1>3. CASE CredentialsForm  BY <1>1, <1>3, LinksKeep, Named DEF CredentialsForm
  <1>4. CASE MfaForm  BY <1>1, <1>2, <1>4 DEF MfaForm
  <1>5. CASE RegisterForm  BY <1>1, <1>5 DEF RegisterForm
  <1>6. CASE Follow
    <2>1. Links \subseteq Pages
      BY Named DEF Links, NavbarLinks, HomeLinks, DashboardLinks
    <2> QED  BY <1>6, <2>1, LinksKeep DEF Follow
  <1>7. CASE HandleCheckAgain  BY <1>7, LinksKeep, Named DEF HandleCheckAgain
  <1> QED  BY <1>3, <1>4, <1>5, <1>6, <1>7

LEMMA LogoutKeeps == ASSUME IInv, HandleLogout \/ DashboardLogout PROVE IInv'
  <1>1. /\ UNCHANGED <<issued, expired, configured, route, homeShows, dashboard, step, login,
                       mes, checks>>
        /\ Act /\ Write(NoToken) /\ GoTo("home") /\ "home" \in Pages
        /\ navbar' = "nobody" \/ (UNCHANGED navbar /\ dashboard # "nobody")
    BY Named DEF HandleLogout, DashboardLogout, server, screen, flight
  <1>2. navbar' \in Who  BY <1>1 DEF IInv, TypeOK, Who
  <1>3. dashboard # "nobody" => route # "home"  BY DEF IInv, UserHere
  <1>4. /\ stored' \in Tokens \cup {NoToken} /\ mine' \in BOOLEAN
        /\ goto' \in Pages \cup {Stay} /\ overtaken' \in BOOLEAN
        /\ Settled'
    BY <1>1, <1>2, <1>3, WrittenKeeps DEF Protected
  <1>5. TypeOK'  BY <1>1, <1>2, <1>4, ActTyped DEF IInv, TypeOK
  <1>6. UserHere'  BY <1>1 DEF IInv, UserHere
  <1> QED  BY <1>4, <1>5, <1>6 DEF IInv

-----------------------------------------------------------------------------
LEMMA OthersKeep == ASSUME IInv, OtherTab \/ Outside PROVE IInv'
  <1>1. CASE OtherTab
    <2>1. /\ UNCHANGED <<expired, configured, route, navbar, homeShows, dashboard, step, goto,
                         overtaken, login, mes, checks>>
          /\ Act /\ mine' = FALSE
          /\ stored' \in Tokens \cup {NoToken} /\ issued' \subseteq Tokens /\ issued \subseteq issued'
      BY <1>1 DEF OtherTab, screen, router, flight, IInv, TypeOK
    <2>2. TypeOK'  BY <2>1, ActTyped DEF IInv, TypeOK
    <2>3. Settled' /\ UserHere'  BY <2>1 DEF IInv, Settled, UserHere
    <2> QED  BY <2>2, <2>3 DEF IInv
  <1>2. CASE Outside
    <2>1. /\ UNCHANGED <<stored, mine, issued, route, navbar, homeShows, dashboard, step, goto,
                         overtaken, login, mes, checks, acts>>
          /\ expired' \subseteq issued /\ configured' \in BOOLEAN
      BY <1>2 DEF Outside, screen, router, flight, IInv, TypeOK
    <2>2. TypeOK'  BY <2>1 DEF IInv, TypeOK
    <2>3. Settled' /\ UserHere'  BY <2>1 DEF IInv, Settled, UserHere, IsAuthenticated
    <2> QED  BY <2>2, <2>3 DEF IInv
  <1> QED  BY <1>1, <1>2

LEMMA NextHolds == IInv /\ [Next]_vars => IInv'
  <1> SUFFICES ASSUME IInv, [Next]_vars PROVE IInv'  OBVIOUS
  <1>1. CASE UNCHANGED vars
    <2>1. UNCHANGED <<stored, mine, issued, expired, configured, route, navbar, homeShows,
                      dashboard, step, goto, overtaken, login, mes, checks, acts>>
      BY <1>1 DEF vars, server, screen, router, flight
    <2> QED  BY <2>1 DEF IInv, TypeOK, Settled, UserHere, IsAuthenticated
  <1>2. CASE Navigate  BY <1>2, NavigateKeeps
  <1>3. CASE App  BY <1>3, SignInKeeps, MeKeeps, StatusKeeps DEF App
  <1>4. CASE User  BY <1>4, FormsKeep, LogoutKeeps DEF User
  <1>5. CASE OtherTab \/ Outside  BY <1>5, OthersKeep
  <1> QED  BY <1>1, <1>2, <1>3, <1>4, <1>5 DEF Next

\* Every reachable state is well typed.
THEOREM TypeCorrect == Spec => []TypeOK
  <1>1. IInv => TypeOK  BY DEF IInv
  <1> QED  BY <1>1, InitHolds, NextHolds, PTL DEF Spec

\* A tab that has arrived agrees with the token it wrote itself, unless one redirect
\* overtook another.
THEOREM TabTrue == Spec => []TabAgrees
  <1>1. IInv => TabAgrees  BY DEF IInv, Settled, TabAgrees
  <1> QED  BY <1>1, InitHolds, NextHolds, PTL DEF Spec
=============================================================================
