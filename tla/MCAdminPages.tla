---------------------------- MODULE MCAdminPages ----------------------------
(***************************************************************************)
(* Small instances of the pages of the admin web app for TLC: a tab opened *)
(* at one of them.  They share nothing but the token (module WebSession),  *)
(* so that page moves and the variables of the others stand still.         *)
(***************************************************************************)
EXTENDS TLC, Naturals

CONSTANTS Users, Me, Slots, NoRole, TheOrg, MaxMoves, Terms, TwoPages, OnePage, Secrets, Orgs, Nothing

VARIABLES
    opened,
    members, orgPlan, sysRole, orgView, rows, shownPlan, myOrgRole, changing, busy, orgCalls,
    moves, disturbed, checkouts,
    roles, usersView, term, searchPage, search, result, field, assign, outcome, since,
    enabled, secret, made, profileView, mfaShown, mfaStep, setupData, loading, profileCalls, lost, overwritten,
    stored, fresh, orgsView, listing, listed, orgs, creating, orgsCalls, crossed

\* Two pages match the first text, one the second, and none the others.
Pages == [t \in Terms |-> CASE t = TwoPages -> 2 [] t = OnePage -> 1 [] OTHER -> 0]

orgPage     == <<members, orgPlan, sysRole, orgView, rows, shownPlan, myOrgRole, changing, busy, orgCalls,
                 moves, disturbed, checkouts>>
usersPage   == <<roles, usersView, term, searchPage, search, result, field, assign, outcome, since>>
profilePage == <<enabled, secret, made, profileView, mfaShown, mfaStep, setupData, loading, profileCalls, lost,
                 overwritten>>
orgsPage    == <<stored, fresh, orgsView, listing, listed, orgs, creating, orgsCalls, crossed>>

Org     == INSTANCE OrgPage WITH view <- orgView, calls <- orgCalls
Admin   == INSTANCE UsersPage WITH view <- usersView
Profile == INSTANCE ProfilePage WITH view <- profileView, calls <- profileCalls
List    == INSTANCE OrgsPage WITH view <- orgsView, calls <- orgsCalls, disturbed <- crossed

\* The user of the page is one of the users; what stands for none is none of those.
ASSUME PageConstants == Me \in Users /\ TheOrg \notin Users /\ NoRole \notin Org!OrgRoles

Init ==
    /\ opened \in {"org", "users", "profile", "orgs"}
    /\ Org!Init /\ Admin!Init /\ Profile!Init /\ List!Init
    /\ opened # "org" => members = [u \in Users |-> NoRole] /\ orgPlan = "free" /\ sysRole = NoRole
    /\ opened # "users" => term = OnePage
    /\ opened # "profile" => ~enabled
    /\ opened # "orgs" => stored = {CHOOSE o \in Orgs : TRUE}

Next ==
    \/ opened = "org"     /\ Org!Next     /\ UNCHANGED <<opened, usersPage, profilePage, orgsPage>>
    \/ opened = "users"   /\ Admin!Next   /\ UNCHANGED <<opened, orgPage, profilePage, orgsPage>>
    \/ opened = "profile" /\ Profile!Next /\ UNCHANGED <<opened, orgPage, usersPage, orgsPage>>
    \/ opened = "orgs"    /\ List!Next    /\ UNCHANGED <<opened, orgPage, usersPage, profilePage>>

vars == <<opened, orgPage, usersPage, profilePage, orgsPage>>

Spec == Init /\ [][Next]_vars

Symmetric == Permutations(Slots)

-----------------------------------------------------------------------------
\* OrgPage: the rows, the offers, the plan and the buttons of an organisation's page.
RowsAgree        == Org!RowsAgree
OfferedIsAllowed == Org!OfferedIsAllowed
PlanAgrees       == Org!PlanAgrees
ButtonsComeBack  == Org!ButtonsComeBack

\* UsersPage: the page number belongs to the table, the banner to the server's state.
PageIsOfTable == Admin!PageIsOfTable
BannerIsTrue  == Admin!BannerIsTrue

\* ProfilePage: the secret and the status shown are the server's.
ShownSecretIsCurrent == Profile!ShownSecretIsCurrent
StatusIsTrue         == Profile!StatusIsTrue

\* OrgsPage: the rows are the organisations.
ListAgrees == List!ListAgrees
=============================================================================
