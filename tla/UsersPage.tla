----------------------------- MODULE UsersPage -----------------------------
(***************************************************************************)
(* The page of the root user in the admin web app                          *)
(* (app/[locale]/admin/users/page.tsx): a search by e-mail with pages, and *)
(* a form that gives or takes the system role.                             *)
(*                                                                         *)
(* The server's users are Pages: how many pages of them match a text; each *)
(* request is carried out in one step and answered in another, or not.     *)
(* The fetch has no timeout of the app and no abort: one that rejects, or  *)
(* whose page is left, may be carried out later (Elsewhere).               *)
(***************************************************************************)
EXTENDS Plans

CONSTANTS
    Terms,      \* texts one can search for
    Pages,      \* Pages[t]: pages of users whose e-mail matches t
    Users,      \* users that occur on them
    NoRole,     \* no system role
    Nothing     \* null, and the empty field

VARIABLES
    roles,      \* server: roles[u], the system role of u
    view,       \* "shown" or "left"
    term,       \* searchEmail
    searchPage, \* searchPage
    search,     \* the search in flight: its text and page; searching while there is one
    result,     \* searchResult: the text and page it is for
    field,      \* userUuid: the user in the assignment form
    assign,     \* the assignment in flight; submitting while there is one
    outcome,    \* result: the user and role the banner shows
    since       \* history: users whose role others wrote after the page's last assignment

finding   == <<term, searchPage, search, result>>
assigning == <<field, assign, outcome>>
vars      == <<roles, view, finding, assigning, since>>

Query   == [text : Terms, page : Nat]
Outcome == [user : Users, role : {System, NoRole}]

TypeOK ==
    /\ roles \in [Users -> {System, NoRole}]
    /\ view \in {"shown", "left"}
    /\ term \in Terms /\ searchPage \in Nat
    /\ search \in Query \cup {Nothing} /\ result \in Query \cup {Nothing}
    /\ field \in Users \cup {Nothing} /\ outcome \in Outcome \cup {Nothing}
    /\ assign \in [user : Users, role : {System, NoRole}, reply : {"none", "ok", "refused"}] \cup {Nothing}
    /\ since \subseteq Users

\* The page as it opens for root; the empty text matches everybody.
Init ==
    /\ roles = [u \in Users |-> NoRole]
    /\ view = "shown"
    /\ term \in Terms /\ searchPage = 1
    /\ search = Nothing /\ result = Nothing
    /\ field = Nothing /\ assign = Nothing /\ outcome = Nothing
    /\ since = {}

\* The page is left, for good or with a 401; what it has asked for is given up.
Leave ==
    /\ view = "shown"
    /\ view' = "left"
    /\ UNCHANGED <<roles, finding, assigning, since>>

\* It is opened again, and starts afresh.
Open ==
    /\ view = "left"
    /\ view' = "shown"
    /\ term' \in Terms /\ searchPage' = 1
    /\ search' = Nothing /\ result' = Nothing
    /\ field' = Nothing /\ assign' = Nothing /\ outcome' = Nothing
    /\ UNCHANGED <<roles, since>>

-----------------------------------------------------------------------------
(* Searching *)

\* metadata.total_pages, which SearchUsers never lets fall below 1.
TotalPages(t) == IF Pages[t] = 0 THEN 1 ELSE Pages[t]

Type ==
    /\ view = "shown"
    /\ term' \in Terms \ {term}
    /\ UNCHANGED <<roles, view, searchPage, search, result, assigning, since>>

\* Mutant: the page is turned before the answer is there.
AskAndTurn(page) ==
    /\ view = "shown" /\ search = Nothing
    /\ search' = [text |-> term, page |-> page]
    /\ searchPage' = page
    /\ UNCHANGED <<roles, view, term, result, assigning, since>>

\* Every button of the search is disabled while one is in flight.
Ask(page) ==
    /\ view = "shown" /\ search = Nothing
    /\ search' = [text |-> term, page |-> page]
    /\ UNCHANGED <<roles, view, term, searchPage, result, assigning, since>>

\* The form searches for the text in the field, on the page shown last.
SearchForm == Ask(searchPage)

\* So do the buttons, one page before or after it.
Pagination ==
    /\ result # Nothing
    /\ \/ searchPage > 1 /\ Ask(searchPage - 1)
       \/ searchPage < TotalPages(result.text) /\ Ask(searchPage + 1)

\* The answer; a 401 leads to the login page.
HandleSearch ==
    /\ view = "shown" /\ search # Nothing
    /\ \/ result' = search /\ searchPage' = search.page /\ UNCHANGED view
       \/ view' \in {"shown", "left"} /\ UNCHANGED <<result, searchPage>>
    /\ search' = Nothing
    /\ UNCHANGED <<roles, term, assigning, since>>

\* "No users found." stands in the table.
EmptyTable == result # Nothing /\ result.page > Pages[result.text]

-----------------------------------------------------------------------------
(* Assigning the system role *)

\* A click on a row of the table, or typing.
SelectRow ==
    /\ view = "shown"
    /\ field' \in Users \ {field}
    /\ UNCHANGED <<roles, view, finding, assign, outcome, since>>

\* Mutant: the banner of the last assignment stays.
AssignUnderBanner(r) ==
    /\ view = "shown" /\ assign = Nothing /\ field # Nothing
    /\ assign' = [user |-> field, role |-> r, reply |-> "none"]
    /\ UNCHANGED <<roles, view, finding, field, outcome, since>>

AssignForm(r) ==
    /\ view = "shown" /\ assign = Nothing /\ field # Nothing
    /\ assign' = [user |-> field, role |-> r, reply |-> "none"]
    /\ outcome' = Nothing
    /\ UNCHANGED <<roles, view, finding, field, since>>

\* The server refuses, or assigns the role; the answer may be lost on its way, and
\* the page cannot tell the two apart, nor either from a fetch that has rejected.
ServeAssign ==
    /\ assign # Nothing /\ assign.reply = "none"
    /\ \/ assign' = [assign EXCEPT !.reply = "refused"] /\ UNCHANGED <<roles, since>>
       \/ /\ roles' = [roles EXCEPT ![assign.user] = assign.role]
          /\ since' = {}
          /\ \E r \in {"ok", "refused"} : assign' = [assign EXCEPT !.reply = r]
    /\ UNCHANGED <<view, finding, field, outcome>>

\* An assignment nobody at this page waits for: one of another tab or root, or one
\* the page has given up, whose UPDATE, not tied to the request, runs only now.
Elsewhere ==
    /\ \E u \in Users, r \in {System, NoRole} :
        /\ roles' = [roles EXCEPT ![u] = r]
        /\ since' = since \cup {u}
    /\ UNCHANGED <<view, finding, assigning>>

\* The field is emptied, whoever stands in it by now.
HandleAssign ==
    /\ view = "shown" /\ assign # Nothing /\ assign.reply # "none"
    /\ \/ /\ assign.reply = "ok"
          /\ outcome' = [user |-> assign.user, role |-> assign.role]
          /\ field' = Nothing
          /\ UNCHANGED view
       \/ /\ assign.reply = "refused"
          /\ view' \in {"shown", "left"}
          /\ UNCHANGED <<field, outcome>>
    /\ assign' = Nothing
    /\ UNCHANGED <<roles, finding, since>>

-----------------------------------------------------------------------------
Next ==
    \/ Type \/ SearchForm \/ Pagination \/ HandleSearch
    \/ SelectRow \/ ServeAssign \/ HandleAssign
    \/ Leave \/ Open \/ Elsewhere
    \/ \E r \in {System, NoRole} : AssignForm(r)

Spec == Init /\ [][Next]_vars

-----------------------------------------------------------------------------
(* Properties *)

\* "Page {page} of {totalPages}" (page.tsx:187) is the page of the table above
\* it, also after a search that failed and while another is in flight.
PageIsOfTable == result # Nothing => searchPage = result.page

\* The banner (page.tsx:249-257) shows the role the server gave the user, and shows
\* none while the page's next assignment may change it, answers being lost or not.
\* It is false only when somebody else, or an assignment the page had given up, has
\* written the role of that user since the page's last was carried out.
BannerIsTrue ==
    outcome # Nothing /\ outcome.user \notin since => roles[outcome.user] = outcome.role

\* "No users found." (messages/en.json:157): nobody matches.
EmptyMeansNobody == EmptyTable => Pages[result.text] = 0
=============================================================================
