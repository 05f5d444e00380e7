------------------------------ MODULE OrgPage ------------------------------
(***************************************************************************)
(* The page of one organisation in the admin web app                       *)
(* (app/[locale]/orgs/[orgUUID]/page.tsx): the lists it keeps in React     *)
(* state, the requests it has in flight, and the rows they are about.      *)
(*                                                                         *)
(* The server carries out a request in one step (modules OrgMembers and    *)
(* Billing open those steps up); the answer arrives in another, in any     *)
(* order, or is lost.  Other people change the organisation meanwhile.     *)
(***************************************************************************)
EXTENDS Plans, FiniteSets

CONSTANTS
    Users,       \* users of the system
    Me,          \* the one in front of the page
    Slots,       \* requests in flight at once (a bound)
    NoRole,      \* not a member, or no system role
    TheOrg,      \* what a request is about when it is about no member
    MaxMoves     \* requests sent and changes made by others in one visit (a bound)

VARIABLES
    members,     \* server: the role of every member
    orgPlan,     \* server: the plan
    sysRole,     \* the system role of Me, in the token and at the server
    view,        \* "loading", "shown", "failed", or "left"
    rows,        \* members: the rows of the list
    shownPlan,   \* org.plan
    myOrgRole,   \* myOrgRole
    changing,    \* changingRole: whose editor is open; TheOrg stands for null
    busy,        \* the buttons that are disabled while they wait
    calls,       \* calls[c]: a request in flight
    moves,       \* requests sent and changes made by others so far
    disturbed,   \* history: what others, lost answers or overlapping requests changed
    checkouts    \* history: checkout URLs received

server == <<members, orgPlan, sysRole>>
page   == <<view, rows, shownPlan, myOrgRole, changing, busy>>
past   == <<moves, disturbed, checkouts>>
vars   == <<server, page, calls, past>>

MaybeRole == OrgRoles \cup {NoRole}
Ops == {"add", "update", "remove", "save", "checkout", "activate", "cancel"}
Replies == {"none", "ok", "refused", "forbidden"}

\* A row of the list.  named: the answer it came from embeds its user.
Row == [user : Users, named : BOOLEAN, role : OrgRoles]

\* A request: what it asks, of whom, the server's answer once there is one, and
\* the plan in that answer.
Request(op, u, r) == [op |-> op, about |-> u, role |-> r, reply |-> "none", plan |-> Free]
Idle == Request("idle", TheOrg, NoRole)
Call == [op : Ops, about : Users \cup {TheOrg}, role : MaybeRole, reply : Replies, plan : PlanNames]

TypeOK ==
    /\ members \in [Users -> MaybeRole] /\ orgPlan \in PlanNames
    /\ sysRole \in {System, NoRole}
    /\ view \in {"loading", "shown", "failed", "left"}
    /\ rows \subseteq Row /\ shownPlan \in PlanNames /\ myOrgRole \in MaybeRole
    /\ changing \in Users \cup {TheOrg} /\ busy \subseteq Ops
    /\ calls \in [Slots -> Call \cup {Idle}]
    /\ disturbed \subseteq Users \cup {TheOrg}

Holders(role) == {u \in Users : members[u] = role}
RoomFor(role) == HasRoom(orgPlan, role, Cardinality(Holders(role)))

Init ==
    /\ members \in [Users -> MaybeRole] /\ orgPlan \in PlanNames
    /\ \A r \in OrgRoles : Holders(r) = {} \/ HasRoom(orgPlan, r, Cardinality(Holders(r)) - 1)
    /\ sysRole \in {System, NoRole}
    /\ view = "loading"
    /\ rows = {} /\ shownPlan = Free /\ myOrgRole = NoRole
    /\ changing = TheOrg /\ busy = {}
    /\ calls = [c \in Slots |-> Idle]
    /\ moves = 0 /\ disturbed = {} /\ checkouts = 0

-----------------------------------------------------------------------------
(* Loading *)

\* The requests of the effect, all answered: the middleware lets members and
\* system users read.  After a 401 or a 403 the page is left; another failure of
\* any of them is all it shows.
Load ==
    /\ view = "loading"
    /\ \/ /\ sysRole = System \/ members[Me] # NoRole
          /\ view' = "shown"
          /\ rows' = {[user |-> u, named |-> TRUE, role |-> members[u]] :
                          u \in {v \in Users : members[v] # NoRole}}
          /\ shownPlan' = orgPlan
          /\ myOrgRole' = members[Me]
       \/ view' \in {"failed", "left"} /\ UNCHANGED <<rows, shownPlan, myOrgRole>>
    /\ UNCHANGED <<server, changing, busy, calls, past>>

-----------------------------------------------------------------------------
(* What the page offers *)

\* Mutant: an owner may make owners.
ASSIGNABLE_Owners == [r \in OrgRoles |-> CASE r = Owner -> OrgRoles
                                           [] r = Admin -> {Operational}
                                           [] OTHER     -> {}]

ASSIGNABLE == [r \in OrgRoles |-> CASE r = Owner -> {Admin, Operational}
                                    [] r = Admin -> {Operational}
                                    [] OTHER     -> {}]

AssignableRoles == IF sysRole = System THEN OrgRoles
                   ELSE IF myOrgRole = NoRole THEN {} ELSE ASSIGNABLE[myOrgRole]

\* The buttons beside a row: the row must embed its user.
Manageable(row) == row.role \in AssignableRoles /\ row.user # Me /\ row.named

CanManageBilling == sysRole = System \/ myOrgRole = Owner

\* A button is inert from the press to the answer.
Press(op) == op \notin busy /\ busy' = busy \cup {op}

Move == moves < MaxMoves /\ moves' = moves + 1

\* A request leaves.  Two at once about one member, or about the organisation,
\* may be carried out and answered in either order.
Send(op, u, r) ==
    /\ view = "shown"
    /\ Move
    /\ \E c \in Slots : calls[c] = Idle /\ calls' = [calls EXCEPT ![c] = Request(op, u, r)]
    /\ disturbed' = disturbed \cup {v \in {u} : \E c \in Slots : calls[c] # Idle /\ calls[c].about = v}
    /\ UNCHANGED <<server, view, rows, shownPlan, myOrgRole, checkouts>>

AddForm ==
    /\ \E r \in AssignableRoles, u \in Users : Send("add", u, r)
    /\ Press("add")
    /\ UNCHANGED changing

NameForm ==
    /\ sysRole = System
    /\ Send("save", TheOrg, NoRole) /\ Press("save")
    /\ UNCHANGED changing

\* Each row's editor opens from its button; opening one closes another.
OpenEditor ==
    /\ view = "shown"
    /\ \E row \in rows : Manageable(row) /\ changing # row.user /\ changing' = row.user
    /\ UNCHANGED <<server, view, rows, shownPlan, myOrgRole, busy, calls, past>>

CloseEditor ==
    /\ view = "shown" /\ changing # TheOrg
    /\ changing' = TheOrg
    /\ UNCHANGED <<server, view, rows, shownPlan, myOrgRole, busy, calls, past>>

\* Nothing keeps the editor's save button from being pressed twice.
Editor ==
    /\ \E row \in rows : row.named /\ row.user = changing
    /\ \E r \in AssignableRoles : Send("update", changing, r)
    /\ UNCHANGED <<changing, busy>>

RemoveButton ==
    /\ \E row \in rows : Manageable(row) /\ changing # row.user /\ Send("remove", row.user, NoRole)
    /\ UNCHANGED <<changing, busy>>

UpgradeButton ==
    /\ shownPlan = Free /\ CanManageBilling
    /\ Send("checkout", TheOrg, NoRole) /\ Press("checkout")
    /\ UNCHANGED changing

EnterpriseButton ==
    /\ shownPlan # Enterprise /\ sysRole = System
    /\ Send("activate", TheOrg, NoRole) /\ Press("activate")
    /\ UNCHANGED changing

CancelButton ==
    /\ shownPlan = Pro /\ CanManageBilling
    /\ Send("cancel", TheOrg, NoRole) /\ Press("cancel")
    /\ UNCHANGED changing

-----------------------------------------------------------------------------
(* The server, as the page sees it *)

Caller == IF sysRole = System THEN System ELSE members[Me]

\* The checks of the middleware and the handlers, which answer 403.
Allowed(call) ==
    CASE call.op \in {"add", "update"}    -> CanAssignOrgRole(Caller, call.role)
      [] call.op = "remove"               -> \/ CanAssignOrgRole(Caller, members[call.about])
                                             \/ Caller # NoRole /\ members[call.about] = NoRole
      [] call.op \in {"save", "activate"} -> Caller = System
      [] OTHER                            -> Caller \in {System, Owner}

\* What an allowed request needs to be carried out.
Possible(call) ==
    CASE call.op = "add"      -> members[call.about] = NoRole /\ RoomFor(call.role)
      [] call.op = "update"   -> /\ members[call.about] # NoRole
                                 /\ members[call.about] = call.role \/ RoomFor(call.role)
      [] call.op = "remove"   -> members[call.about] # NoRole
      [] call.op = "checkout" -> orgPlan = Free
      [] call.op = "cancel"   -> orgPlan = Pro
      [] OTHER                -> TRUE

CarryOut(call) ==
    /\ members' = IF call.about = TheOrg THEN members ELSE [members EXCEPT ![call.about] = call.role]
    /\ orgPlan' = IF call.op = "activate" THEN Enterprise ELSE orgPlan

Reply(c, reply) == calls' = [calls EXCEPT ![c].reply = reply]

\* The organisation is in the answers of UpdateOrg and AssignEnterprisePlan.
ReplyOk(c) == calls' = [calls EXCEPT ![c].reply = "ok",
                                     ![c].plan = IF calls[c].op \in {"save", "activate"} THEN orgPlan' ELSE Free]

\* A request is answered 403, fails, is carried out, or is carried out and its
\* answer lost.
Serve(c) ==
    /\ calls[c] # Idle /\ calls[c].reply = "none"
    /\ \/ ~Allowed(calls[c]) /\ UNCHANGED <<members, orgPlan, past>> /\ Reply(c, "forbidden")
       \/ UNCHANGED <<members, orgPlan, past>> /\ Reply(c, "refused")
       \/ /\ Allowed(calls[c]) /\ Possible(calls[c])
          /\ CarryOut(calls[c])
          /\ \/ ReplyOk(c) /\ UNCHANGED past
             \/ /\ Reply(c, "refused")
                /\ disturbed' = disturbed \cup {calls[c].about}
                /\ UNCHANGED <<moves, checkouts>>
    /\ UNCHANGED <<sysRole, page>>

\* Somebody else changes a role, or Stripe or an operator the plan; or the server only
\* now carries out a request the page, or an earlier visit to it, has given up.
Foreign ==
    /\ view = "shown" /\ Move
    /\ \/ \E u \in Users, r \in MaybeRole :
            /\ members[u] # r
            /\ r # NoRole => RoomFor(r)
            /\ members' = [members EXCEPT ![u] = r]
            /\ disturbed' = disturbed \cup {u}
            /\ UNCHANGED orgPlan
       \/ /\ orgPlan' \in PlanNames \ {orgPlan}
          /\ disturbed' = disturbed \cup {TheOrg}
          /\ UNCHANGED members
    /\ UNCHANGED <<sysRole, page, calls, checkouts>>

-----------------------------------------------------------------------------
(* The rest of the handlers, after their await *)

Answered(c, op) == view = "shown" /\ calls[c].op = op /\ calls[c].reply # "none"
Ok(c)      == calls[c].reply = "ok"
Done(c)    == calls' = [calls EXCEPT ![c] = Idle]
Enable(op) == busy' = busy \ {op}

\* The row appended is the one in the answer, whose user AddMember does not load.
HandleAddMember(c) ==
    /\ Answered(c, "add")
    /\ rows' = rows \cup (IF Ok(c) THEN {[user |-> calls[c].about, named |-> FALSE, role |-> calls[c].role]}
                                   ELSE {})
    /\ Enable("add") /\ Done(c)
    /\ UNCHANGED <<server, view, shownPlan, myOrgRole, changing, past>>

\* Mutant: the map over prev has lost its condition.
WithRoleEverywhere(u, r) == {[row EXCEPT !.role = r] : row \in rows}

\* prev.map: the rows that embed user u take the role.
WithRole(u, r) ==
    {IF row.named /\ row.user = u THEN [row EXCEPT !.role = r] ELSE row : row \in rows}

\* Whichever editor is open by now closes.
HandleUpdateRole(c) ==
    /\ Answered(c, "update")
    /\ \/ Ok(c) /\ rows' = WithRole(calls[c].about, calls[c].role) /\ changing' = TheOrg
       \/ ~Ok(c) /\ UNCHANGED <<rows, changing>>
    /\ Done(c)
    /\ UNCHANGED <<server, view, shownPlan, myOrgRole, busy, past>>

HandleRemove(c) ==
    /\ Answered(c, "remove")
    /\ rows' = {row \in rows : ~(Ok(c) /\ row.named /\ row.user = calls[c].about)}
    /\ Done(c)
    /\ UNCHANGED <<server, view, shownPlan, myOrgRole, changing, busy, past>>

\* setOrg(updated)
Taken(c) == shownPlan' = IF Ok(c) THEN calls[c].plan ELSE shownPlan

HandleSaveName(c) ==
    /\ Answered(c, "save")
    /\ Taken(c) /\ Enable("save") /\ Done(c)
    /\ UNCHANGED <<server, view, rows, myOrgRole, changing, past>>

\* Mutant: the answer is not taken over.
ActivateIgnored(c) ==
    /\ Answered(c, "activate")
    /\ Enable("activate") /\ Done(c)
    /\ UNCHANGED <<server, view, rows, shownPlan, myOrgRole, changing, past>>

HandleActivateEnterprise(c) ==
    /\ Answered(c, "activate")
    /\ Taken(c) /\ Enable("activate") /\ Done(c)
    /\ UNCHANGED <<server, view, rows, myOrgRole, changing, past>>

CheckoutAnswered(c) ==
    /\ Answered(c, "checkout")
    /\ checkouts' = IF Ok(c) THEN checkouts + 1 ELSE checkouts
    /\ Done(c)
    /\ UNCHANGED <<server, view, rows, shownPlan, myOrgRole, changing, moves, disturbed>>

\* Mutant: the button comes back in a finally.
UpgradeFinally(c) == CheckoutAnswered(c) /\ Enable("checkout")

\* The button comes back after an error only: otherwise the browser is leaving.
HandleUpgradeToPro(c) ==
    /\ CheckoutAnswered(c)
    /\ IF Ok(c) THEN UNCHANGED busy ELSE Enable("checkout")

\* The plan shown stays: it is Stripe that ends it.
HandleCancelSubscription(c) ==
    /\ Answered(c, "cancel")
    /\ Enable("cancel") /\ Done(c)
    /\ UNCHANGED <<server, view, rows, shownPlan, myOrgRole, changing, past>>

\* The browser follows the checkout URL, or the user another link: the answers
\* still to come find nobody.
Leave ==
    /\ view = "shown"
    /\ view' = "left"
    /\ rows' = {} /\ shownPlan' = Free /\ myOrgRole' = NoRole /\ changing' = TheOrg /\ busy' = {}
    /\ calls' = [c \in Slots |-> Idle]
    /\ UNCHANGED <<server, past>>

-----------------------------------------------------------------------------
Controls ==
    \/ AddForm \/ NameForm \/ OpenEditor \/ CloseEditor \/ Editor \/ RemoveButton
    \/ UpgradeButton \/ EnterpriseButton \/ CancelButton \/ Leave

Handler(c) ==
    \/ HandleAddMember(c) \/ HandleUpdateRole(c) \/ HandleRemove(c) \/ HandleSaveName(c)
    \/ HandleUpgradeToPro(c) \/ HandleActivateEnterprise(c) \/ HandleCancelSubscription(c)

Next == Load \/ Controls \/ Foreign \/ \E c \in Slots : Serve(c) \/ Handler(c)

Spec == Init /\ [][Next]_vars

-----------------------------------------------------------------------------
(* Properties *)

Shown == view = "shown"
InFlight == {c \in Slots : calls[c] # Idle}

\* Rows are edited in place and never fetched again (page.tsx:126, 139-141, 154):
\* with no request in flight they are the members there are, with their roles, but
\* for those whom others changed, or whose requests overlapped or lost an answer.
RowsAgree ==
    Shown /\ InFlight = {} =>
        \A u \in Users \ disturbed :
            {row.role : row \in {x \in rows : x.user = u}} = {members[u]} \ {NoRole}

\* Only what the server would allow is offered (page.tsx:12-13, 161-162): nobody
\* gets a 403 unless somebody else changed his rank or the member's meanwhile.
OfferedIsAllowed ==
    \A c \in Slots : calls[c].reply = "forbidden" => {Me, calls[c].about} \cap disturbed # {}

\* The plan shown is the plan, or others changed it or requests overlapped.
PlanAgrees == Shown /\ InFlight = {} /\ TheOrg \notin disturbed => shownPlan = orgPlan

\* A button is never left disabled by a request that has ended, whichever way
\* (page.tsx:114, 130, 180, 193, 207), but for checkout's once it has its URL; so
\* one visit to the page opens at most one checkout.
ButtonsComeBack ==
    /\ Shown => \A op \in busy : (\E c \in Slots : calls[c].op = op) \/ (op = "checkout" /\ checkouts = 1)
    /\ checkouts <= 1

\* The repository's test of the add form (page.test.tsx:261-278) finds the new
\* member's name in the list.
NewRowsAreNamed == \A row \in rows : row.named
=============================================================================
