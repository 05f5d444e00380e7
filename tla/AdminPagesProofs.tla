-------------------------- MODULE AdminPagesProofs --------------------------
(***************************************************************************)
(* Proofs about the pages of the admin web app, for any users, requests,   *)
(* texts, secrets and organisations: what module MCAdminPages checks on a  *)
(* small instance.                                                         *)
(*                                                                         *)
(* Each page has an invariant of its own and a section here; at the end    *)
(* the steps of the whole are shown to be steps of one page, and what each *)
(* invariant implies is drawn.  The bounds on what happens in one visit    *)
(* (MaxMoves, the requests in flight) restrict the steps and are used      *)
(* nowhere.                                                                *)
(***************************************************************************)
EXTENDS MCAdminPages, TLAPS

-----------------------------------------------------------------------------
(***************************************************************************)
(* The page of one organisation (OrgPage)                                  *)
(*                                                                         *)
(* The rows are edited by answers that arrive in any order.  What makes them*)
(* true in the end is that an undisturbed member has one request at a time,*)
(* so that between its being carried out and its being answered the answer *)
(* holds the very role the table has.  That the page offers only what is   *)
(* allowed needs the rows in turn: the role of the row it removes is the   *)
(* role the server will look at.                                           *)
(***************************************************************************)

\* A page not on screen has nothing in flight.
Still == ~Org!Shown => (\A c \in Slots : orgCalls[c] = Org!Idle) /\ busy = {}

\* The requests whose button waits for the answer.
Guarded == {"add", "save", "checkout", "activate", "cancel"}

\* A waiting button has its request in flight, and each request its button; so
\* two of a kind are never in flight, and a checkout URL leaves the button down.
ButtonsGuard ==
    /\ busy \subseteq Guarded
    /\ Org!Shown => \A op \in busy : \/ \E c \in Slots : orgCalls[c].op = op
                                     \/ op = "checkout" /\ checkouts = 1
    /\ \A c \in Slots : orgCalls[c].op \in Guarded => orgCalls[c].op \in busy
    /\ \A c, d \in Slots : orgCalls[c].op \in Guarded /\ orgCalls[c].op = orgCalls[d].op => c = d
    /\ checkouts \in {0, 1}
    /\ checkouts = 1 => /\ orgView # "loading"
                        /\ Org!Shown => "checkout" \in busy
                        /\ \A c \in Slots : orgCalls[c].op # "checkout"

\* What each request asks, and that its sender was offered it.
Asking ==
    /\ \A c \in Slots :
        /\ orgCalls[c].op \in {"add", "update"}
               => orgCalls[c].about \in Users /\ orgCalls[c].role \in Org!AssignableRoles
        /\ orgCalls[c].op = "remove" => orgCalls[c].about \in Users /\ orgCalls[c].role = NoRole
        /\ orgCalls[c].op \in {"update", "remove"} => orgCalls[c].about # Me
        /\ orgCalls[c].op \in {"save", "checkout", "activate", "cancel"} => orgCalls[c].about = TheOrg
        /\ orgCalls[c].op \in {"save", "activate"} => sysRole = Org!System
        /\ orgCalls[c].op \in {"checkout", "cancel"} => Org!CanManageBilling
    /\ changing # Me

\* Two requests about the same disturb it.
OneRequestEach ==
    \A c, d \in Slots :
        orgCalls[c] # Org!Idle /\ orgCalls[d] # Org!Idle /\ orgCalls[c].about = orgCalls[d].about
          /\ orgCalls[c].about \notin disturbed => c = d

\* The plan shown is the plan, or an answer that brings it is on its way.
PlanFollows ==
    Org!Shown /\ TheOrg \notin disturbed =>
        /\ (\A c \in Slots : orgCalls[c].op \in {"save", "activate"} => orgCalls[c].reply # "ok")
              => shownPlan = orgPlan
        /\ \A c \in Slots : orgCalls[c].op \in {"save", "activate"} /\ orgCalls[c].reply = "ok"
              => orgCalls[c].plan = orgPlan

\* The row of u is right, or an answer that will put it right is on its way; an
\* answered addition finds no row.
RowFollows ==
    Org!Shown => \A u \in Users \ disturbed :
        /\ \A x, y \in rows : x.user = u /\ y.user = u => x = y
        /\ (\A c \in Slots : orgCalls[c].about = u => orgCalls[c].reply # "ok")
              => /\ \A x \in rows : x.user = u => x.role = members[u]
                 /\ members[u] # NoRole => \E x \in rows : x.user = u
        /\ \A c \in Slots : orgCalls[c].about = u /\ orgCalls[c].reply = "ok"
              => /\ members[u] = orgCalls[c].role
                 /\ orgCalls[c].op = "add" => \A x \in rows : x.user # u

\* A change or a removal finds the row it was sent from, named; unanswered, a
\* removal still finds a role the user may take away.
RowTouched ==
    \A c \in Slots : orgCalls[c].op \in {"update", "remove"} /\ orgCalls[c].about \notin disturbed =>
        \E x \in rows : /\ x.user = orgCalls[c].about /\ x.named
                        /\ orgCalls[c].op = "remove" /\ orgCalls[c].reply = "none"
                               => x.role \in Org!AssignableRoles

\* The rank the page has for its user is his rank, unless others have changed it.
MyRank == Org!Shown /\ sysRole # Org!System /\ Me \notin disturbed
    => members[Me] = myOrgRole /\ myOrgRole # NoRole

OrgInv ==
    /\ Org!TypeOK /\ Still /\ ButtonsGuard /\ Asking /\ OneRequestEach
    /\ PlanFollows /\ RowFollows /\ RowTouched /\ MyRank /\ Org!OfferedIsAllowed

-----------------------------------------------------------------------------
(* Calls *)

LEMMA CallFields ==
    ASSUME Org!TypeOK, NEW c \in Slots
    PROVE  /\ orgCalls[c] = [op |-> orgCalls[c].op, about |-> orgCalls[c].about, role |-> orgCalls[c].role,
                          reply |-> orgCalls[c].reply, plan |-> orgCalls[c].plan]
           /\ orgCalls[c].op \in Org!Ops \cup {"idle"} /\ orgCalls[c].about \in Users \cup {TheOrg}
           /\ orgCalls[c].role \in Org!MaybeRole /\ orgCalls[c].reply \in Org!Replies
           /\ orgCalls[c].plan \in Org!PlanNames
           /\ orgCalls[c] # Org!Idle => orgCalls[c] \in Org!Call /\ orgCalls[c].op \in Org!Ops
           /\ orgCalls[c].op \in Org!Ops => orgCalls[c] # Org!Idle
  <1>1. orgCalls[c] \in Org!Call \cup {Org!Idle}  BY DEF Org!TypeOK
  <1>2. CASE orgCalls[c] \in Org!Call
    <2>1. "idle" \notin Org!Ops  BY DEF Org!Ops
    <2> QED  BY <1>2, <2>1 DEF Org!Call, Org!Idle, Org!Request
  <1>3. CASE orgCalls[c] = Org!Idle
    BY <1>3 DEF Org!Idle, Org!Request, Org!MaybeRole, Org!Replies, Org!Ops, Org!PlanNames, Org!Free
  <1> QED  BY <1>1, <1>2, <1>3

LEMMA IdleFields ==
    /\ Org!Idle.op = "idle" /\ Org!Idle.about = TheOrg /\ Org!Idle.role = NoRole /\ Org!Idle.reply = "none"
    /\ "idle" \notin Org!Ops /\ Guarded \subseteq Org!Ops
  BY DEF Org!Idle, Org!Request, Org!Ops, Guarded

LEMMA OrgInit == Org!Init => OrgInv
  <1> SUFFICES ASSUME Org!Init PROVE OrgInv  OBVIOUS
  <1>1. \A c \in Slots : orgCalls[c] = Org!Idle  BY DEF Org!Init
  <1>2. Org!TypeOK  BY DEF Org!Init, Org!TypeOK, Org!PlanNames, Org!Free, Org!MaybeRole
  <1>3. Still /\ ButtonsGuard
    BY <1>1, IdleFields DEF Org!Init, Still, ButtonsGuard, Org!Shown, Guarded
  <1>4. Asking /\ RowTouched /\ OneRequestEach
    BY <1>1, IdleFields, PageConstants DEF Org!Init, Asking, RowTouched, OneRequestEach
  <1>5. PlanFollows /\ RowFollows /\ MyRank /\ Org!OfferedIsAllowed
    BY <1>1, IdleFields DEF Org!Init, PlanFollows, RowFollows, MyRank, Org!Shown,
       Org!OfferedIsAllowed
  <1> QED  BY <1>2, <1>3, <1>4, <1>5 DEF OrgInv

-----------------------------------------------------------------------------
(* Loading, and the editor *)

LEMMA OrgLoadKeeps == ASSUME OrgInv, Org!Load PROVE OrgInv'
  <1>0. /\ orgView = "loading" /\ ~Org!Shown /\ orgView' \in {"shown", "failed", "left"}
        /\ UNCHANGED <<members, orgPlan, sysRole, changing, busy, orgCalls, moves, disturbed, checkouts>>
    BY DEF Org!Load, Org!Shown, Org!server, Org!past
  <1>1. (\A c \in Slots : orgCalls[c] = Org!Idle) /\ busy = {}
    BY <1>0 DEF OrgInv, Still
  <1>2. rows' \subseteq Org!Row /\ shownPlan' \in Org!PlanNames /\ myOrgRole' \in Org!MaybeRole
    <2>1. CASE UNCHANGED <<rows, shownPlan, myOrgRole>>
      BY <2>1 DEF OrgInv, Org!TypeOK
    <2>2. CASE /\ rows' = {[user |-> u, named |-> TRUE, role |-> members[u]] :
                              u \in {v \in Users : members[v] # NoRole}}
               /\ shownPlan' = orgPlan /\ myOrgRole' = members[Me]
      <3>1. \A u \in Users : members[u] \in Org!MaybeRole  BY DEF OrgInv, Org!TypeOK
      <3>2. ASSUME NEW x \in rows' PROVE x \in Org!Row
        <4>1. PICK u \in Users : /\ members[u] # NoRole
                                 /\ x = [user |-> u, named |-> TRUE, role |-> members[u]]
          BY <2>2, <3>2
        <4>2. members[u] \in Org!OrgRoles  BY <3>1, <4>1 DEF Org!MaybeRole
        <4> QED  BY <4>1, <4>2 DEF Org!Row
      <3> QED  BY <2>2, <3>1, <3>2, PageConstants DEF OrgInv, Org!TypeOK
    <2> QED  BY <2>1, <2>2 DEF Org!Load
  <1>3. Org!TypeOK'  BY <1>0, <1>2 DEF OrgInv, Org!TypeOK
  <1>4. Still'  BY <1>0, <1>1 DEF Still
  <1>5. ButtonsGuard'
    BY <1>0, <1>1, IdleFields DEF OrgInv, ButtonsGuard
  <1>6. Asking' /\ RowTouched' /\ Org!OfferedIsAllowed' /\ OneRequestEach'
    BY <1>0, <1>1, IdleFields DEF OrgInv, Asking, RowTouched, Org!OfferedIsAllowed, OneRequestEach
  <1>7. Org!Shown' => /\ rows' = {[user |-> u, named |-> TRUE, role |-> members[u]] :
                                     u \in {v \in Users : members[v] # NoRole}}
                      /\ shownPlan' = orgPlan /\ myOrgRole' = members[Me]
                      /\ sysRole = Org!System \/ members[Me] # NoRole
    BY <1>0 DEF Org!Load, Org!Shown
  <1>8. PlanFollows' /\ MyRank'
    BY <1>0, <1>1, <1>7, IdleFields DEF PlanFollows, MyRank
  <1>9. ASSUME Org!Shown' PROVE RowFollows'
    <2>1. \A x \in rows' : \E u \in Users : x = [user |-> u, named |-> TRUE, role |-> members[u]]
      BY <1>7, <1>9
    <2>2. \A x \in rows' : x = [user |-> x.user, named |-> TRUE, role |-> members[x.user]]
      BY <2>1
    <2>3. \A u \in Users : members[u] # NoRole => \E x \in rows' : x.user = u
      <3> SUFFICES ASSUME NEW u \in Users, members[u] # NoRole
                   PROVE  \E x \in rows' : x.user = u
        OBVIOUS
      <3>1. [user |-> u, named |-> TRUE, role |-> members[u]] \in rows'
        BY <1>7, <1>9
      <3> QED  BY <3>1
    <2>4. \A x, y \in rows' : x.user = y.user => x = y
      <3> SUFFICES ASSUME NEW x \in rows', NEW y \in rows', x.user = y.user PROVE x = y
        OBVIOUS
      <3>1. /\ x = [user |-> x.user, named |-> TRUE, role |-> members[x.user]]
            /\ y = [user |-> x.user, named |-> TRUE, role |-> members[x.user]]
        BY <2>2
      <3> QED  BY <3>1
    <2>5. \A x \in rows' : x.role = members[x.user]
      <3> SUFFICES ASSUME NEW x \in rows' PROVE x.role = members[x.user]
        OBVIOUS
      <3>1. x = [user |-> x.user, named |-> TRUE, role |-> members[x.user]]
        BY <2>2
      <3>2. [user |-> x.user, named |-> TRUE, role |-> members[x.user]].role = members[x.user]
        OBVIOUS
      <3> QED  BY <3>1, <3>2
    <2>6. UNCHANGED <<members, orgCalls, disturbed>>  BY <1>0
    <2>7. \A c \in Slots : orgCalls[c].reply # "ok"  BY <1>1, IdleFields
    <2> QED  BY <2>3, <2>4, <2>5, <2>6, <2>7 DEF RowFollows
  <1> QED  BY <1>3, <1>4, <1>5, <1>6, <1>8, <1>9 DEF OrgInv, RowFollows

LEMMA EditorKeeps == ASSUME OrgInv, Org!OpenEditor \/ Org!CloseEditor PROVE OrgInv'
  <1>1. /\ UNCHANGED <<members, orgPlan, sysRole, orgView, rows, shownPlan, myOrgRole, busy, orgCalls,
                       moves, disturbed, checkouts>>
        /\ changing' \in Users \cup {TheOrg} /\ changing' # Me
    BY PageConstants DEF Org!OpenEditor, Org!CloseEditor, Org!server, Org!past, Org!Manageable,
       OrgInv, Org!TypeOK, Org!Row
  <1>2. Org!TypeOK' /\ Still' /\ ButtonsGuard'
    BY <1>1 DEF OrgInv, Org!TypeOK, Still, ButtonsGuard, Org!Shown
  <1>3. Asking'  BY <1>1 DEF OrgInv, Asking, Org!AssignableRoles, Org!CanManageBilling
  <1>4. OneRequestEach' /\ PlanFollows' /\ RowFollows'
    BY <1>1 DEF OrgInv, OneRequestEach, PlanFollows, RowFollows, Org!Shown
  <1>5. RowTouched' /\ MyRank' /\ Org!OfferedIsAllowed'
    BY <1>1 DEF OrgInv, RowTouched, MyRank, Org!OfferedIsAllowed, Org!AssignableRoles, Org!Shown
  <1> QED  BY <1>2, <1>3, <1>4, <1>5 DEF OrgInv

-----------------------------------------------------------------------------
(* Sending *)

\* What a control must have seen to it before its request leaves.
Sound(op, u, r) ==
    /\ op \in {"add", "update"} => u \in Users /\ r \in Org!AssignableRoles
    /\ op = "remove" => u \in Users /\ r = NoRole
    /\ op \in {"update", "remove"} =>
          /\ u # Me
          /\ \E x \in rows : x.user = u /\ x.named /\ (op = "remove" => x.role \in Org!AssignableRoles)
    /\ op \in {"save", "checkout", "activate", "cancel"} => u = TheOrg
    /\ op \in {"save", "activate"} => sysRole = Org!System
    /\ op \in {"checkout", "cancel"} => Org!CanManageBilling

LEMMA OrgSendKeeps ==
    ASSUME OrgInv, NEW op \in Org!Ops, NEW u \in Users \cup {TheOrg}, NEW r \in Org!MaybeRole,
           Org!Send(op, u, r), Sound(op, u, r), UNCHANGED changing,
           IF op \in Guarded THEN op \notin busy /\ busy' = busy \cup {op} ELSE UNCHANGED busy
    PROVE  OrgInv'
  <1>1. PICK c \in Slots : orgCalls[c] = Org!Idle
                               /\ orgCalls' = [orgCalls EXCEPT ![c] = Org!Request(op, u, r)]
    BY DEF Org!Send
  <1>2. /\ UNCHANGED <<members, orgPlan, sysRole, orgView, rows, shownPlan, myOrgRole, changing, checkouts>>
        /\ Org!Shown /\ disturbed \subseteq disturbed' /\ disturbed' \subseteq Users \cup {TheOrg}
    BY DEF Org!Send, Org!server, Org!Shown, OrgInv, Org!TypeOK
  <1>3. /\ orgCalls'[c].op = op /\ orgCalls'[c].about = u /\ orgCalls'[c].role = r
        /\ orgCalls'[c].reply = "none"
        /\ \A d \in Slots \ {c} : orgCalls'[d] = orgCalls[d]
    BY <1>1 DEF OrgInv, Org!TypeOK, Org!Request
  <1>4. /\ orgCalls[c].op = "idle" /\ orgCalls[c].reply = "none" /\ orgCalls'[c] # Org!Idle
        /\ "idle" \notin Org!Ops
    BY <1>1, <1>3, IdleFields
  <1>5. \A d \in Slots : orgCalls'[d].reply # "none" => d # c  BY <1>3
  <1>6. u \notin disturbed' => \A d \in Slots \ {c} : orgCalls[d] # Org!Idle => orgCalls[d].about # u
    BY DEF Org!Send
  <1>7. Org!TypeOK'
    <2>1. Org!Request(op, u, r) \in Org!Call
      BY DEF Org!Request, Org!Call, Org!Replies, Org!PlanNames, Org!Free
    <2>2. orgCalls' \in [Slots -> Org!Call \cup {Org!Idle}]  BY <1>1, <2>1 DEF OrgInv, Org!TypeOK
    <2>3. busy' \subseteq Org!Ops  BY DEF OrgInv, Org!TypeOK
    <2> QED  BY <1>2, <2>2, <2>3 DEF OrgInv, Org!TypeOK
  <1>8. Still'  BY <1>2 DEF Still, Org!Shown
  <1>9. ButtonsGuard'
    <2>1. busy \subseteq busy' /\ (op \in Guarded => op \in busy') /\ busy' \subseteq busy \cup {op}
      OBVIOUS
    <2>2. op \in Guarded => \A d \in Slots : orgCalls[d].op # op
      BY DEF OrgInv, ButtonsGuard
    <2>3. op = "checkout" => checkouts # 1
      BY <1>2 DEF OrgInv, ButtonsGuard, Guarded
    <2>4. \A o \in busy' : (\E d \in Slots : orgCalls'[d].op = o) \/ (o = "checkout" /\ checkouts = 1)
      BY <1>2, <1>3, <1>4, <2>1 DEF OrgInv, Org!TypeOK, ButtonsGuard
    <2>5. \A d \in Slots : orgCalls'[d].op \in Guarded => orgCalls'[d].op \in busy'
      BY <1>3, <2>1 DEF OrgInv, ButtonsGuard
    <2>6. \A d, e \in Slots : orgCalls'[d].op \in Guarded /\ orgCalls'[d].op = orgCalls'[e].op => d = e
      BY <1>3, <2>2 DEF OrgInv, ButtonsGuard
    <2>7. checkouts = 1 => /\ orgView # "loading" /\ "checkout" \in busy'
                           /\ \A d \in Slots : orgCalls'[d].op # "checkout"
      BY <1>2, <1>3, <2>1, <2>3 DEF OrgInv, ButtonsGuard, Org!Shown
    <2> QED  BY <1>2, <2>4, <2>5, <2>6, <2>7 DEF OrgInv, ButtonsGuard, Org!Shown
  <1>10. Asking'
    BY <1>2, <1>3 DEF OrgInv, Asking, Sound, Org!AssignableRoles, Org!CanManageBilling
  <1>11. OneRequestEach'
    BY <1>2, <1>3, <1>6 DEF OrgInv, OneRequestEach
  <1>12. PlanFollows'
    BY <1>2, <1>3, <1>4, <1>5 DEF OrgInv, PlanFollows, Org!Shown, Org!Ops
  <1>13. \A d \in Slots : orgCalls'[d].reply = "ok" <=> orgCalls[d].reply = "ok"
    BY <1>3, <1>4
  <1>14. \A d \in Slots : orgCalls'[d].reply = "ok" => orgCalls'[d] = orgCalls[d]
    BY <1>3, <1>5
  <1>15. RowFollows'
    BY <1>2, <1>13, <1>14 DEF OrgInv, RowFollows, Org!Shown
  <1>16. RowTouched'
    BY <1>2, <1>3 DEF OrgInv, RowTouched, Sound, Org!AssignableRoles
  <1>17. MyRank'  BY <1>2 DEF OrgInv, MyRank, Org!Shown
  <1>18. Org!OfferedIsAllowed'  BY <1>2, <1>3, <1>5 DEF OrgInv, Org!OfferedIsAllowed
  <1> QED
    BY <1>7, <1>8, <1>9, <1>10, <1>11, <1>12, <1>15, <1>16, <1>17, <1>18 DEF OrgInv

LEMMA ControlsKeep ==
    ASSUME OrgInv, Org!AddForm \/ Org!NameForm \/ Org!Editor \/ Org!RemoveButton \/ Org!UpgradeButton
                 \/ Org!EnterpriseButton \/ Org!CancelButton
    PROVE  OrgInv'
  <1>0. Org!AssignableRoles \subseteq Org!OrgRoles
    BY DEF Org!AssignableRoles, Org!ASSIGNABLE, OrgInv, Org!TypeOK, Org!MaybeRole, Org!OrgRoles
  <1>1. CASE Org!AddForm
    <2>1. PICK r \in Org!AssignableRoles, u \in Users : Org!Send("add", u, r)
      BY <1>1 DEF Org!AddForm
    <2>2. Sound("add", u, r) /\ "add" \in Org!Ops /\ "add" \in Guarded /\ r \in Org!MaybeRole
      BY <1>0 DEF Sound, Org!Ops, Guarded, Org!MaybeRole
    <2>3. "add" \notin busy /\ busy' = busy \cup {"add"} /\ UNCHANGED changing
      BY <1>1 DEF Org!AddForm, Org!Press
    <2> QED  BY <2>1, <2>2, <2>3, OrgSendKeeps
  <1>2. CASE Org!Editor
    <2>1. PICK r \in Org!AssignableRoles : Org!Send("update", changing, r)  BY <1>2 DEF Org!Editor
    <2>2. PICK x \in rows : x.named /\ x.user = changing  BY <1>2 DEF Org!Editor
    <2>3. changing \in Users /\ changing # Me  BY <2>2 DEF OrgInv, Org!TypeOK, Org!Row, Asking
    <2>4. Sound("update", changing, r) /\ "update" \in Org!Ops /\ "update" \notin Guarded /\ r \in Org!MaybeRole
      BY <1>0, <2>2, <2>3 DEF Sound, Org!Ops, Guarded, Org!MaybeRole
    <2>5. UNCHANGED <<changing, busy>>  BY <1>2 DEF Org!Editor
    <2> QED  BY <2>1, <2>3, <2>4, <2>5, OrgSendKeeps
  <1>3. CASE Org!RemoveButton
    <2>1. PICK x \in rows : Org!Manageable(x) /\ Org!Send("remove", x.user, NoRole)
      BY <1>3 DEF Org!RemoveButton
    <2>2. x.user \in Users  BY DEF OrgInv, Org!TypeOK, Org!Row
    <2>3. /\ Sound("remove", x.user, NoRole) /\ "remove" \in Org!Ops /\ "remove" \notin Guarded
          /\ NoRole \in Org!MaybeRole
      BY <2>1, <2>2 DEF Sound, Org!Ops, Guarded, Org!MaybeRole, Org!Manageable
    <2>4. UNCHANGED <<changing, busy>>  BY <1>3 DEF Org!RemoveButton
    <2> QED  BY <2>1, <2>2, <2>3, <2>4, OrgSendKeeps
  <1>4. ASSUME NEW op \in {"save", "activate", "checkout", "cancel"},
               Org!Send(op, TheOrg, NoRole), Org!Press(op), UNCHANGED changing,
               op \in {"save", "activate"} => sysRole = Org!System,
               op \in {"checkout", "cancel"} => Org!CanManageBilling
        PROVE  OrgInv'
    <2>1. Sound(op, TheOrg, NoRole) /\ op \in Org!Ops /\ op \in Guarded /\ NoRole \in Org!MaybeRole
      BY <1>4 DEF Sound, Org!Ops, Guarded, Org!MaybeRole
    <2>2. op \notin busy /\ busy' = busy \cup {op}  BY <1>4 DEF Org!Press
    <2> QED  BY <1>4, <2>1, <2>2, OrgSendKeeps
  <1> QED
    BY <1>1, <1>2, <1>3, <1>4 DEF Org!NameForm, Org!UpgradeButton, Org!EnterpriseButton,
       Org!CancelButton

-----------------------------------------------------------------------------
(* The server *)

\* Of two requests about the same one is idle, but for what is disturbed.
LEMMA OrgAlone ==
    ASSUME OrgInv, NEW c \in Slots, orgCalls[c] # Org!Idle, orgCalls[c].about \notin disturbed
    PROVE  \A d \in Slots \ {c} : orgCalls[d].about = orgCalls[c].about => orgCalls[d] = Org!Idle
  BY DEF OrgInv, OneRequestEach

\* Nobody answers 403 to what the page offers.
LEMMA AllowedUnlessDisturbed ==
    ASSUME OrgInv, NEW c \in Slots, orgCalls[c] # Org!Idle, orgCalls[c].reply = "none",
           Me \notin disturbed, orgCalls[c].about \notin disturbed
    PROVE  Org!Allowed(orgCalls[c])
  <1>1. orgCalls[c].op \in Org!Ops /\ Org!Shown
    BY CallFields DEF OrgInv, Still
  <1>2. CASE sysRole = Org!System
    BY <1>1, <1>2 DEF Org!Allowed, Org!Caller, Org!CanAssignOrgRole
  <1>3. CASE sysRole # Org!System
    <2>1. Org!Caller = myOrgRole /\ myOrgRole \in Org!OrgRoles
                /\ Org!AssignableRoles = Org!ASSIGNABLE[myOrgRole]
      BY <1>1, <1>3 DEF OrgInv, Org!TypeOK, Org!MaybeRole, MyRank, Org!Caller, Org!AssignableRoles
    <2>2. \A r \in Org!AssignableRoles : Org!CanAssignOrgRole(Org!Caller, r)
      BY <2>1 DEF Org!ASSIGNABLE, Org!CanAssignOrgRole, Org!OrgRoles, Org!Owner, Org!Admin,
         Org!Operational
    <2>3. CASE orgCalls[c].op \in {"add", "update"}
      BY <2>2, <2>3 DEF OrgInv, Asking, Org!Allowed
    <2>4. CASE orgCalls[c].op = "remove"
      <3>1. PICK x \in rows : x.user = orgCalls[c].about /\ x.role \in Org!AssignableRoles
        BY <2>4 DEF OrgInv, RowTouched
      <3>2. orgCalls[c].about \in Users \ disturbed
        BY <2>4 DEF OrgInv, Asking
      <3>3. \A d \in Slots : orgCalls[d].about = orgCalls[c].about => orgCalls[d].reply # "ok"
        BY OrgAlone, IdleFields
      <3>4. x.role = members[orgCalls[c].about]
        BY <1>1, <3>1, <3>2, <3>3 DEF OrgInv, RowFollows
      <3> QED  BY <2>2, <2>4, <3>1, <3>4 DEF Org!Allowed
    <2>5. CASE orgCalls[c].op \in {"save", "activate"}
      BY <1>3, <2>5 DEF OrgInv, Asking
    <2>6. CASE orgCalls[c].op \in {"checkout", "cancel"}
      BY <1>3, <2>1, <2>6 DEF OrgInv, Asking, Org!CanManageBilling, Org!Allowed
    <2> QED  BY <1>1, <2>3, <2>4, <2>5, <2>6 DEF Org!Ops
  <1> QED  BY <1>2, <1>3

\* What an answer to c leaves as it was, whatever it says.
LEMMA OrgAnswerKeeps ==
    ASSUME OrgInv, NEW c \in Slots, orgCalls[c] # Org!Idle, orgCalls[c].reply = "none",
           NEW reply \in Org!Replies \ {"none"}, NEW p \in Org!PlanNames,
           orgCalls' = [orgCalls EXCEPT ![c] = [op |-> orgCalls[c].op, about |-> orgCalls[c].about,
                         role |-> orgCalls[c].role, reply |-> reply, plan |-> p]],
           reply = "forbidden" => {Me, orgCalls[c].about} \cap disturbed # {},
           disturbed \subseteq disturbed',
           UNCHANGED <<sysRole, orgView, rows, shownPlan, myOrgRole, changing, busy, checkouts>>
    PROVE  /\ orgCalls' \in [Slots -> Org!Call \cup {Org!Idle}]
           /\ orgCalls'[c].reply = reply /\ orgCalls'[c].plan = p
           /\ \A d \in Slots : /\ orgCalls'[d].op = orgCalls[d].op /\ orgCalls'[d].about = orgCalls[d].about
                               /\ orgCalls'[d].role = orgCalls[d].role
           /\ \A d \in Slots \ {c} : orgCalls'[d] = orgCalls[d]
           /\ Org!Shown
           /\ Still' /\ ButtonsGuard' /\ Asking' /\ OneRequestEach' /\ RowTouched'
           /\ Org!OfferedIsAllowed'
  <1>1. /\ orgCalls[c].op \in Org!Ops /\ orgCalls[c].about \in Users \cup {TheOrg}
        /\ orgCalls[c].role \in Org!MaybeRole
    BY CallFields DEF OrgInv
  <1>2. /\ orgCalls' \in [Slots -> Org!Call \cup {Org!Idle}]
        /\ orgCalls'[c].reply = reply /\ orgCalls'[c].plan = p
        /\ orgCalls'[c].op = orgCalls[c].op /\ orgCalls'[c].about = orgCalls[c].about
        /\ orgCalls'[c].role = orgCalls[c].role
        /\ \A d \in Slots \ {c} : orgCalls'[d] = orgCalls[d]
    BY <1>1 DEF OrgInv, Org!TypeOK, Org!Call
  <1>3. \A d \in Slots : /\ orgCalls'[d].op = orgCalls[d].op /\ orgCalls'[d].about = orgCalls[d].about
                         /\ orgCalls'[d].role = orgCalls[d].role
    BY <1>2
  <1>4. Org!Shown  BY DEF OrgInv, Still
  <1>5. Still'  BY <1>4 DEF Still, Org!Shown
  <1>6. ButtonsGuard'  BY <1>3 DEF OrgInv, ButtonsGuard, Org!Shown
  <1>7. Asking'  BY <1>3 DEF OrgInv, Asking, Org!AssignableRoles, Org!CanManageBilling
  <1>8. OneRequestEach'
    BY <1>2, <1>3, IdleFields DEF OrgInv, OneRequestEach
  <1>9. RowTouched'
    <2>1. \A d \in Slots : orgCalls'[d].reply = "none" => orgCalls[d].reply = "none"
      BY <1>2
    <2>2. \A d \in Slots : orgCalls[d].about \notin disturbed' => orgCalls[d].about \notin disturbed
      OBVIOUS
    <2> QED  BY <1>3, <2>1, <2>2 DEF OrgInv, RowTouched, Org!AssignableRoles
  <1>10. Org!OfferedIsAllowed'  BY <1>2, <1>3 DEF OrgInv, Org!OfferedIsAllowed
  <1> QED  BY <1>2, <1>3, <1>4, <1>5, <1>6, <1>7, <1>8, <1>9, <1>10

\* A request that changes nothing at the server.
LEMMA OrgRefusedKeeps ==
    ASSUME OrgInv, NEW c \in Slots, orgCalls[c] # Org!Idle, orgCalls[c].reply = "none",
           NEW reply \in {"refused", "forbidden"},
           orgCalls' = [orgCalls EXCEPT ![c].reply = reply],
           reply = "forbidden" => ~Org!Allowed(orgCalls[c]),
           UNCHANGED <<members, orgPlan, sysRole, orgView, rows, shownPlan, myOrgRole, changing,
                       busy, disturbed, checkouts>>
    PROVE  OrgInv'
  <1>1. [orgCalls[c] EXCEPT !.reply = reply]
          = [op |-> orgCalls[c].op, about |-> orgCalls[c].about, role |-> orgCalls[c].role,
             reply |-> reply, plan |-> orgCalls[c].plan]
    <2>1. orgCalls[c] = [op |-> orgCalls[c].op, about |-> orgCalls[c].about, role |-> orgCalls[c].role,
                      reply |-> orgCalls[c].reply, plan |-> orgCalls[c].plan]
      BY CallFields DEF OrgInv
    <2> QED  BY <2>1
  <1>2. orgCalls' = [orgCalls EXCEPT ![c] = [op |-> orgCalls[c].op, about |-> orgCalls[c].about,
                      role |-> orgCalls[c].role, reply |-> reply, plan |-> orgCalls[c].plan]]
    BY <1>1
  <1>3. reply = "forbidden" => {Me, orgCalls[c].about} \cap disturbed # {}
    BY AllowedUnlessDisturbed
  <1>4. orgCalls[c].plan \in Org!PlanNames /\ reply \in Org!Replies \ {"none"}
    BY CallFields DEF OrgInv, Org!Replies
  <1>5. /\ orgCalls' \in [Slots -> Org!Call \cup {Org!Idle}] /\ orgCalls'[c].reply = reply
        /\ \A d \in Slots : orgCalls'[d].op = orgCalls[d].op /\ orgCalls'[d].about = orgCalls[d].about
        /\ \A d \in Slots \ {c} : orgCalls'[d] = orgCalls[d]
        /\ Still' /\ ButtonsGuard' /\ Asking' /\ OneRequestEach' /\ RowTouched'
        /\ Org!OfferedIsAllowed'
    <2>1. PICK p \in Org!PlanNames : p = orgCalls[c].plan  BY <1>4
    <2>2. orgCalls' = [orgCalls EXCEPT ![c] = [op |-> orgCalls[c].op, about |-> orgCalls[c].about,
                        role |-> orgCalls[c].role, reply |-> reply, plan |-> p]]
      BY <1>2, <2>1
    <2>3. /\ disturbed \subseteq disturbed'
          /\ UNCHANGED <<sysRole, orgView, rows, shownPlan, myOrgRole, changing, busy, checkouts>>
      OBVIOUS
    <2>4. PICK answer \in Org!Replies \ {"none"} : answer = reply  BY <1>4
    <2>5. answer = "forbidden" => {Me, orgCalls[c].about} \cap disturbed # {}
      BY <1>3, <2>4
    <2>6. orgCalls' = [orgCalls EXCEPT ![c] = [op |-> orgCalls[c].op, about |-> orgCalls[c].about,
                        role |-> orgCalls[c].role, reply |-> answer, plan |-> p]]
      BY <2>2, <2>4
    <2>7. /\ orgCalls' \in [Slots -> Org!Call \cup {Org!Idle}] 
          /\ orgCalls'[c].reply = answer /\ orgCalls'[c].plan = p
          /\ \A d \in Slots : /\ orgCalls'[d].op = orgCalls[d].op /\ orgCalls'[d].about = orgCalls[d].about
                              /\ orgCalls'[d].role = orgCalls[d].role
          /\ \A d \in Slots \ {c} : orgCalls'[d] = orgCalls[d]
          /\ Org!Shown
          /\ Still' /\ ButtonsGuard' /\ Asking' /\ OneRequestEach' /\ RowTouched'
          /\ Org!OfferedIsAllowed'
      BY <2>3, <2>5, <2>6, OrgAnswerKeeps
    <2> QED  BY <2>4, <2>7
  <1>6. Org!TypeOK'  BY <1>5 DEF OrgInv, Org!TypeOK
  <1>7. \A d \in Slots : orgCalls'[d].reply = "ok" <=> orgCalls[d].reply = "ok"
    BY <1>5
  <1>8. \A d \in Slots : orgCalls'[d].reply = "ok" => orgCalls'[d] = orgCalls[d]
    BY <1>5
  <1>9. PlanFollows'  BY <1>5, <1>7, <1>8 DEF OrgInv, PlanFollows, Org!Shown
  <1>10. RowFollows'  BY <1>5, <1>7, <1>8 DEF OrgInv, RowFollows, Org!Shown
  <1>11. MyRank'  BY DEF OrgInv, MyRank, Org!Shown
  <1> QED  BY <1>5, <1>6, <1>9, <1>10, <1>11 DEF OrgInv

\* A request carried out, its answer on the way or lost.
LEMMA OrgCarriedOutKeeps ==
    ASSUME OrgInv, NEW c \in Slots, orgCalls[c] # Org!Idle, orgCalls[c].reply = "none",
           Org!Possible(orgCalls[c]), Org!CarryOut(orgCalls[c]),
           NEW reply \in {"ok", "refused"}, NEW p \in Org!PlanNames,
           orgCalls' = [orgCalls EXCEPT ![c] = [op |-> orgCalls[c].op, about |-> orgCalls[c].about,
                         role |-> orgCalls[c].role, reply |-> reply, plan |-> p]],
           reply = "ok" /\ orgCalls[c].op \in {"save", "activate"} => p = orgPlan',
           disturbed' = disturbed \cup (IF reply = "refused" THEN {orgCalls[c].about} ELSE {}),
           UNCHANGED <<sysRole, orgView, rows, shownPlan, myOrgRole, changing, busy, checkouts>>
    PROVE  OrgInv'
  <1> DEFINE a == orgCalls[c].about
  <1>1. /\ orgCalls[c].op \in Org!Ops /\ a \in Users \cup {TheOrg} /\ orgCalls[c].role \in Org!MaybeRole
        /\ reply \in Org!Replies \ {"none"}
    BY CallFields DEF OrgInv, Org!Replies
  <1>2. /\ orgCalls' \in [Slots -> Org!Call \cup {Org!Idle}]
        /\ orgCalls'[c].reply = reply /\ orgCalls'[c].plan = p
        /\ \A d \in Slots : /\ orgCalls'[d].op = orgCalls[d].op /\ orgCalls'[d].about = orgCalls[d].about
                            /\ orgCalls'[d].role = orgCalls[d].role
        /\ \A d \in Slots \ {c} : orgCalls'[d] = orgCalls[d]
        /\ Org!Shown
        /\ Still' /\ ButtonsGuard' /\ Asking' /\ OneRequestEach' /\ RowTouched'
        /\ Org!OfferedIsAllowed'
    BY <1>1, OrgAnswerKeeps
  <1>3. /\ members' \in [Users -> Org!MaybeRole] /\ orgPlan' \in Org!PlanNames
        /\ \A u \in Users : u # a => members'[u] = members[u]
        /\ a \in Users => members'[a] = orgCalls[c].role
        /\ orgCalls[c].op \notin {"save", "activate"} => orgPlan' = orgPlan
        /\ orgCalls[c].op = "save" => orgPlan' = orgPlan
    BY <1>1, PageConstants DEF Org!CarryOut, OrgInv, Org!TypeOK, Org!PlanNames
  <1>4. Org!TypeOK'
    <2>1. disturbed' \subseteq Users \cup {TheOrg}  BY <1>1 DEF OrgInv, Org!TypeOK
    <2> QED  BY <1>2, <1>3, <2>1 DEF OrgInv, Org!TypeOK
  <1>5. a \notin disturbed' => /\ reply = "ok" /\ a \notin disturbed
                               /\ \A d \in Slots \ {c} : orgCalls[d].about = a => orgCalls[d] = Org!Idle
    BY OrgAlone
  <1>6. PlanFollows'
    <2> SUFFICES ASSUME TheOrg \notin disturbed'
                 PROVE  /\ (\A d \in Slots : orgCalls'[d].op \in {"save", "activate"}
                                => orgCalls'[d].reply # "ok") => shownPlan = orgPlan'
                        /\ \A d \in Slots : orgCalls'[d].op \in {"save", "activate"}
                                /\ orgCalls'[d].reply = "ok" => orgCalls'[d].plan = orgPlan'
      BY DEF PlanFollows
    <2>1. /\ (\A d \in Slots : orgCalls[d].op \in {"save", "activate"}
                  => orgCalls[d].reply # "ok") => shownPlan = orgPlan
          /\ \A d \in Slots : orgCalls[d].op \in {"save", "activate"}
                  /\ orgCalls[d].reply = "ok" => orgCalls[d].plan = orgPlan
      BY <1>2 DEF OrgInv, PlanFollows
    <2>2. CASE orgCalls[c].op \in {"save", "activate"}
      <3>1. a = TheOrg  BY <2>2 DEF OrgInv, Asking
      <3>2. \A d \in Slots \ {c} : orgCalls[d].op \notin {"save", "activate"}
        BY <1>5, <3>1, IdleFields DEF OrgInv, Asking
      <3>3. reply = "ok"  BY <1>5, <3>1
      <3> QED  BY <1>2, <2>2, <3>2, <3>3
    <2>3. CASE orgCalls[c].op \notin {"save", "activate"}
      BY <1>2, <1>3, <2>1, <2>3
    <2> QED  BY <2>2, <2>3
  <1>7. RowFollows'
    <2> SUFFICES ASSUME NEW u \in Users \ disturbed'
                 PROVE  /\ \A x, y \in rows : x.user = u /\ y.user = u => x = y
                        /\ (\A d \in Slots : orgCalls'[d].about = u => orgCalls'[d].reply # "ok")
                              => /\ \A x \in rows : x.user = u => x.role = members'[u]
                                 /\ members'[u] # NoRole => \E x \in rows : x.user = u
                        /\ \A d \in Slots : orgCalls'[d].about = u /\ orgCalls'[d].reply = "ok"
                              => /\ members'[u] = orgCalls'[d].role
                                 /\ orgCalls'[d].op = "add" => \A x \in rows : x.user # u
      BY DEF RowFollows
    <2>1. u \in Users \ disturbed  OBVIOUS
    <2>2. \A x, y \in rows : x.user = u /\ y.user = u => x = y
      BY <1>2, <2>1 DEF OrgInv, RowFollows
    <2>3. CASE u # a
      <3>1. \A d \in Slots : orgCalls'[d].about = u => d # c /\ orgCalls'[d] = orgCalls[d]
        BY <1>2, <2>3
      <3>2. members'[u] = members[u]  BY <1>3, <2>3
      <3> QED  BY <1>2, <2>1, <2>2, <3>1, <3>2 DEF OrgInv, RowFollows
    <2>4. CASE u = a
      <3>1. \A d \in Slots : orgCalls[d].about = u => orgCalls[d].reply # "ok"
        BY <1>5, <2>4, IdleFields
      <3>2. \A d \in Slots \ {c} : orgCalls'[d].about = u => orgCalls'[d].reply # "ok"
        BY <1>2, <3>1
      <3>3. orgCalls[c].op = "add" => \A x \in rows : x.user # u
        <4> SUFFICES ASSUME orgCalls[c].op = "add", NEW x \in rows, x.user = u PROVE FALSE
          OBVIOUS
        <4>1. x.role = members[u]  BY <1>2, <2>1, <3>1 DEF OrgInv, RowFollows
        <4>2. members[u] = NoRole  BY <2>4 DEF Org!Possible
        <4>3. x.role \in Org!OrgRoles  BY DEF OrgInv, Org!TypeOK, Org!Row
        <4> QED  BY <4>1, <4>2, <4>3, PageConstants
      <3> QED  BY <1>2, <1>3, <1>5, <2>2, <2>4, <3>2, <3>3
    <2> QED  BY <2>3, <2>4
  <1>8. MyRank'
    <2> SUFFICES ASSUME sysRole # Org!System, Me \notin disturbed'
                 PROVE  members'[Me] = myOrgRole /\ myOrgRole # NoRole
      BY DEF MyRank
    <2>1. members[Me] = myOrgRole /\ myOrgRole # NoRole
      BY <1>2 DEF OrgInv, MyRank
    <2>2. a # Me
      <3>1. a = Me => orgCalls[c].op = "add"
        BY <1>1, PageConstants DEF OrgInv, Asking, Org!Ops
      <3>2. a = Me /\ orgCalls[c].op = "add" => members[Me] = NoRole  BY DEF Org!Possible
      <3> QED  BY <2>1, <3>1, <3>2
    <2> QED  BY <1>3, <2>1, <2>2, PageConstants
  <1> QED  BY <1>2, <1>4, <1>6, <1>7, <1>8 DEF OrgInv

LEMMA OrgServeKeeps == ASSUME OrgInv, NEW c \in Slots, Org!Serve(c) PROVE OrgInv'
  <1>1. /\ orgCalls[c] # Org!Idle /\ orgCalls[c].reply = "none"
        /\ UNCHANGED <<sysRole, orgView, rows, shownPlan, myOrgRole, changing, busy, checkouts>>
    BY DEF Org!Serve, Org!page, Org!past
  <1>2. ASSUME NEW reply \in {"refused", "forbidden"}, UNCHANGED <<members, orgPlan, Org!past>>,
               Org!Reply(c, reply), reply = "forbidden" => ~Org!Allowed(orgCalls[c])
        PROVE  OrgInv'
    BY <1>1, <1>2, OrgRefusedKeeps DEF Org!Reply, Org!past
  <1>3. /\ orgCalls[c] = [op |-> orgCalls[c].op, about |-> orgCalls[c].about, role |-> orgCalls[c].role,
                       reply |-> orgCalls[c].reply, plan |-> orgCalls[c].plan]
        /\ orgCalls[c].plan \in Org!PlanNames
    BY CallFields DEF OrgInv
  <1>4. CASE Org!Possible(orgCalls[c]) /\ Org!CarryOut(orgCalls[c]) /\ Org!ReplyOk(c) /\ UNCHANGED Org!past
    <2> DEFINE p == IF orgCalls[c].op \in {"save", "activate"} THEN orgPlan' ELSE Org!Free
               said == [op |-> orgCalls[c].op, about |-> orgCalls[c].about, role |-> orgCalls[c].role,
                        reply |-> "ok", plan |-> orgCalls[c].plan]
               full == [op |-> orgCalls[c].op, about |-> orgCalls[c].about, role |-> orgCalls[c].role,
                        reply |-> "ok", plan |-> p]
    <2>1. orgPlan' \in Org!PlanNames  BY <1>4 DEF Org!CarryOut, OrgInv, Org!TypeOK, Org!PlanNames
    <2>2. p \in Org!PlanNames  BY <2>1 DEF Org!PlanNames
    <2>3. orgCalls[c].op \in {"save", "activate"} => p = orgPlan'  OBVIOUS
    <2>4. orgCalls' = [orgCalls EXCEPT ![c].reply = "ok", ![c].plan = p]  BY <1>4 DEF Org!ReplyOk
    <2> HIDE DEF p
    <2>5. PICK q \in Org!PlanNames : q = p  BY <2>2
    <2>6. [orgCalls[c] EXCEPT !.reply = "ok"] = said  BY <1>3
    <2>7. [said EXCEPT !.plan = p] = full  OBVIOUS
    <2> HIDE DEF said, full
    <2>8. [orgCalls EXCEPT ![c] = said][c] = said  BY DEF OrgInv, Org!TypeOK
    <2>9. orgCalls' = [[orgCalls EXCEPT ![c] = said] EXCEPT ![c] = full]
      BY <2>4, <2>6, <2>7, <2>8
    <2>10. orgCalls' = [orgCalls EXCEPT ![c] = full]  BY <2>9 DEF OrgInv, Org!TypeOK
    <2>11. orgCalls' = [orgCalls EXCEPT ![c] = [op |-> orgCalls[c].op, about |-> orgCalls[c].about,
                         role |-> orgCalls[c].role, reply |-> "ok", plan |-> q]]
      BY <2>5, <2>10 DEF full
    <2>12. disturbed' = disturbed  BY <1>4 DEF Org!past
    <2> QED  BY <1>1, <1>4, <2>3, <2>5, <2>11, <2>12, OrgCarriedOutKeeps
  <1>5. CASE /\ Org!Possible(orgCalls[c]) /\ Org!CarryOut(orgCalls[c]) /\ Org!Reply(c, "refused")
             /\ disturbed' = disturbed \cup {orgCalls[c].about}
    <2>1. [orgCalls[c] EXCEPT !.reply = "refused"]
            = [op |-> orgCalls[c].op, about |-> orgCalls[c].about, role |-> orgCalls[c].role,
               reply |-> "refused", plan |-> orgCalls[c].plan]
      BY <1>3
    <2>2. orgCalls' = [orgCalls EXCEPT ![c] = [op |-> orgCalls[c].op, about |-> orgCalls[c].about,
                         role |-> orgCalls[c].role, reply |-> "refused", plan |-> orgCalls[c].plan]]
      BY <1>5, <2>1 DEF Org!Reply
    <2> QED  BY <1>1, <1>3, <1>5, <2>2, OrgCarriedOutKeeps
  <1> QED  BY <1>2, <1>4, <1>5 DEF Org!Serve

-----------------------------------------------------------------------------
(* Others, and the user's leaving *)

LEMMA ForeignKeeps == ASSUME OrgInv, Org!Foreign PROVE OrgInv'
  <1>1. /\ Org!Shown /\ disturbed \subseteq disturbed'
        /\ UNCHANGED <<sysRole, orgView, rows, shownPlan, myOrgRole, changing, busy, orgCalls, checkouts>>
    BY DEF Org!Foreign, Org!page, Org!Shown
  <1>2. /\ members' \in [Users -> Org!MaybeRole] /\ orgPlan' \in Org!PlanNames
        /\ disturbed' \subseteq Users \cup {TheOrg}
        /\ \A u \in Users \ disturbed' : members'[u] = members[u]
        /\ TheOrg \notin disturbed' => orgPlan' = orgPlan
    <2>1. CASE \E u \in Users, r \in Org!MaybeRole :
                  /\ members' = [members EXCEPT ![u] = r]
                  /\ disturbed' = disturbed \cup {u} /\ UNCHANGED orgPlan
      BY <2>1 DEF OrgInv, Org!TypeOK
    <2>2. CASE /\ orgPlan' \in Org!PlanNames \ {orgPlan} /\ disturbed' = disturbed \cup {TheOrg}
               /\ UNCHANGED members
      BY <2>2 DEF OrgInv, Org!TypeOK
    <2> QED  BY <2>1, <2>2 DEF Org!Foreign
  <1>3. Org!TypeOK'  BY <1>1, <1>2 DEF OrgInv, Org!TypeOK
  <1>4. Still' /\ ButtonsGuard'  BY <1>1 DEF OrgInv, Still, ButtonsGuard, Org!Shown
  <1>5. Asking'  BY <1>1 DEF OrgInv, Asking, Org!AssignableRoles, Org!CanManageBilling
  <1>6. OneRequestEach' /\ Org!OfferedIsAllowed'
    BY <1>1 DEF OrgInv, OneRequestEach, Org!OfferedIsAllowed
  <1>7. PlanFollows'  BY <1>1, <1>2 DEF OrgInv, PlanFollows, Org!Shown
  <1>8. RowFollows'  BY <1>1, <1>2 DEF OrgInv, RowFollows, Org!Shown
  <1>9. RowTouched'  BY <1>1 DEF OrgInv, RowTouched, Org!AssignableRoles
  <1>10. MyRank'  BY <1>1, <1>2, PageConstants DEF OrgInv, MyRank, Org!Shown
  <1> QED
    BY <1>3, <1>4, <1>5, <1>6, <1>7, <1>8, <1>9, <1>10 DEF OrgInv

LEMMA LeaveKeeps == ASSUME OrgInv, Org!Leave PROVE OrgInv'
  <1>1. /\ \A c \in Slots : orgCalls'[c] = Org!Idle
        /\ orgView' = "left" /\ ~Org!Shown' /\ rows' = {} /\ busy' = {} /\ changing' = TheOrg
        /\ UNCHANGED <<members, orgPlan, sysRole, disturbed, checkouts>>
    BY DEF Org!Leave, Org!Shown, Org!server, Org!past
  <1>2. Org!TypeOK'
    BY <1>1 DEF Org!Leave, Org!server, Org!past, OrgInv, Org!TypeOK, Org!PlanNames, Org!Free,
       Org!MaybeRole
  <1>3. Still' /\ ButtonsGuard'
    BY <1>1, IdleFields DEF OrgInv, Still, ButtonsGuard, Guarded
  <1>4. Asking' /\ OneRequestEach' /\ RowTouched' /\ Org!OfferedIsAllowed'
    BY <1>1, IdleFields, PageConstants DEF Asking, OneRequestEach, RowTouched, Org!OfferedIsAllowed
  <1>5. PlanFollows' /\ RowFollows' /\ MyRank'
    BY <1>1 DEF PlanFollows, RowFollows, MyRank
  <1> QED  BY <1>2, <1>3, <1>4, <1>5 DEF OrgInv

-----------------------------------------------------------------------------
(* The answers *)

LEMMA RolesOffered == Org!TypeOK => Org!AssignableRoles \subseteq Org!OrgRoles
  BY DEF Org!AssignableRoles, Org!ASSIGNABLE, Org!TypeOK, Org!MaybeRole, Org!OrgRoles

\* The request is over.
LEMMA DoneFields ==
    ASSUME OrgInv, NEW c \in Slots, Org!Done(c)
    PROVE  /\ orgCalls' \in [Slots -> Org!Call \cup {Org!Idle}]
           /\ orgCalls'[c] = Org!Idle /\ \A d \in Slots \ {c} : orgCalls'[d] = orgCalls[d]
           /\ orgCalls'[c].op = "idle" /\ orgCalls'[c].reply = "none" /\ orgCalls'[c].about = TheOrg
  BY IdleFields DEF Org!Done, OrgInv, Org!TypeOK

\* What every handler does, whatever it makes of the rows.
LEMMA EndKeeps ==
    ASSUME OrgInv, NEW c \in Slots, orgView = "shown", orgCalls[c].op \in Org!Ops, Org!Done(c),
           UNCHANGED <<members, orgPlan, sysRole, orgView, myOrgRole, disturbed>>,
           changing' \in {changing, TheOrg}, rows' \subseteq Org!Row,
           shownPlan' = IF orgCalls[c].op \in {"save", "activate"} /\ Org!Ok(c)
                 THEN orgCalls[c].plan ELSE shownPlan,
           busy' = IF orgCalls[c].op \in Guarded /\ ~(orgCalls[c].op = "checkout" /\ Org!Ok(c))
                   THEN busy \ {orgCalls[c].op} ELSE busy,
           checkouts' = IF orgCalls[c].op = "checkout" /\ Org!Ok(c) THEN checkouts + 1 ELSE checkouts,
           RowFollows', RowTouched'
    PROVE  OrgInv'
  <1>1. /\ orgCalls' \in [Slots -> Org!Call \cup {Org!Idle}]
        /\ orgCalls'[c] = Org!Idle /\ \A d \in Slots \ {c} : orgCalls'[d] = orgCalls[d]
        /\ orgCalls'[c].op = "idle" /\ orgCalls'[c].reply = "none" /\ orgCalls'[c].about = TheOrg
    BY DoneFields
  <1>2. "idle" \notin Org!Ops /\ Guarded \subseteq Org!Ops /\ "checkout" \in Guarded
    BY IdleFields DEF Guarded
  <1>3. orgCalls[c].plan \in Org!PlanNames  BY CallFields DEF OrgInv
  <1>4. Org!TypeOK'
    <2>1. shownPlan' \in Org!PlanNames  BY <1>3 DEF OrgInv, Org!TypeOK
    <2>2. busy' \subseteq Org!Ops  BY DEF OrgInv, Org!TypeOK
    <2>3. changing' \in Users \cup {TheOrg}  BY DEF OrgInv, Org!TypeOK
    <2> QED  BY <1>1, <2>1, <2>2, <2>3 DEF OrgInv, Org!TypeOK
  <1>5. Still'  BY DEF Still, Org!Shown
  <1>6. /\ busy \subseteq Guarded
        /\ \A op \in busy : (\E d \in Slots : orgCalls[d].op = op) \/ (op = "checkout" /\ checkouts = 1)
        /\ \A d \in Slots : orgCalls[d].op \in Guarded => orgCalls[d].op \in busy
        /\ \A d, e \in Slots : orgCalls[d].op \in Guarded /\ orgCalls[d].op = orgCalls[e].op => d = e
        /\ checkouts \in {0, 1}
        /\ checkouts = 1 => "checkout" \in busy /\ \A d \in Slots : orgCalls[d].op # "checkout"
    BY DEF OrgInv, ButtonsGuard, Org!Shown
  <1>7. ButtonsGuard'
    <2>1. \A op \in busy' : (\E d \in Slots : orgCalls'[d].op = op) \/ (op = "checkout" /\ checkouts' = 1)
      <3> SUFFICES ASSUME NEW op \in busy', ~(op = "checkout" /\ checkouts' = 1)
                   PROVE  \E d \in Slots : orgCalls'[d].op = op
        OBVIOUS
      <3>1. op \in busy  OBVIOUS
      <3>2. CASE op = "checkout" /\ checkouts = 1
        <4>1. orgCalls[c].op # "checkout"  BY <1>6, <3>2
        <4> QED  BY <3>2, <4>1
      <3>3. CASE \E d \in Slots : orgCalls[d].op = op
        <4>1. PICK d \in Slots : orgCalls[d].op = op  BY <3>3
        <4>2. CASE d # c  BY <1>1, <4>1, <4>2
        <4>3. CASE d = c
          <5>1. ~(op = "checkout" /\ Org!Ok(c))
            BY <1>2, <1>6, <4>1, <4>3
          <5>2. op \in Guarded  BY <1>6, <3>1
          <5>3. busy' = busy \ {op}  BY <4>1, <4>3, <5>1, <5>2
          <5> QED  BY <5>3
        <4> QED  BY <4>2, <4>3
      <3> QED  BY <1>6, <3>1, <3>2, <3>3
    <2>2. \A d \in Slots : orgCalls'[d].op \in Guarded => orgCalls'[d].op \in busy'
      BY <1>1, <1>2, <1>6
    <2>3. \A d, e \in Slots : orgCalls'[d].op \in Guarded /\ orgCalls'[d].op = orgCalls'[e].op => d = e
      BY <1>1, <1>2, <1>6
    <2>4. checkouts' \in {0, 1}
      BY <1>2, <1>6
    <2>5. checkouts' = 1 => "checkout" \in busy' /\ \A d \in Slots : orgCalls'[d].op # "checkout"
      BY <1>1, <1>2, <1>6
    <2>6. busy' \subseteq Guarded  BY <1>6
    <2> QED  BY <2>1, <2>2, <2>3, <2>4, <2>5, <2>6 DEF ButtonsGuard
  <1>8. Asking'
    BY <1>1, <1>2, PageConstants DEF OrgInv, Asking, Org!AssignableRoles, Org!CanManageBilling,
       Org!Ops
  <1>9. OneRequestEach' /\ Org!OfferedIsAllowed'
    BY <1>1 DEF OrgInv, OneRequestEach, Org!OfferedIsAllowed
  <1>10. PlanFollows'
    <2> SUFFICES ASSUME TheOrg \notin disturbed
                 PROVE  /\ (\A d \in Slots : orgCalls'[d].op \in {"save", "activate"}
                                => orgCalls'[d].reply # "ok") => shownPlan' = orgPlan
                        /\ \A d \in Slots : orgCalls'[d].op \in {"save", "activate"}
                                /\ orgCalls'[d].reply = "ok" => orgCalls'[d].plan = orgPlan
      BY DEF PlanFollows
    <2>1. /\ (\A d \in Slots : orgCalls[d].op \in {"save", "activate"}
                  => orgCalls[d].reply # "ok") => shownPlan = orgPlan
          /\ \A d \in Slots : orgCalls[d].op \in {"save", "activate"}
                  /\ orgCalls[d].reply = "ok" => orgCalls[d].plan = orgPlan
      BY DEF OrgInv, PlanFollows, Org!Shown
    <2> QED  BY <1>1, <2>1 DEF Org!Ok
  <1>11. MyRank'  BY DEF OrgInv, MyRank, Org!Shown
  <1> QED
    BY <1>4, <1>5, <1>7, <1>8, <1>9, <1>10, <1>11 DEF OrgInv

\* The rows as they were will do when the answer is not about a member, or
\* says that nothing has changed.
LEMMA RowsStand ==
    ASSUME OrgInv, NEW c \in Slots, orgView = "shown", Org!Done(c), orgCalls[c].about = TheOrg \/ ~Org!Ok(c),
           UNCHANGED <<members, sysRole, orgView, rows, myOrgRole, disturbed>>
    PROVE  RowFollows' /\ RowTouched'
  <1>1. /\ orgCalls'[c] = Org!Idle /\ \A d \in Slots \ {c} : orgCalls'[d] = orgCalls[d]
        /\ orgCalls'[c].op = "idle" /\ orgCalls'[c].reply = "none" /\ orgCalls'[c].about = TheOrg
    BY DoneFields
  <1>2. RowTouched'  BY <1>1 DEF OrgInv, RowTouched, Org!AssignableRoles
  <1>3. ASSUME NEW u \in Users
        PROVE  /\ \A d \in Slots : orgCalls'[d].about = u => d # c
               /\ orgCalls[c].about = u => orgCalls[c].reply # "ok"
    BY <1>1, PageConstants DEF Org!Ok
  <1>4. RowFollows'
    <2> SUFFICES ASSUME NEW u \in Users \ disturbed
                 PROVE  /\ \A x, y \in rows : x.user = u /\ y.user = u => x = y
                        /\ (\A d \in Slots : orgCalls'[d].about = u => orgCalls'[d].reply # "ok")
                              => /\ \A x \in rows : x.user = u => x.role = members[u]
                                 /\ members[u] # NoRole => \E x \in rows : x.user = u
                        /\ \A d \in Slots : orgCalls'[d].about = u /\ orgCalls'[d].reply = "ok"
                              => /\ members[u] = orgCalls'[d].role
                                 /\ orgCalls'[d].op = "add" => \A x \in rows : x.user # u
      BY DEF RowFollows
    <2>1. /\ \A x, y \in rows : x.user = u /\ y.user = u => x = y
          /\ (\A d \in Slots : orgCalls[d].about = u => orgCalls[d].reply # "ok")
                => /\ \A x \in rows : x.user = u => x.role = members[u]
                   /\ members[u] # NoRole => \E x \in rows : x.user = u
          /\ \A d \in Slots : orgCalls[d].about = u /\ orgCalls[d].reply = "ok"
                => /\ members[u] = orgCalls[d].role
                   /\ orgCalls[d].op = "add" => \A x \in rows : x.user # u
      BY DEF OrgInv, RowFollows, Org!Shown
    <2>2. (\A d \in Slots : orgCalls'[d].about = u => orgCalls'[d].reply # "ok")
            => \A d \in Slots : orgCalls[d].about = u => orgCalls[d].reply # "ok"
      BY <1>1, <1>3
    <2> QED  BY <1>1, <1>3, <2>1, <2>2
  <1> QED  BY <1>2, <1>4

\* The rows once an answer about a member has been taken over: the others' are
\* as they were, and his is what the answer says.
LEMMA RowsTaken ==
    ASSUME OrgInv, NEW c \in Slots, orgView = "shown", Org!Done(c), Org!Ok(c), orgCalls[c].about \in Users,
           UNCHANGED <<members, sysRole, orgView, myOrgRole, disturbed>>,
           \A x \in Org!Row : x.user # orgCalls[c].about => (x \in rows' <=> x \in rows),
           rows' \subseteq Org!Row,
           orgCalls[c].about \notin disturbed =>
               /\ \A x, y \in rows' : x.user = orgCalls[c].about /\ y.user = orgCalls[c].about => x = y
               /\ \A x \in rows' : x.user = orgCalls[c].about => x.role = orgCalls[c].role
               /\ orgCalls[c].role # NoRole => \E x \in rows' : x.user = orgCalls[c].about
    PROVE  RowFollows' /\ RowTouched'
  <1> DEFINE a == orgCalls[c].about
  <1>1. /\ orgCalls'[c] = Org!Idle /\ \A d \in Slots \ {c} : orgCalls'[d] = orgCalls[d]
        /\ orgCalls'[c].op = "idle" /\ orgCalls'[c].reply = "none" /\ orgCalls'[c].about = TheOrg
    BY DoneFields
  <1>2. rows \subseteq Org!Row  BY DEF OrgInv, Org!TypeOK
  <1>3. a \notin disturbed => \A d \in Slots : orgCalls'[d].about # a
    <2> SUFFICES ASSUME a \notin disturbed, NEW d \in Slots, orgCalls'[d].about = a PROVE FALSE
      OBVIOUS
    <2>1. d # c  BY <1>1, PageConstants
    <2>2. orgCalls[c] # Org!Idle  BY IdleFields DEF Org!Ok
    <2>3. orgCalls[d] = Org!Idle  BY <1>1, <2>1, <2>2, OrgAlone
    <2> QED  BY <1>1, <2>1, <2>3, IdleFields, PageConstants
  <1>4. RowTouched'
    <2> SUFFICES ASSUME NEW d \in Slots, orgCalls'[d].op \in {"update", "remove"},
                        orgCalls'[d].about \notin disturbed
                 PROVE  \E x \in rows' : /\ x.user = orgCalls'[d].about /\ x.named
                                         /\ orgCalls'[d].op = "remove" /\ orgCalls'[d].reply = "none"
                                               => x.role \in Org!AssignableRoles
      BY DEF RowTouched, Org!AssignableRoles
    <2>1. d # c  BY <1>1
    <2>2. PICK x \in rows : /\ x.user = orgCalls[d].about /\ x.named
                            /\ orgCalls[d].op = "remove" /\ orgCalls[d].reply = "none"
                                  => x.role \in Org!AssignableRoles
      BY <1>1, <2>1 DEF OrgInv, RowTouched
    <2>3. orgCalls[d].about # a  BY <1>1, <1>3, <2>1
    <2>4. x \in rows'  BY <1>2, <2>2, <2>3
    <2> QED  BY <1>1, <2>1, <2>2, <2>4
  <1>5. RowFollows'
    <2> SUFFICES ASSUME NEW u \in Users \ disturbed
                 PROVE  /\ \A x, y \in rows' : x.user = u /\ y.user = u => x = y
                        /\ (\A d \in Slots : orgCalls'[d].about = u => orgCalls'[d].reply # "ok")
                              => /\ \A x \in rows' : x.user = u => x.role = members[u]
                                 /\ members[u] # NoRole => \E x \in rows' : x.user = u
                        /\ \A d \in Slots : orgCalls'[d].about = u /\ orgCalls'[d].reply = "ok"
                              => /\ members[u] = orgCalls'[d].role
                                 /\ orgCalls'[d].op = "add" => \A x \in rows' : x.user # u
      BY DEF RowFollows
    <2>1. /\ \A x, y \in rows : x.user = u /\ y.user = u => x = y
          /\ (\A d \in Slots : orgCalls[d].about = u => orgCalls[d].reply # "ok")
                => /\ \A x \in rows : x.user = u => x.role = members[u]
                   /\ members[u] # NoRole => \E x \in rows : x.user = u
          /\ \A d \in Slots : orgCalls[d].about = u /\ orgCalls[d].reply = "ok"
                => /\ members[u] = orgCalls[d].role
                   /\ orgCalls[d].op = "add" => \A x \in rows : x.user # u
      BY DEF OrgInv, RowFollows, Org!Shown
    <2>2. CASE u = a
      <3>1. \A d \in Slots : orgCalls'[d].about # u  BY <1>3, <2>2
      <3>2. members[u] = orgCalls[c].role  BY <2>1, <2>2 DEF Org!Ok
      <3> QED  BY <2>2, <3>1, <3>2
    <2>3. CASE u # a
      <3>1. \A x \in Org!Row : x.user = u => (x \in rows' <=> x \in rows)
        BY <2>3
      <3>2. \A d \in Slots : orgCalls'[d].about = u => d # c  BY <1>1, PageConstants
      <3>3. (\A d \in Slots : orgCalls'[d].about = u => orgCalls'[d].reply # "ok")
              => \A d \in Slots : orgCalls[d].about = u => orgCalls[d].reply # "ok"
        BY <1>1, <2>3
      <3>4. \A x, y \in rows' : x.user = u /\ y.user = u => x = y
        BY <2>1, <3>1
      <3>5. ASSUME \A d \in Slots : orgCalls'[d].about = u => orgCalls'[d].reply # "ok"
            PROVE  /\ \A x \in rows' : x.user = u => x.role = members[u]
                   /\ members[u] # NoRole => \E x \in rows' : x.user = u
        BY <1>2, <2>1, <3>1, <3>3, <3>5
      <3>6. ASSUME NEW d \in Slots, orgCalls'[d].about = u, orgCalls'[d].reply = "ok"
            PROVE  /\ members[u] = orgCalls'[d].role
                   /\ orgCalls'[d].op = "add" => \A x \in rows' : x.user # u
        BY <1>1, <2>1, <3>1, <3>2, <3>6
      <3> QED  BY <3>4, <3>5, <3>6
    <2> QED  BY <2>2, <2>3
  <1> QED  BY <1>4, <1>5

\* What is known of an answered request about a member.
LEMMA MemberAnswered ==
    ASSUME OrgInv, NEW c \in Slots, orgView = "shown", orgCalls[c].op \in {"add", "update", "remove"}, Org!Ok(c)
    PROVE  /\ orgCalls[c].about \in Users
           /\ orgCalls[c].op \in {"add", "update"} => orgCalls[c].role \in Org!OrgRoles
           /\ orgCalls[c].op = "remove" => orgCalls[c].role = NoRole
           /\ orgCalls[c].about \notin disturbed =>
                 /\ \A x, y \in rows : x.user = orgCalls[c].about /\ y.user = orgCalls[c].about => x = y
                 /\ orgCalls[c].op = "add" => \A x \in rows : x.user # orgCalls[c].about
                 /\ orgCalls[c].op \in {"update", "remove"}
                        => \E x \in rows : x.user = orgCalls[c].about /\ x.named
  <1>1. /\ orgCalls[c].about \in Users
        /\ orgCalls[c].op \in {"add", "update"} => orgCalls[c].role \in Org!OrgRoles
        /\ orgCalls[c].op = "remove" => orgCalls[c].role = NoRole
    BY RolesOffered DEF OrgInv, Asking
  <1>2. orgCalls[c].about \notin disturbed =>
            /\ \A x, y \in rows : x.user = orgCalls[c].about /\ y.user = orgCalls[c].about => x = y
            /\ orgCalls[c].op = "add" => \A x \in rows : x.user # orgCalls[c].about
    BY <1>1 DEF OrgInv, RowFollows, Org!Shown, Org!Ok
  <1>3. orgCalls[c].about \notin disturbed /\ orgCalls[c].op \in {"update", "remove"} =>
            \E x \in rows : x.user = orgCalls[c].about /\ x.named
    BY DEF OrgInv, RowTouched
  <1> QED  BY <1>1, <1>2, <1>3

LEMMA AddAnswerKeeps == ASSUME OrgInv, NEW c \in Slots, Org!HandleAddMember(c) PROVE OrgInv'
  <1>1. /\ orgView = "shown" /\ orgCalls[c].op = "add" /\ Org!Done(c) /\ busy' = busy \ {"add"}
        /\ rows' = rows \cup (IF Org!Ok(c) THEN {[user |-> orgCalls[c].about, named |-> FALSE,
                                              role |-> orgCalls[c].role]} ELSE {})
        /\ UNCHANGED <<members, orgPlan, sysRole, orgView, shownPlan, myOrgRole, changing,
                       moves, disturbed, checkouts>>
    BY DEF Org!HandleAddMember, Org!Answered, Org!Enable, Org!server, Org!past
  <1>2. "add" \in Org!Ops /\ "add" \in Guarded  BY DEF Org!Ops, Guarded
  <1>3. rows' \subseteq Org!Row /\ RowFollows' /\ RowTouched'
    <2>1. CASE ~Org!Ok(c)
      <3>1. rows' = rows  BY <1>1, <2>1
      <3> QED  BY <1>1, <2>1, <3>1, RowsStand DEF OrgInv, Org!TypeOK
    <2>2. CASE Org!Ok(c)
      <3>1. /\ orgCalls[c].about \in Users /\ orgCalls[c].role \in Org!OrgRoles
            /\ orgCalls[c].about \notin disturbed => \A x \in rows : x.user # orgCalls[c].about
        BY <1>1, <2>2, MemberAnswered
      <3>2. PICK row : row = [user |-> orgCalls[c].about, named |-> FALSE, role |-> orgCalls[c].role]
        OBVIOUS
      <3>3. row \in Org!Row /\ row.user = orgCalls[c].about /\ row.role = orgCalls[c].role
        BY <3>1, <3>2 DEF Org!Row
      <3>4. rows' = rows \cup {row}  BY <1>1, <2>2, <3>2
      <3>5. rows \subseteq Org!Row  BY DEF OrgInv, Org!TypeOK
      <3>6. rows' \subseteq Org!Row  BY <3>3, <3>4, <3>5
      <3>7. \A x \in Org!Row : x.user # orgCalls[c].about => (x \in rows' <=> x \in rows)
        BY <3>3, <3>4
      <3>8. orgCalls[c].about \notin disturbed =>
               /\ \A x, y \in rows' : x.user = orgCalls[c].about /\ y.user = orgCalls[c].about => x = y
               /\ \A x \in rows' : x.user = orgCalls[c].about => x.role = orgCalls[c].role
               /\ orgCalls[c].role # NoRole => \E x \in rows' : x.user = orgCalls[c].about
        BY <3>1, <3>3, <3>4
      <3> QED  BY <1>1, <2>2, <3>1, <3>6, <3>7, <3>8, RowsTaken
    <2> QED  BY <2>1, <2>2
  <1> QED  BY <1>1, <1>2, <1>3, EndKeeps

LEMMA UpdateAnswerKeeps == ASSUME OrgInv, NEW c \in Slots, Org!HandleUpdateRole(c) PROVE OrgInv'
  <1>1. /\ orgView = "shown" /\ orgCalls[c].op = "update" /\ Org!Done(c)
        /\ UNCHANGED <<members, orgPlan, sysRole, orgView, shownPlan, myOrgRole, busy,
                       moves, disturbed, checkouts>>
        /\ changing' \in {changing, TheOrg}
    BY DEF Org!HandleUpdateRole, Org!Answered, Org!server, Org!past
  <1>2. "update" \in Org!Ops /\ "update" \notin Guarded  BY DEF Org!Ops, Guarded
  <1>3. rows' \subseteq Org!Row /\ RowFollows' /\ RowTouched'
    <2>1. CASE ~Org!Ok(c)
      <3>1. rows' = rows  BY <2>1 DEF Org!HandleUpdateRole
      <3> QED  BY <1>1, <2>1, <3>1, RowsStand DEF OrgInv, Org!TypeOK
    <2>2. CASE Org!Ok(c)
      <3> DEFINE a == orgCalls[c].about
                 r == orgCalls[c].role
      <3>1. /\ a \in Users /\ r \in Org!OrgRoles
            /\ a \notin disturbed =>
                 /\ \A x, y \in rows : x.user = a /\ y.user = a => x = y
                 /\ \E x \in rows : x.user = a /\ x.named
        BY <1>1, <2>2, MemberAnswered
      <3>2. rows' = Org!WithRole(a, r)  BY <2>2 DEF Org!HandleUpdateRole
      <3>3. rows \subseteq Org!Row  BY DEF OrgInv, Org!TypeOK
      <3>4. \A x \in rows : [x EXCEPT !.role = r] = [user |-> x.user, named |-> x.named, role |-> r]
        BY <3>3 DEF Org!Row
      <3>5. \A x \in rows' : \E y \in rows :
               IF y.named /\ y.user = a THEN x = [user |-> y.user, named |-> y.named, role |-> r]
                                        ELSE x = y
        BY <3>2, <3>4 DEF Org!WithRole
      <3>6. \A y \in rows : ~(y.named /\ y.user = a) => y \in rows'
        BY <3>2 DEF Org!WithRole
      <3>7. \A y \in rows : y.named /\ y.user = a =>
               [user |-> y.user, named |-> y.named, role |-> r] \in rows'
        BY <3>2, <3>4 DEF Org!WithRole
      <3>8. rows' \subseteq Org!Row  BY <3>1, <3>3, <3>5 DEF Org!Row
      <3>9. \A x \in Org!Row : x.user # a => (x \in rows' <=> x \in rows)
        <4> SUFFICES ASSUME NEW x \in Org!Row, x.user # a PROVE x \in rows' <=> x \in rows
          OBVIOUS
        <4>1. x \in rows => x \in rows'  BY <3>6
        <4>2. ASSUME x \in rows' PROVE x \in rows
          <5>1. PICK y \in rows :
                   IF y.named /\ y.user = a THEN x = [user |-> y.user, named |-> y.named, role |-> r]
                                            ELSE x = y
            BY <3>5, <4>2
          <5> QED  BY <5>1
        <4> QED  BY <4>1, <4>2
      <3>10. ASSUME a \notin disturbed
             PROVE  /\ \A x, y \in rows' : x.user = a /\ y.user = a => x = y
                    /\ \A x \in rows' : x.user = a => x.role = r
                    /\ \E x \in rows' : x.user = a
        <4>1. PICK z \in rows : z.user = a /\ z.named /\ \A x \in rows : x.user = a => x = z
          BY <3>1, <3>10
        <4>2. PICK new : new = [user |-> z.user, named |-> z.named, role |-> r]  OBVIOUS
        <4>3. new \in rows' /\ new.user = a /\ new.role = r  BY <3>7, <4>1, <4>2
        <4>4. ASSUME NEW x \in rows', x.user = a PROVE x = new
          <5>1. PICK y \in rows :
                   IF y.named /\ y.user = a THEN x = [user |-> y.user, named |-> y.named, role |-> r]
                                            ELSE x = y
            BY <3>5
          <5>2. y.user = a  BY <4>4, <5>1
          <5>3. y = z  BY <4>1, <5>2
          <5> QED  BY <4>1, <4>2, <5>1, <5>3
        <4> QED  BY <4>3, <4>4
      <3> QED  BY <1>1, <2>2, <3>1, <3>8, <3>9, <3>10, RowsTaken
    <2> QED  BY <2>1, <2>2
  <1> QED  BY <1>1, <1>2, <1>3, EndKeeps

LEMMA RemoveAnswerKeeps == ASSUME OrgInv, NEW c \in Slots, Org!HandleRemove(c) PROVE OrgInv'
  <1>1. /\ orgView = "shown" /\ orgCalls[c].op = "remove" /\ Org!Done(c)
        /\ rows' = {row \in rows : ~(Org!Ok(c) /\ row.named /\ row.user = orgCalls[c].about)}
        /\ UNCHANGED <<members, orgPlan, sysRole, orgView, shownPlan, myOrgRole, changing, busy,
                       moves, disturbed, checkouts>>
    BY DEF Org!HandleRemove, Org!Answered, Org!server, Org!past
  <1>2. "remove" \in Org!Ops /\ "remove" \notin Guarded  BY DEF Org!Ops, Guarded
  <1>3. rows \subseteq Org!Row /\ rows' \subseteq rows  BY <1>1 DEF OrgInv, Org!TypeOK
  <1>4. RowFollows' /\ RowTouched'
    <2>1. CASE ~Org!Ok(c)
      <3>1. rows' = rows  BY <1>1, <2>1
      <3> QED  BY <1>1, <2>1, <3>1, RowsStand
    <2>2. CASE Org!Ok(c)
      <3>1. /\ orgCalls[c].about \in Users /\ orgCalls[c].role = NoRole
            /\ orgCalls[c].about \notin disturbed =>
                 /\ \A x, y \in rows : x.user = orgCalls[c].about /\ y.user = orgCalls[c].about => x = y
                 /\ \E x \in rows : x.user = orgCalls[c].about /\ x.named
        BY <1>1, <2>2, MemberAnswered
      <3>2. \A x \in Org!Row : x.user # orgCalls[c].about => (x \in rows' <=> x \in rows)
        BY <1>1
      <3>3. orgCalls[c].about \notin disturbed => \A x \in rows' : x.user # orgCalls[c].about
        BY <1>1, <2>2, <3>1
      <3> QED  BY <1>1, <1>3, <2>2, <3>1, <3>2, <3>3, RowsTaken
    <2> QED  BY <2>1, <2>2
  <1> QED  BY <1>1, <1>2, <1>3, <1>4, EndKeeps

\* The answers about the organisation leave the rows alone.
LEMMA AboutOrgAnswerKeeps ==
    ASSUME OrgInv, NEW c \in Slots,
           Org!HandleSaveName(c) \/ Org!HandleActivateEnterprise(c) \/ Org!HandleUpgradeToPro(c)
             \/ Org!HandleCancelSubscription(c)
    PROVE  OrgInv'
  <1>1. /\ orgView = "shown" /\ orgCalls[c].op \in {"save", "activate", "checkout", "cancel"} /\ Org!Done(c)
        /\ UNCHANGED <<members, orgPlan, sysRole, orgView, rows, myOrgRole, changing, disturbed>>
    BY DEF Org!HandleSaveName, Org!HandleActivateEnterprise, Org!HandleUpgradeToPro,
       Org!HandleCancelSubscription,
           Org!CheckoutAnswered, Org!Answered, Org!server, Org!past
  <1>2. orgCalls[c].op \in Org!Ops /\ orgCalls[c].op \in Guarded /\ orgCalls[c].about = TheOrg
    BY <1>1 DEF Org!Ops, Guarded, OrgInv, Asking
  <1>3. RowFollows' /\ RowTouched'  BY <1>1, <1>2, RowsStand
  <1>4. rows' \subseteq Org!Row  BY <1>1 DEF OrgInv, Org!TypeOK
  <1>5. /\ shownPlan' = IF orgCalls[c].op \in {"save", "activate"} /\ Org!Ok(c)
                 THEN orgCalls[c].plan ELSE shownPlan
        /\ busy' = IF orgCalls[c].op \in Guarded /\ ~(orgCalls[c].op = "checkout" /\ Org!Ok(c))
                   THEN busy \ {orgCalls[c].op} ELSE busy
        /\ checkouts' = IF orgCalls[c].op = "checkout" /\ Org!Ok(c) THEN checkouts + 1 ELSE checkouts
    <2>1. CASE Org!HandleSaveName(c)
      BY <1>2, <2>1 DEF Org!HandleSaveName, Org!Answered, Org!Taken, Org!Enable, Org!past
    <2>2. CASE Org!HandleActivateEnterprise(c)
      BY <1>2, <2>2 DEF Org!HandleActivateEnterprise, Org!Answered, Org!Taken, Org!Enable, Org!past
    <2>3. CASE Org!HandleUpgradeToPro(c)
      BY <1>2, <2>3 DEF Org!HandleUpgradeToPro, Org!CheckoutAnswered, Org!Answered, Org!Enable
    <2>4. CASE Org!HandleCancelSubscription(c)
      BY <1>2, <2>4 DEF Org!HandleCancelSubscription, Org!Answered, Org!Enable, Org!past
    <2> QED  BY <2>1, <2>2, <2>3, <2>4
  <1> QED  BY <1>1, <1>2, <1>3, <1>4, <1>5, EndKeeps

LEMMA OrgNext == OrgInv /\ (Org!Next \/ UNCHANGED Org!vars) => OrgInv'
  <1> SUFFICES ASSUME OrgInv, (Org!Next \/ UNCHANGED Org!vars) PROVE OrgInv'  OBVIOUS
  <1>1. CASE UNCHANGED Org!vars
    <2>1. UNCHANGED <<members, orgPlan, sysRole, orgView, rows, shownPlan, myOrgRole, changing, busy,
                      orgCalls, moves, disturbed, checkouts>>
      BY <1>1 DEF Org!vars, Org!server, Org!page, Org!past
    <2>2. Org!TypeOK' /\ Still' /\ ButtonsGuard' /\ Asking' /\ OneRequestEach'
      BY <2>1 DEF OrgInv, Org!TypeOK, Still, ButtonsGuard, Asking, OneRequestEach, Org!Shown,
                  Org!AssignableRoles, Org!CanManageBilling
    <2>3. PlanFollows' /\ RowFollows' /\ RowTouched' /\ MyRank' /\ Org!OfferedIsAllowed'
      BY <2>1 DEF OrgInv, PlanFollows, RowFollows, RowTouched, MyRank, Org!OfferedIsAllowed,
         Org!Shown,
                  Org!AssignableRoles
    <2> QED  BY <2>2, <2>3 DEF OrgInv
  <1>2. CASE Org!Load  BY <1>2, OrgLoadKeeps
  <1>3. CASE Org!Controls  BY <1>3, ControlsKeep, EditorKeeps, LeaveKeeps DEF Org!Controls
  <1>4. CASE Org!Foreign  BY <1>4, ForeignKeeps
  <1>5. CASE \E c \in Slots : Org!Serve(c)  BY <1>5, OrgServeKeeps
  <1>6. CASE \E c \in Slots : Org!Handler(c)
    BY <1>6, AddAnswerKeeps, UpdateAnswerKeeps, RemoveAnswerKeeps, AboutOrgAnswerKeeps
       DEF Org!Handler
  <1> QED  BY <1>1, <1>2, <1>3, <1>4, <1>5, <1>6 DEF Org!Next

LEMMA RowsOfIdle == OrgInv => Org!RowsAgree
  <1> SUFFICES ASSUME OrgInv, Org!Shown, Org!InFlight = {}, NEW u \in Users \ disturbed
               PROVE  {row.role : row \in {x \in rows : x.user = u}} = {members[u]} \ {NoRole}
    BY DEF Org!RowsAgree
  <1>1. \A c \in Slots : orgCalls[c].reply # "ok"  BY IdleFields DEF Org!InFlight
  <1>2. /\ \A x \in rows : x.user = u => x.role = members[u]
        /\ members[u] # NoRole => \E x \in rows : x.user = u
    BY <1>1 DEF OrgInv, RowFollows
  <1>3. \A x \in rows : x.role # NoRole  BY PageConstants DEF OrgInv, Org!TypeOK, Org!Row
  <1> QED  BY <1>2, <1>3

LEMMA PlanOfIdle == OrgInv => Org!PlanAgrees
  <1> SUFFICES ASSUME OrgInv, Org!Shown, Org!InFlight = {}, TheOrg \notin disturbed PROVE shownPlan = orgPlan
    BY DEF Org!PlanAgrees
  <1>1. \A c \in Slots : orgCalls[c].reply # "ok"  BY IdleFields DEF Org!InFlight
  <1> QED  BY <1>1 DEF OrgInv, PlanFollows

LEMMA GuardIsReleased == OrgInv => Org!ButtonsComeBack
  BY DEF OrgInv, ButtonsGuard, Org!ButtonsComeBack

-----------------------------------------------------------------------------
(***************************************************************************)
(* The users page (UsersPage)                                              *)
(*                                                                         *)
(* The banner is emptied before an assignment leaves, and an assignment    *)
(* reported as done is the last one of the page that the server has        *)
(* carried out; so the page's own assignments can contradict a banner only *)
(* while there is none, and the others' are in since.                      *)
(***************************************************************************)

\* An assignment that is answered well has been carried out, and is still so but for
\* what others wrote since.
Told == assign # Nothing /\ assign.reply = "ok" /\ assign.user \notin since
            => roles[assign.user] = assign.role

\* No banner while an assignment is in flight.
Bare == assign # Nothing => outcome = Nothing

UsersInv == Admin!TypeOK /\ Admin!PageIsOfTable /\ Told /\ Bare /\ Admin!BannerIsTrue

LEMMA UsersInit == Admin!Init => UsersInv
  BY DEF Admin!Init, UsersInv, Admin!TypeOK, Admin!PageIsOfTable, Told, Bare, Admin!BannerIsTrue

-----------------------------------------------------------------------------
(* The search leaves the assignment alone. *)

LEMMA FindingKeeps ==
    ASSUME UsersInv, Admin!Type \/ Admin!SearchForm \/ Admin!Pagination \/ Admin!HandleSearch
    PROVE  UsersInv'
  <1>1. UNCHANGED <<roles, Admin!assigning, since>>
    BY DEF Admin!Type, Admin!SearchForm, Admin!Pagination, Admin!HandleSearch, Admin!Ask,
       Admin!assigning
  <1>2. (Told /\ Bare /\ Admin!BannerIsTrue)'
    BY <1>1 DEF UsersInv, Told, Bare, Admin!BannerIsTrue, Admin!assigning
  <1>3. CASE Admin!Type
    BY <1>1, <1>2, <1>3 DEF Admin!Type, UsersInv, Admin!TypeOK, Admin!PageIsOfTable, Admin!assigning
  <1>4. ASSUME NEW page \in Nat, Admin!Ask(page) PROVE UsersInv'
    <2>1. [text |-> term, page |-> page] \in Admin!Query
      BY DEF UsersInv, Admin!TypeOK, Admin!Query
    <2> QED
      BY <1>2, <1>4, <2>1 DEF Admin!Ask, UsersInv, Admin!TypeOK, Admin!PageIsOfTable,
         Admin!assigning
  <1>5. CASE Admin!SearchForm
    BY <1>4, <1>5 DEF Admin!SearchForm, UsersInv, Admin!TypeOK
  <1>6. CASE Admin!Pagination
    <2>1. searchPage \in Nat  BY DEF UsersInv, Admin!TypeOK
    <2>2. CASE searchPage > 1 /\ Admin!Ask(searchPage - 1)
      <3>1. searchPage - 1 \in Nat  BY <2>1, <2>2
      <3> QED  BY <1>4, <2>2, <3>1
    <2>3. CASE Admin!Ask(searchPage + 1)
      <3>1. searchPage + 1 \in Nat  BY <2>1
      <3> QED  BY <1>4, <2>3, <3>1
    <2> QED  BY <1>6, <2>2, <2>3 DEF Admin!Pagination
  <1>7. CASE Admin!HandleSearch
    <2>1. search \in Admin!Query  BY <1>7 DEF Admin!HandleSearch, UsersInv, Admin!TypeOK
    <2>2. search.page \in Nat  BY <2>1 DEF Admin!Query
    <2>3. usersView' \in {"shown", "left"}  BY <1>7 DEF Admin!HandleSearch
    <2> QED
      BY <1>2, <1>7, <2>1, <2>2, <2>3 DEF Admin!HandleSearch, UsersInv, Admin!TypeOK,
         Admin!PageIsOfTable, Admin!assigning
  <1> QED  BY <1>3, <1>5, <1>6, <1>7

-----------------------------------------------------------------------------
(* The assignment leaves the search alone. *)

LEMMA AssigningKeepsFinding ==
    ASSUME UsersInv, UNCHANGED Admin!finding
    PROVE  Admin!PageIsOfTable'
  BY DEF UsersInv, Admin!PageIsOfTable, Admin!finding

LEMMA SelectRowKeeps == ASSUME UsersInv, Admin!SelectRow PROVE UsersInv'
  <1>1. UNCHANGED Admin!finding  BY DEF Admin!SelectRow
  <1> QED
    BY <1>1, AssigningKeepsFinding
    DEF Admin!SelectRow, UsersInv, Admin!TypeOK, Told, Bare, Admin!BannerIsTrue, Admin!finding

LEMMA AssignFormKeeps ==
    ASSUME UsersInv, NEW r \in {Admin!System, NoRole}, Admin!AssignForm(r)
    PROVE  UsersInv'
  <1>1. UNCHANGED Admin!finding  BY DEF Admin!AssignForm
  <1>2. field \in Users  BY DEF Admin!AssignForm, UsersInv, Admin!TypeOK
  <1>3. assign'.reply = "none"  BY DEF Admin!AssignForm
  <1>4. Admin!TypeOK'
    BY <1>2 DEF Admin!AssignForm, UsersInv, Admin!TypeOK, Admin!finding
  <1>5. (Told /\ Bare /\ Admin!BannerIsTrue)'
    BY <1>3 DEF Admin!AssignForm, Told, Bare, Admin!BannerIsTrue
  <1> QED  BY <1>1, <1>4, <1>5, AssigningKeepsFinding DEF UsersInv

LEMMA ServeAssignKeeps == ASSUME UsersInv, Admin!ServeAssign PROVE UsersInv'
  <1>1. UNCHANGED Admin!finding  BY DEF Admin!ServeAssign
  <1>2. /\ assign.user \in Users /\ assign.role \in {Admin!System, NoRole}
        /\ assign = [user |-> assign.user, role |-> assign.role, reply |-> assign.reply]
    BY DEF Admin!ServeAssign, UsersInv, Admin!TypeOK
  <1>3. PICK s \in {"ok", "refused"} : assign' = [assign EXCEPT !.reply = s]
    BY DEF Admin!ServeAssign
  <1>4. assign' = [user |-> assign.user, role |-> assign.role, reply |-> s]
    BY <1>2, <1>3
  <1>5. CASE UNCHANGED <<roles, since>> /\ s = "refused"
    <2>1. assign'.reply = "refused"  BY <1>4, <1>5
    <2> QED
      BY <1>1, <1>2, <1>4, <1>5, <2>1, AssigningKeepsFinding
      DEF Admin!ServeAssign, UsersInv, Admin!TypeOK, Told, Bare, Admin!BannerIsTrue, Admin!finding
  <1>6. CASE roles' = [roles EXCEPT ![assign.user] = assign.role] /\ since' = {}
    <2>1. roles'[assign.user] = assign.role /\ roles' \in [Users -> {Admin!System, NoRole}]
      BY <1>2, <1>6 DEF UsersInv, Admin!TypeOK
    <2>2. outcome' = Nothing  BY DEF Admin!ServeAssign, UsersInv, Bare
    <2>3. Admin!TypeOK'
      BY <1>1, <1>2, <1>4, <2>1 DEF Admin!ServeAssign, UsersInv, Admin!TypeOK, Admin!finding
    <2>4. (Told /\ Bare /\ Admin!BannerIsTrue)'
      BY <1>4, <2>1, <2>2 DEF Told, Bare, Admin!BannerIsTrue
    <2> QED  BY <1>1, <2>3, <2>4, AssigningKeepsFinding DEF UsersInv
  <1>7. \/ UNCHANGED <<roles, since>> /\ s = "refused"
        \/ roles' = [roles EXCEPT ![assign.user] = assign.role] /\ since' = {}
    <2>1. CASE UNCHANGED <<roles, since>> /\ assign' = [assign EXCEPT !.reply = "refused"]
      <3>1. assign'.reply = "refused"  BY <1>2, <2>1
      <3>2. assign'.reply = s  BY <1>4
      <3> QED  BY <2>1, <3>1, <3>2
    <2> QED  BY <2>1 DEF Admin!ServeAssign
  <1> QED  BY <1>5, <1>6, <1>7

LEMMA HandleAssignKeeps == ASSUME UsersInv, Admin!HandleAssign PROVE UsersInv'
  <1>1. UNCHANGED Admin!finding  BY DEF Admin!HandleAssign
  <1>2. assign.user \in Users /\ assign.role \in {Admin!System, NoRole} /\ assign' = Nothing
    BY DEF Admin!HandleAssign, UsersInv, Admin!TypeOK
  <1>3. CASE assign.reply = "ok"
    <2>1. outcome' = [user |-> assign.user, role |-> assign.role]  BY <1>3 DEF Admin!HandleAssign
    <2>2. assign.user \notin since' => roles'[assign.user] = assign.role
      BY <1>3 DEF Admin!HandleAssign, UsersInv, Told
    <2>3. outcome' \in Admin!Outcome  BY <1>2, <2>1 DEF Admin!Outcome
    <2>4. Admin!TypeOK'
      BY <1>1, <1>2, <1>3, <2>3 DEF Admin!HandleAssign, UsersInv, Admin!TypeOK, Admin!finding
    <2>5. (Told /\ Bare /\ Admin!BannerIsTrue)'
      BY <1>2, <2>1, <2>2 DEF Told, Bare, Admin!BannerIsTrue
    <2> QED  BY <1>1, <2>4, <2>5, AssigningKeepsFinding DEF UsersInv
  <1>4. CASE assign.reply = "refused"
    <2>1. outcome' = Nothing  BY <1>4 DEF Admin!HandleAssign, UsersInv, Bare
    <2>2. Admin!TypeOK'
      BY <1>1, <1>2, <1>4 DEF Admin!HandleAssign, UsersInv, Admin!TypeOK, Admin!finding
    <2>3. (Told /\ Bare /\ Admin!BannerIsTrue)'
      BY <1>2, <2>1 DEF Told, Bare, Admin!BannerIsTrue
    <2> QED  BY <1>1, <2>2, <2>3, AssigningKeepsFinding DEF UsersInv
  <1> QED  BY <1>3, <1>4 DEF Admin!HandleAssign

-----------------------------------------------------------------------------
(* The page is left and opened, and others assign roles. *)

LEMMA VisitKeeps == ASSUME UsersInv, Admin!Leave \/ Admin!Open PROVE UsersInv'
  <1>1. CASE Admin!Leave
    BY <1>1 DEF Admin!Leave, UsersInv, Admin!TypeOK, Admin!PageIsOfTable, Told, Bare,
       Admin!BannerIsTrue, Admin!finding, Admin!assigning
  <1>2. CASE Admin!Open
    BY <1>2 DEF Admin!Open, UsersInv, Admin!TypeOK, Admin!PageIsOfTable, Told, Bare,
       Admin!BannerIsTrue
  <1> QED  BY <1>1, <1>2

LEMMA ElsewhereKeeps == ASSUME UsersInv, Admin!Elsewhere PROVE UsersInv'
  <1>1. PICK u \in Users, r \in {Admin!System, NoRole} :
          roles' = [roles EXCEPT ![u] = r] /\ since' = since \cup {u}
    BY DEF Admin!Elsewhere
  <1>2. UNCHANGED <<usersView, Admin!finding, Admin!assigning>>  BY DEF Admin!Elsewhere
  <1>3. \A v \in Users : v \notin since' => v \notin since /\ roles'[v] = roles[v]
    BY <1>1 DEF UsersInv, Admin!TypeOK
  <1>4. Admin!TypeOK'
    BY <1>1, <1>2 DEF UsersInv, Admin!TypeOK, Admin!finding, Admin!assigning
  <1>5. Told'
    <2>1. assign # Nothing => assign.user \in Users  BY DEF UsersInv, Admin!TypeOK
    <2> QED  BY <1>2, <1>3, <2>1 DEF UsersInv, Told, Admin!assigning
  <1>6. Bare' /\ Admin!BannerIsTrue'
    <2>1. outcome # Nothing => outcome.user \in Users
      BY DEF UsersInv, Admin!TypeOK, Admin!Outcome
    <2> QED  BY <1>2, <1>3, <2>1 DEF UsersInv, Bare, Admin!BannerIsTrue, Admin!assigning
  <1> QED  BY <1>2, <1>4, <1>5, <1>6, AssigningKeepsFinding DEF UsersInv

-----------------------------------------------------------------------------
LEMMA UsersNext == UsersInv /\ (Admin!Next \/ UNCHANGED Admin!vars) => UsersInv'
  <1> SUFFICES ASSUME UsersInv, (Admin!Next \/ UNCHANGED Admin!vars) PROVE UsersInv'  OBVIOUS
  <1>1. CASE UNCHANGED Admin!vars
    BY <1>1 DEF Admin!vars, Admin!finding, Admin!assigning, UsersInv, Admin!TypeOK,
       Admin!PageIsOfTable, Told, Bare, Admin!BannerIsTrue
  <1> QED
    BY <1>1, FindingKeeps, SelectRowKeeps, AssignFormKeeps, ServeAssignKeeps, HandleAssignKeeps,
       VisitKeeps, ElsewhereKeeps
    DEF Admin!Next

-----------------------------------------------------------------------------
(***************************************************************************)
(* The profile page (ProfilePage)                                          *)
(*                                                                         *)
(* Every form of the section is inert while loading, so one request is in  *)
(* flight at most, although Cancel changes the form under it.  What a late *)
(* answer finds therefore follows from the kind of that one request.       *)
(***************************************************************************)

InFlight(c) == profileCalls[c] # Profile!Idle

\* One request in flight: the effect's while the page loads, or one that loading tells of.
OneAtATime ==
    /\ \A c, d \in Slots : InFlight(c) /\ InFlight(d) => c = d
    /\ \A c \in Slots : InFlight(c) => \/ loading /\ profileView = "shown"
                                       \/ profileCalls[c].op = "me" /\ profileView = "loading"

\* What the secret and the form are while c is in flight, and what its answer says.
Fits(c) ==
    /\ profileCalls[c].op \in {"setup", "disable"} => mfaStep # "setup"
    /\ profileCalls[c].op = "setup" /\ profileCalls[c].reply = "ok" /\ ~overwritten
          => secret = profileCalls[c].key
    /\ profileCalls[c].op = "me" /\ profileCalls[c].reply = "ok" /\ ~lost
          => profileCalls[c].status = enabled

\* c is about to tell the page what it does not know yet.
Brings(c) ==
    \/ profileCalls[c].op \in {"enable", "disable"} /\ profileCalls[c].reply = "ok"
    \/ profileCalls[c].op = "me" /\ profileCalls[c].reply # "refused"

\* The status shown is so, or the request that will correct it is on its way.
StatusFollows == profileView = "shown" /\ ~lost => mfaShown = enabled \/ \E c \in Slots : Brings(c)

ProfileInv ==
    /\ Profile!TypeOK
    /\ OneAtATime
    /\ \A c \in Slots : Fits(c)
    /\ Profile!ShownSecretIsCurrent
    /\ StatusFollows

LEMMA ProfileInit == Profile!Init => ProfileInv
  <1> SUFFICES ASSUME Profile!Init PROVE ProfileInv  OBVIOUS
  <1>1. PICK c \in Slots :
          profileCalls = [d \in Slots |-> IF d = c THEN Profile!Request("me", Nothing) ELSE Profile!Idle]
    BY DEF Profile!Init
  <1>2. Profile!TypeOK
    BY <1>1 DEF Profile!Init, Profile!TypeOK, Profile!Call, Profile!Request
  <1>3. OneAtATime /\ \A d \in Slots : Fits(d)
    BY <1>1 DEF Profile!Init, OneAtATime, InFlight, Fits, Profile!Idle, Profile!Request
  <1>4. Profile!ShownSecretIsCurrent /\ StatusFollows
    BY DEF Profile!Init, Profile!ShownSecretIsCurrent, StatusFollows
  <1> QED  BY <1>2, <1>3, <1>4 DEF ProfileInv

-----------------------------------------------------------------------------
(* A request of the page in flight, and no other *)

LEMMA Kinds ==
    ASSUME Profile!TypeOK, NEW c \in Slots, profileCalls[c].op # "idle"
    PROVE  /\ profileCalls[c] \in Profile!Call /\ InFlight(c)
           /\ profileCalls[c] = [op |-> profileCalls[c].op, key |-> profileCalls[c].key, reply |-> profileCalls[c].reply,
                             status |-> profileCalls[c].status]
  <1>1. profileCalls[c] \in Profile!Call \cup {Profile!Idle}  BY DEF Profile!TypeOK
  <1>2. Profile!Idle.op = "idle"  BY DEF Profile!Idle, Profile!Request
  <1>3. profileCalls[c] \in Profile!Call  BY <1>1, <1>2
  <1> QED  BY <1>2, <1>3 DEF Profile!Call, InFlight

LEMMA ProfileAlone ==
    ASSUME OneAtATime, NEW c \in Slots, InFlight(c), NEW d \in Slots, d # c
    PROVE  profileCalls[d] = Profile!Idle
  BY DEF OneAtATime, InFlight

\* What a step must show that answers c with row, or ends it (row = Idle).
LEMMA OnlyOneChanges ==
    ASSUME ProfileInv, NEW c \in Slots, InFlight(c), NEW row \in Profile!Call \cup {Profile!Idle},
           profileCalls' = [profileCalls EXCEPT ![c] = row],
           row # Profile!Idle => /\ row.op \in {profileCalls[c].op, "me"}
                                 /\ UNCHANGED <<loading, profileView>>
    PROVE  OneAtATime' /\ \A d \in Slots \ {c} : Fits(d)'
  <1>1. profileCalls'[c] = row /\ \A d \in Slots \ {c} : profileCalls'[d] = Profile!Idle
    BY ProfileAlone DEF ProfileInv, Profile!TypeOK
  <1>2. \A d \in Slots \ {c} : Fits(d)'
    BY <1>1 DEF Fits, Profile!Idle, Profile!Request
  <1>3. \/ loading /\ profileView = "shown"
        \/ profileCalls[c].op = "me" /\ profileView = "loading"
    BY DEF ProfileInv, OneAtATime
  <1>4. OneAtATime'  BY <1>1, <1>3 DEF OneAtATime, InFlight
  <1> QED  BY <1>2, <1>4

-----------------------------------------------------------------------------
(* The forms *)

LEMMA ProfileLoadKeeps == ASSUME ProfileInv, NEW c \in Slots, Profile!Load(c) PROVE ProfileInv'
  <1>1. /\ profileView = "loading" /\ profileCalls[c].op = "me"
        /\ profileCalls' = [profileCalls EXCEPT ![c] = Profile!Idle]
        /\ UNCHANGED <<enabled, secret, made, mfaStep, setupData, loading, lost, overwritten>>
    BY DEF Profile!Load, Profile!account, Profile!past
  <1>2. InFlight(c) /\ profileCalls[c] \in Profile!Call  BY <1>1, Kinds DEF ProfileInv
  <1>3. OneAtATime' /\ \A d \in Slots \ {c} : Fits(d)'  BY <1>1, <1>2, OnlyOneChanges
  <1>4. profileCalls'[c] = Profile!Idle /\ profileCalls' \in [Slots -> Profile!Call \cup {Profile!Idle}]
    BY <1>1 DEF ProfileInv, Profile!TypeOK
  <1>5. Fits(c)'  BY <1>4 DEF Fits, Profile!Idle, Profile!Request
  <1>6. \/ profileView' = "shown" /\ mfaShown' = profileCalls[c].status /\ profileCalls[c].reply = "ok"
        \/ profileView' \in {"failed", "left"} /\ UNCHANGED mfaShown
    BY DEF Profile!Load
  <1>7. Profile!TypeOK'
    BY <1>1, <1>2, <1>4, <1>6 DEF ProfileInv, Profile!TypeOK, Profile!Call
  <1>8. Profile!ShownSecretIsCurrent'  BY <1>1 DEF ProfileInv, Profile!ShownSecretIsCurrent
  <1>9. StatusFollows'  BY <1>1, <1>6 DEF ProfileInv, Fits, StatusFollows
  <1> QED  BY <1>3, <1>5, <1>7, <1>8, <1>9 DEF ProfileInv

\* The page is left and opened.
LEMMA ProfileVisitKeeps == ASSUME ProfileInv, Profile!Leave \/ Profile!Open PROVE ProfileInv'
  <1>1. CASE Profile!Leave
    <2>1. /\ profileView' = "left" /\ mfaShown' = FALSE /\ mfaStep' = "idle" /\ setupData' = Nothing
          /\ loading' = FALSE /\ profileCalls' = [c \in Slots |-> Profile!Idle]
          /\ UNCHANGED <<enabled, secret, made, lost, overwritten>>
      BY <1>1 DEF Profile!Leave, Profile!Blank, Profile!account, Profile!past
    <2>2. Profile!TypeOK'  BY <2>1 DEF ProfileInv, Profile!TypeOK
    <2>3. OneAtATime' /\ \A c \in Slots : Fits(c)'
      BY <2>1 DEF OneAtATime, InFlight, Fits, Profile!Idle, Profile!Request
    <2>4. Profile!ShownSecretIsCurrent' /\ StatusFollows'
      BY <2>1 DEF Profile!ShownSecretIsCurrent, StatusFollows
    <2> QED  BY <2>2, <2>3, <2>4 DEF ProfileInv
  <1>2. CASE Profile!Open
    <2>1. PICK c \in Slots : profileCalls' = [profileCalls EXCEPT ![c] = Profile!Request("me", Nothing)]
      BY <1>2 DEF Profile!Open
    <2>2. /\ profileView = "left" /\ profileView' = "loading"
          /\ UNCHANGED <<enabled, secret, made, mfaShown, mfaStep, setupData, loading, lost, overwritten>>
      BY <1>2 DEF Profile!Open, Profile!account, Profile!past
    <2>3. \A d \in Slots : profileCalls[d] = Profile!Idle
      BY <2>2 DEF ProfileInv, OneAtATime, InFlight
    <2>4. /\ profileCalls'[c] = Profile!Request("me", Nothing)
          /\ \A d \in Slots \ {c} : profileCalls'[d] = Profile!Idle
          /\ profileCalls' \in [Slots -> Profile!Call \cup {Profile!Idle}]
      <3>1. Profile!Request("me", Nothing) \in Profile!Call  BY DEF Profile!Request, Profile!Call
      <3> QED  BY <2>1, <2>3, <3>1 DEF ProfileInv, Profile!TypeOK
    <2>5. Profile!TypeOK'  BY <2>2, <2>4 DEF ProfileInv, Profile!TypeOK
    <2>6. OneAtATime' /\ \A d \in Slots : Fits(d)'
      BY <2>2, <2>4 DEF OneAtATime, InFlight, Fits, Profile!Idle, Profile!Request
    <2>7. Profile!ShownSecretIsCurrent' /\ StatusFollows'
      BY <2>2 DEF ProfileInv, Profile!ShownSecretIsCurrent, StatusFollows
    <2> QED  BY <2>5, <2>6, <2>7 DEF ProfileInv
  <1> QED  BY <1>1, <1>2

\* Others write the row.
LEMMA ProfileElsewhereKeeps == ASSUME ProfileInv, Profile!Elsewhere PROVE ProfileInv'
  <1>1. /\ enabled' \in BOOLEAN /\ secret' \in Secrets \cup {Nothing} /\ made' \subseteq Secrets
        /\ lost' = TRUE /\ overwritten' = TRUE
        /\ UNCHANGED <<profileView, mfaShown, mfaStep, setupData, loading, profileCalls>>
    BY DEF Profile!Elsewhere, Profile!section, ProfileInv, Profile!TypeOK
  <1>2. Profile!TypeOK'  BY <1>1 DEF ProfileInv, Profile!TypeOK
  <1>3. OneAtATime' /\ \A c \in Slots : Fits(c)'
    BY <1>1 DEF ProfileInv, OneAtATime, InFlight, Fits
  <1>4. Profile!ShownSecretIsCurrent' /\ StatusFollows'
    BY <1>1 DEF Profile!ShownSecretIsCurrent, StatusFollows
  <1> QED  BY <1>2, <1>3, <1>4 DEF ProfileInv

LEMMA ProfileSendKeeps ==
    ASSUME ProfileInv, NEW op \in {"setup", "enable", "disable"}, NEW key \in Secrets \cup {Nothing},
           profileView = "shown", ~loading, op \in {"setup", "disable"} => mfaStep # "setup",
           Profile!Send(op, key)
    PROVE  ProfileInv'
  <1>1. PICK c \in Slots : profileCalls[c] = Profile!Idle
                               /\ profileCalls' = [profileCalls EXCEPT ![c] = Profile!Request(op, key)]
    BY DEF Profile!Send
  <1>2. /\ profileCalls'[c] = Profile!Request(op, key)
        /\ \A d \in Slots \ {c} : profileCalls'[d] = Profile!Idle
    BY <1>1 DEF ProfileInv, Profile!TypeOK, OneAtATime, InFlight
  <1>3. Profile!Request(op, key) \in Profile!Call  BY DEF Profile!Request, Profile!Call
  <1>4. Profile!TypeOK'
    <2>1. profileCalls' \in [Slots -> Profile!Call \cup {Profile!Idle}]
      BY <1>1, <1>3 DEF ProfileInv, Profile!TypeOK
    <2> QED  BY <2>1 DEF Profile!Send, ProfileInv, Profile!TypeOK, Profile!account, Profile!past
  <1>5. OneAtATime'  BY <1>2 DEF Profile!Send, OneAtATime, InFlight
  <1>6. \A d \in Slots : Fits(d)'
    <2>1. Fits(c)'
      <3>1. profileCalls'[c].op = op /\ profileCalls'[c].reply = "none"
        BY <1>2 DEF Profile!Request
      <3>2. op # "me" /\ (op \in {"setup", "disable"} => mfaStep' # "setup")
        BY DEF Profile!Send
      <3> QED  BY <3>1, <3>2 DEF Fits
    <2>2. \A d \in Slots \ {c} : Fits(d)'
      BY <1>2 DEF Fits, Profile!Idle, Profile!Request
    <2> QED  BY <2>1, <2>2
  <1>7. Profile!ShownSecretIsCurrent'
    BY DEF Profile!Send, ProfileInv, Profile!ShownSecretIsCurrent, Profile!account, Profile!past
  <1>8. StatusFollows'
    <2>1. ~\E d \in Slots : Brings(d)
      BY DEF ProfileInv, OneAtATime, InFlight, Brings, Profile!Idle, Profile!Request
    <2> QED  BY <2>1 DEF Profile!Send, ProfileInv, StatusFollows, Profile!account, Profile!past
  <1> QED  BY <1>4, <1>5, <1>6, <1>7, <1>8 DEF ProfileInv

\* The steps of the section that send nothing.
LEMMA FormKeeps ==
    ASSUME ProfileInv, Profile!DisableButton \/ Profile!HandleCancelSetup
    PROVE  ProfileInv'
  <1>1. /\ mfaStep' # "setup" /\ mfaStep' \in {"idle", "setup", "disabling"}
        /\ UNCHANGED <<Profile!account, profileView, mfaShown, loading, profileCalls, lost, overwritten>>
        /\ setupData' \in {setupData, Nothing}
    BY DEF Profile!DisableButton, Profile!HandleCancelSetup, Profile!past
  <1>2. Profile!TypeOK'  BY <1>1 DEF ProfileInv, Profile!TypeOK, Profile!account
  <1>3. OneAtATime' /\ Profile!ShownSecretIsCurrent'
    BY <1>1 DEF ProfileInv, OneAtATime, InFlight, Profile!ShownSecretIsCurrent
  <1>4. \A c \in Slots : Fits(c)'  BY <1>1 DEF ProfileInv, Fits, Profile!account
  <1>5. StatusFollows'  BY <1>1 DEF ProfileInv, StatusFollows, Brings, Profile!account
  <1> QED  BY <1>2, <1>3, <1>4, <1>5 DEF ProfileInv

LEMMA SectionKeeps == ASSUME ProfileInv, Profile!Section PROVE ProfileInv'
  <1>1. CASE Profile!StartButton
    BY <1>1, ProfileSendKeeps DEF Profile!StartButton
  <1>2. CASE Profile!EnableForm
    BY <1>2, ProfileSendKeeps DEF Profile!EnableForm, ProfileInv, Profile!TypeOK
  <1>3. CASE Profile!DisableForm
    BY <1>3, ProfileSendKeeps DEF Profile!DisableForm, ProfileInv, Profile!TypeOK
  <1> QED  BY <1>1, <1>2, <1>3, FormKeeps DEF Profile!Section

-----------------------------------------------------------------------------
(* The server *)

\* A request is answered: with reply, and with key in the answer to a setup.
LEMMA ProfileAnswerKeeps ==
    ASSUME ProfileInv, NEW c \in Slots, InFlight(c),
           NEW key \in Secrets \cup {Nothing}, NEW reply \in {"none", "ok", "refused"},
           NEW status \in BOOLEAN,
           profileCalls' = [profileCalls EXCEPT ![c]
                 = [op |-> profileCalls[c].op, key |-> key, reply |-> reply, status |-> status]],
           UNCHANGED Profile!section
    PROVE  /\ profileCalls' \in [Slots -> Profile!Call \cup {Profile!Idle}]
           /\ profileCalls'[c] = [op |-> profileCalls[c].op, key |-> key, reply |-> reply, status |-> status]
           /\ OneAtATime' /\ \A d \in Slots \ {c} : Fits(d)'
           /\ profileCalls[c].op \in {"setup", "disable"} => mfaStep # "setup"
  <1>1. profileCalls[c] \in Profile!Call  BY DEF InFlight, ProfileInv, Profile!TypeOK
  <1>2. [op |-> profileCalls[c].op, key |-> key, reply |-> reply, status |-> status] \in Profile!Call
    BY <1>1 DEF Profile!Call
  <1>3. OneAtATime' /\ \A d \in Slots \ {c} : Fits(d)'
    BY <1>2, OnlyOneChanges DEF Profile!section
  <1> QED  BY <1>2, <1>3 DEF ProfileInv, Profile!TypeOK, Fits

LEMMA CarryOutKeeps ==
    ASSUME ProfileInv, NEW c \in Slots, InFlight(c), profileCalls[c].reply = "none", Profile!CarryOut(c),
           lost' = (lost /\ profileCalls[c].op # "me"),
           overwritten' = (overwritten /\ profileCalls[c].op # "setup"),
           UNCHANGED Profile!section
    PROVE  ProfileInv'
  <1>1. /\ profileCalls[c] \in Profile!Call
        /\ profileCalls[c] = [op |-> profileCalls[c].op, key |-> profileCalls[c].key,
                               reply |-> profileCalls[c].reply, status |-> profileCalls[c].status]
        /\ profileCalls[c].key \in Secrets \cup {Nothing} /\ profileCalls[c].status \in BOOLEAN
    BY DEF InFlight, ProfileInv, Profile!TypeOK, Profile!Call
  <1>2. lost' \in BOOLEAN /\ overwritten' \in BOOLEAN  OBVIOUS
  <1>3. CASE profileCalls[c].op = "setup"
    <2>1. PICK s \in Secrets \ made :
            /\ secret' = s /\ made' = made \cup {s}
            /\ profileCalls' = [profileCalls EXCEPT ![c].key = s, ![c].reply = "ok"]
            /\ UNCHANGED enabled
      BY <1>3 DEF Profile!CarryOut
    <2>2. profileCalls' = [profileCalls EXCEPT ![c]
                = [op |-> profileCalls[c].op, key |-> s, reply |-> "ok", status |-> profileCalls[c].status]]
      BY <1>1, <2>1 DEF ProfileInv, Profile!TypeOK
    <2>3. /\ profileCalls' \in [Slots -> Profile!Call \cup {Profile!Idle}]
          /\ profileCalls'[c] = [op |-> profileCalls[c].op, key |-> s, reply |-> "ok", status |-> profileCalls[c].status]
          /\ OneAtATime' /\ \A d \in Slots \ {c} : Fits(d)'
          /\ mfaStep # "setup"
      BY <1>1, <1>3, <2>2, ProfileAnswerKeeps
    <2>4. Profile!TypeOK'  BY <1>2, <2>1, <2>3 DEF ProfileInv, Profile!TypeOK, Profile!section
    <2>5. Fits(c)' /\ Profile!ShownSecretIsCurrent'
      BY <1>3, <2>1, <2>3 DEF Fits, Profile!ShownSecretIsCurrent, Profile!section
    <2>6. ~\E d \in Slots : Brings(d)
      BY <1>3, ProfileAlone DEF ProfileInv, Brings, Profile!Idle, Profile!Request
    <2>7. StatusFollows'  BY <1>3, <2>1, <2>6 DEF ProfileInv, StatusFollows, Profile!section
    <2> QED  BY <2>3, <2>4, <2>5, <2>7 DEF ProfileInv
  <1>4. CASE profileCalls[c].op \in {"enable", "disable", "me"}
    <2> DEFINE status == IF profileCalls[c].op = "me" THEN enabled ELSE profileCalls[c].status
    <2>0. status \in BOOLEAN  BY <1>1 DEF ProfileInv, Profile!TypeOK
    <2>1. profileCalls' = [profileCalls EXCEPT ![c]
                = [op |-> profileCalls[c].op, key |-> profileCalls[c].key, reply |-> "ok", status |-> status]]
      BY <1>1, <1>4 DEF Profile!CarryOut, ProfileInv, Profile!TypeOK
    <2>2. /\ profileCalls' \in [Slots -> Profile!Call \cup {Profile!Idle}]
          /\ profileCalls'[c] = [op |-> profileCalls[c].op, key |-> profileCalls[c].key, reply |-> "ok",
                                 status |-> status]
          /\ OneAtATime' /\ \A d \in Slots \ {c} : Fits(d)'
          /\ profileCalls[c].op = "disable" => mfaStep # "setup"
      BY <1>1, <2>0, <2>1, ProfileAnswerKeeps
    <2>3. /\ enabled' \in BOOLEAN /\ secret' \in Secrets \cup {Nothing} /\ UNCHANGED made
          /\ profileCalls[c].op # "disable" => UNCHANGED secret
          /\ profileCalls[c].op = "me" => UNCHANGED enabled
      BY <1>4 DEF Profile!CarryOut, ProfileInv, Profile!TypeOK, Profile!account
    <2>4. Profile!TypeOK'  BY <1>2, <2>2, <2>3 DEF ProfileInv, Profile!TypeOK, Profile!section
    <2>5. Fits(c)'  BY <1>4, <2>2, <2>3 DEF Fits, Profile!section
    <2>6. Profile!ShownSecretIsCurrent'
      BY <1>4, <2>2, <2>3 DEF ProfileInv, Profile!ShownSecretIsCurrent, Profile!section
    <2>7. Brings(c)'  BY <1>4, <2>2 DEF Brings
    <2>8. StatusFollows'  BY <2>7 DEF StatusFollows
    <2> QED  BY <2>2, <2>4, <2>5, <2>6, <2>8 DEF ProfileInv
  <1> QED  BY <1>3, <1>4 DEF Profile!CarryOut

\* The request is refused, or its answer lost: either is told the history, but for
\* a change that was never made.
LEMMA RefusalKeeps ==
    ASSUME ProfileInv, NEW c \in Slots, InFlight(c),
           profileCalls' = [profileCalls EXCEPT ![c].reply = "refused"],
           lost' \in BOOLEAN, lost => lost', Brings(c) => lost',
           UNCHANGED <<Profile!account, Profile!section, overwritten>>
    PROVE  ProfileInv'
  <1>1. /\ profileCalls[c] \in Profile!Call
        /\ profileCalls[c] = [op |-> profileCalls[c].op, key |-> profileCalls[c].key,
                               reply |-> profileCalls[c].reply, status |-> profileCalls[c].status]
        /\ profileCalls[c].key \in Secrets \cup {Nothing} /\ profileCalls[c].status \in BOOLEAN
    BY DEF InFlight, ProfileInv, Profile!TypeOK, Profile!Call
  <1>2. profileCalls' = [profileCalls EXCEPT ![c]
              = [op |-> profileCalls[c].op, key |-> profileCalls[c].key, reply |-> "refused",
                 status |-> profileCalls[c].status]]
    <2>1. [profileCalls[c] EXCEPT !.reply = "refused"]
            = [op |-> profileCalls[c].op, key |-> profileCalls[c].key, reply |-> "refused",
                 status |-> profileCalls[c].status]
      BY <1>1
    <2> QED  BY <2>1
  <1>3. /\ profileCalls' \in [Slots -> Profile!Call \cup {Profile!Idle}]
        /\ profileCalls'[c] = [op |-> profileCalls[c].op, key |-> profileCalls[c].key, reply |-> "refused",
                 status |-> profileCalls[c].status]
        /\ OneAtATime' /\ \A d \in Slots \ {c} : Fits(d)'
        /\ profileCalls[c].op \in {"setup", "disable"} => mfaStep # "setup"
    BY <1>1, <1>2, ProfileAnswerKeeps
  <1>4. Profile!TypeOK'  BY <1>3 DEF ProfileInv, Profile!TypeOK, Profile!account, Profile!section
  <1>5. Fits(c)'  BY <1>3 DEF Fits, Profile!section
  <1>6. Profile!ShownSecretIsCurrent'
    BY DEF ProfileInv, Profile!ShownSecretIsCurrent, Profile!account, Profile!section
  <1>7. StatusFollows'
    <2>1. \A d \in Slots \ {c} : ~Brings(d)
      BY ProfileAlone DEF ProfileInv, Brings, Profile!Idle, Profile!Request
    <2> QED  BY <2>1 DEF ProfileInv, StatusFollows, Profile!account, Profile!section
  <1> QED  BY <1>3, <1>4, <1>5, <1>6, <1>7 DEF ProfileInv

LEMMA ProfileServeKeeps == ASSUME ProfileInv, NEW c \in Slots, Profile!Serve(c) PROVE ProfileInv'
  <1>1. InFlight(c) /\ profileCalls[c].reply = "none"  BY DEF Profile!Serve, InFlight
  <1>2. CASE /\ Profile!CarryOut(c)
             /\ lost' = (lost /\ profileCalls[c].op # "me")
             /\ overwritten' = (overwritten /\ profileCalls[c].op # "setup")
             /\ UNCHANGED Profile!section
    BY <1>1, <1>2, CarryOutKeeps
  <1>3. CASE /\ profileCalls' = [profileCalls EXCEPT ![c].reply = "refused"]
             /\ lost' = (lost \/ profileCalls[c].op = "me")
             /\ UNCHANGED <<Profile!account, Profile!section, overwritten>>
    <2>1. Brings(c) => lost'  BY <1>1, <1>3 DEF Brings
    <2>2. lost' \in BOOLEAN /\ (lost => lost')  BY <1>3 DEF ProfileInv, Profile!TypeOK
    <2> QED  BY <1>1, <1>3, <2>1, <2>2, RefusalKeeps
  <1> QED  BY <1>2, <1>3 DEF Profile!Serve

LEMMA LoseKeeps == ASSUME ProfileInv, NEW c \in Slots, Profile!Lose(c) PROVE ProfileInv'
  <1>1. InFlight(c)  BY DEF Profile!Lose, InFlight, Profile!Idle, Profile!Request
  <1>2. lost' = TRUE /\ profileCalls' = [profileCalls EXCEPT ![c].reply = "refused"]
              /\ UNCHANGED <<Profile!account, Profile!section, overwritten>>
    BY DEF Profile!Lose
  <1> QED  BY <1>1, <1>2, RefusalKeeps

-----------------------------------------------------------------------------
(* The rest of the handlers *)

\* The request is over: nothing is in flight.
LEMMA Ended ==
    ASSUME ProfileInv, NEW c \in Slots, InFlight(c), Profile!Finally(c)
    PROVE  /\ profileCalls' \in [Slots -> Profile!Call \cup {Profile!Idle}] /\ loading' \in BOOLEAN
           /\ OneAtATime' /\ \A d \in Slots : Fits(d)'
           /\ \A d \in Slots : d # c => ~Brings(d)
  <1>1. Profile!Idle \in Profile!Call \cup {Profile!Idle}  OBVIOUS
  <1>2. profileCalls' = [profileCalls EXCEPT ![c] = Profile!Idle]  BY DEF Profile!Finally
  <1>3. profileCalls'[c] = Profile!Idle  BY <1>2 DEF ProfileInv, Profile!TypeOK
  <1>4. Fits(c)'  BY <1>3 DEF Fits, Profile!Idle, Profile!Request
  <1>5. OneAtATime' /\ \A d \in Slots \ {c} : Fits(d)'
    BY <1>2, OnlyOneChanges
  <1>6. \A d \in Slots : d # c => ~Brings(d)
    BY ProfileAlone DEF ProfileInv, Brings, Profile!Idle, Profile!Request
  <1>7. profileCalls' \in [Slots -> Profile!Call \cup {Profile!Idle}] /\ loading' \in BOOLEAN
    BY <1>2 DEF Profile!Finally, ProfileInv, Profile!TypeOK
  <1> QED  BY <1>4, <1>5, <1>6, <1>7

LEMMA HandlersKeep ==
    ASSUME ProfileInv, NEW c \in Slots, Profile!HandleStartSetup(c) \/ Profile!UserReloaded(c)
          \/ Profile!Failed(c)
    PROVE  ProfileInv'
  <1>1. InFlight(c) /\ Profile!Finally(c)
    BY DEF Profile!HandleStartSetup, Profile!UserReloaded, Profile!Failed, Profile!Answered,
       InFlight, Profile!Idle, Profile!Request
  <1>2. /\ profileCalls' \in [Slots -> Profile!Call \cup {Profile!Idle}] /\ loading' \in BOOLEAN
        /\ OneAtATime' /\ \A d \in Slots : Fits(d)'
        /\ \A d \in Slots : d # c => ~Brings(d)
    BY <1>1, Ended
  <1>3. CASE Profile!HandleStartSetup(c)
    <2>1. /\ profileCalls[c].op = "setup" /\ setupData' = profileCalls[c].key /\ mfaStep' = "setup"
          /\ UNCHANGED <<Profile!account, profileView, mfaShown, lost, overwritten>>
      BY <1>3 DEF Profile!HandleStartSetup, Profile!Answered, Profile!past
    <2>2. (~overwritten => secret = profileCalls[c].key) /\ profileCalls[c].key \in Secrets \cup {Nothing}
      BY <1>3, <2>1, Kinds DEF Profile!HandleStartSetup, Profile!Answered, ProfileInv, Fits,
         Profile!Call
    <2>3. Profile!TypeOK'  BY <1>2, <2>1, <2>2 DEF ProfileInv, Profile!TypeOK, Profile!account
    <2>4. Profile!ShownSecretIsCurrent'
      BY <2>1, <2>2 DEF Profile!ShownSecretIsCurrent, Profile!account
    <2>5. StatusFollows'
      BY <1>2, <2>1 DEF ProfileInv, StatusFollows, Brings, Profile!account
    <2> QED  BY <1>2, <2>3, <2>4, <2>5 DEF ProfileInv
  <1>4. CASE Profile!UserReloaded(c)
    <2>1. /\ mfaShown' = profileCalls[c].status /\ mfaStep' = "idle" /\ setupData' = Nothing
          /\ UNCHANGED <<Profile!account, profileView, lost, overwritten>>
          /\ profileCalls[c].op = "me" /\ profileCalls[c].reply = "ok"
      BY <1>4 DEF Profile!UserReloaded, Profile!Answered, Profile!past
    <2>4. profileCalls[c].status \in BOOLEAN /\ (~lost => profileCalls[c].status = enabled)
      BY <2>1, Kinds DEF ProfileInv, Fits, Profile!Call
    <2>2. Profile!TypeOK'  BY <1>2, <2>1, <2>4 DEF ProfileInv, Profile!TypeOK, Profile!account
    <2>3. Profile!ShownSecretIsCurrent' /\ StatusFollows'
      BY <2>1, <2>4 DEF Profile!ShownSecretIsCurrent, StatusFollows, Profile!account
    <2> QED  BY <1>2, <2>2, <2>3 DEF ProfileInv
  <1>5. CASE Profile!Failed(c)
    <2>1. /\ profileCalls[c].reply = "refused"
          /\ UNCHANGED <<Profile!account, profileView, mfaShown, mfaStep, setupData, lost, overwritten>>
      BY <1>5 DEF Profile!Failed, Profile!past
    <2>2. Profile!TypeOK'  BY <1>2, <2>1 DEF ProfileInv, Profile!TypeOK, Profile!account
    <2>3. Profile!ShownSecretIsCurrent'
      BY <2>1 DEF ProfileInv, Profile!ShownSecretIsCurrent, Profile!account
    <2>4. ~Brings(c)  BY <2>1 DEF Brings
    <2>5. StatusFollows'
      BY <1>2, <2>1, <2>4 DEF ProfileInv, StatusFollows, Profile!account
    <2> QED  BY <1>2, <2>2, <2>3, <2>5 DEF ProfileInv
  <1> QED  BY <1>3, <1>4, <1>5

LEMMA ReloadKeeps ==
    ASSUME ProfileInv, NEW c \in Slots, Profile!HandleEnableMFA(c) \/ Profile!HandleDisableMFA(c)
    PROVE  ProfileInv'
  <1>1. /\ profileCalls' = [profileCalls EXCEPT ![c] = Profile!Request("me", Nothing)]
        /\ UNCHANGED <<Profile!account, Profile!section, lost, overwritten>>
    BY DEF Profile!HandleEnableMFA, Profile!HandleDisableMFA, Profile!past
  <1>2. InFlight(c)
    BY DEF Profile!HandleEnableMFA, Profile!HandleDisableMFA, Profile!Answered, InFlight,
       Profile!Idle, Profile!Request
  <1>3. Profile!Request("me", Nothing) \in Profile!Call  BY DEF Profile!Request, Profile!Call
  <1>4. OneAtATime' /\ \A d \in Slots \ {c} : Fits(d)'
    BY <1>1, <1>2, <1>3, OnlyOneChanges DEF Profile!section, Profile!Request
  <1>5. profileCalls' \in [Slots -> Profile!Call \cup {Profile!Idle}]
              /\ profileCalls'[c] = Profile!Request("me", Nothing)
    BY <1>1, <1>3 DEF ProfileInv, Profile!TypeOK
  <1>6. Fits(c)' /\ Brings(c)'  BY <1>5 DEF Fits, Brings, Profile!Request
  <1>7. StatusFollows'  BY <1>6 DEF StatusFollows
  <1>8. Profile!TypeOK' /\ Profile!ShownSecretIsCurrent'
    BY <1>1, <1>5 DEF ProfileInv, Profile!TypeOK, Profile!ShownSecretIsCurrent, Profile!account,
       Profile!section
  <1> QED  BY <1>4, <1>6, <1>7, <1>8 DEF ProfileInv

-----------------------------------------------------------------------------
LEMMA ProfileNext == ProfileInv /\ (Profile!Next \/ UNCHANGED Profile!vars) => ProfileInv'
  <1> SUFFICES ASSUME ProfileInv, (Profile!Next \/ UNCHANGED Profile!vars) PROVE ProfileInv'  OBVIOUS
  <1>1. CASE UNCHANGED Profile!vars
    <2>1. UNCHANGED <<enabled, secret, made, profileView, mfaShown, mfaStep, setupData, loading, profileCalls, lost,
                    overwritten>>
      BY <1>1 DEF Profile!vars, Profile!account, Profile!section, Profile!past
    <2> QED
      BY <2>1 DEF ProfileInv, Profile!TypeOK, OneAtATime, InFlight, Fits,
         Profile!ShownSecretIsCurrent, StatusFollows, Brings
  <1> QED
    BY <1>1, ProfileLoadKeeps, ProfileVisitKeeps, ProfileElsewhereKeeps, SectionKeeps, ProfileServeKeeps, LoseKeeps, HandlersKeep,
       ReloadKeeps DEF Profile!Next

-----------------------------------------------------------------------------
(***************************************************************************)
(* The list of organisations (OrgsPage)                                    *)
(*                                                                         *)
(* The list may arrive after the answer of a creation or a deletion that it*)
(* does not know of: what crosses it is disturbed.  Of every other         *)
(* organisation the row is right, or one answer on its way puts it right.  *)
(***************************************************************************)

\* Request c is to take the row of o out of the list, or has created it.
AboutOrg(c, o) ==
    /\ orgsCalls[c].org = o
    /\ orgsCalls[c].op = "delete" \/ (orgsCalls[c].op = "create" /\ orgsCalls[c].reply = "ok")

\* A deletion is about an organisation, and so is what was carried out.
OrgNamed == \A c \in Slots : orgsCalls[c].op = "delete" \/ orgsCalls[c].reply = "ok"
    => orgsCalls[c].org \in Orgs

\* Nothing is known of an organisation that was never created.
FreshUnknown ==
    \A o \in fresh : o \notin orgs /\ o \notin listed /\ \A c \in Slots : ~AboutOrg(c, o)

\* Until the list has arrived, whatever changes crosses it.
EarlyIsDisturbed ==
    listing \in {"asked", "answered"} =>
        /\ orgs \subseteq crossed
        /\ \A c \in Slots : orgsCalls[c].reply = "ok" => orgsCalls[c].org \in crossed

ListedIsStored ==
    listing = "answered" => \A o \in Orgs \ crossed : o \in listed <=> o \in stored

\* Two requests about one organisation disturb it.
OneRequestPerOrg ==
    \A o \in Orgs \ crossed, c, d \in Slots : AboutOrg(c, o) /\ AboutOrg(d, o) => c = d

\* The row of o is right, or an answer on its way will put it right.
OrgRowFollows ==
    listing = "done" => \A o \in Orgs \ crossed :
        /\ (\A c \in Slots : AboutOrg(c, o) => orgsCalls[c].reply # "ok") => (o \in orgs <=> o \in stored)
        /\ \A c \in Slots : AboutOrg(c, o) /\ orgsCalls[c].reply = "ok"
               => (o \in stored <=> orgsCalls[c].op = "create")

Crossing == EarlyIsDisturbed /\ ListedIsStored

ListInv == List!TypeOK /\ OrgNamed /\ FreshUnknown /\ Crossing /\ OneRequestPerOrg /\ OrgRowFollows

LEMMA ListInit == List!Init => ListInv
  <1> SUFFICES ASSUME List!Init PROVE ListInv  OBVIOUS
  <1>1. \A c \in Slots : orgsCalls[c] = List!Idle  BY DEF List!Init
  <1>2. List!Idle.op = "idle" /\ List!Idle.reply = "none"  BY DEF List!Idle, List!Request
  <1>3. List!TypeOK  BY DEF List!Init, List!TypeOK, List!Idle, List!Request
  <1>4. OrgNamed /\ Crossing /\ OneRequestPerOrg /\ OrgRowFollows /\ FreshUnknown
    BY <1>1, <1>2 DEF List!Init, OrgNamed, FreshUnknown, Crossing, EarlyIsDisturbed, ListedIsStored,
       OneRequestPerOrg, OrgRowFollows, AboutOrg
  <1> QED  BY <1>3, <1>4 DEF ListInv

-----------------------------------------------------------------------------
(* The list *)

LEMMA ListKeeps == ASSUME ListInv, List!ServeList \/ List!Load PROVE ListInv'
  <1>1. UNCHANGED <<stored, fresh, creating, orgsCalls, crossed>>
    BY DEF List!ServeList, List!Load, List!registry
  <1>2. CASE List!ServeList
    <2>1. List!TypeOK'  BY <1>1, <1>2 DEF List!ServeList, ListInv, List!TypeOK
    <2>2. OrgNamed' /\ FreshUnknown' /\ OneRequestPerOrg'
      BY <1>1, <1>2 DEF List!ServeList, ListInv, List!TypeOK, OrgNamed, FreshUnknown,
         OneRequestPerOrg, AboutOrg
    <2>3. Crossing' /\ OrgRowFollows'
      BY <1>1, <1>2 DEF List!ServeList, ListInv, Crossing, EarlyIsDisturbed, ListedIsStored,
         OrgRowFollows
    <2> QED  BY <2>1, <2>2, <2>3 DEF ListInv
  <1>3. CASE List!Load
    <2>0. listing' \in {"done", "failed"} /\ orgs' \in {orgs, listed} /\ listed' = {}
          /\ orgsView' \in {"shown", "left"}
      BY <1>3 DEF List!Load
    <2>1. List!TypeOK'  BY <1>1, <2>0 DEF ListInv, List!TypeOK
    <2>2. OrgNamed' /\ FreshUnknown' /\ OneRequestPerOrg'
      BY <1>1, <2>0 DEF ListInv, OrgNamed, FreshUnknown, OneRequestPerOrg, AboutOrg
    <2>3. Crossing'  BY <2>0 DEF Crossing, EarlyIsDisturbed, ListedIsStored
    <2>4. ASSUME listing' = "done" PROVE OrgRowFollows'
      <3>1. listing = "answered" /\ orgs' = listed  BY <1>3, <2>4 DEF List!Load
      <3>2. \A o \in Orgs \ crossed : o \in orgs' <=> o \in stored
        BY <3>1 DEF ListInv, Crossing, ListedIsStored
      <3>3. \A o \in Orgs \ crossed, c \in Slots : AboutOrg(c, o) => orgsCalls[c].reply # "ok"
        BY <3>1 DEF ListInv, Crossing, EarlyIsDisturbed, AboutOrg
      <3> QED  BY <1>1, <3>2, <3>3 DEF OrgRowFollows, AboutOrg
    <2> QED  BY <2>1, <2>2, <2>3, <2>4 DEF ListInv, OrgRowFollows
  <1> QED  BY <1>2, <1>3

-----------------------------------------------------------------------------
(* A request leaves. *)

LEMMA CreateFormKeeps == ASSUME ListInv, List!CreateForm PROVE ListInv'
  <1>1. PICK c \in Slots : orgsCalls[c] = List!Idle
                               /\ orgsCalls' = [orgsCalls EXCEPT ![c] = List!Request("create", List!NoOrg)]
    BY DEF List!CreateForm, List!Send
  <1>2. UNCHANGED <<stored, fresh, orgsView, listing, listed, orgs, crossed>> /\ creating' = TRUE
    BY DEF List!CreateForm, List!Send, List!registry, List!fetch
  <1>3. /\ orgsCalls'[c] = [op |-> "create", org |-> List!NoOrg, reply |-> "none"]
        /\ \A d \in Slots \ {c} : orgsCalls'[d] = orgsCalls[d]
    BY <1>1 DEF ListInv, List!TypeOK, List!Request
  <1>4. orgsCalls[c].op = "idle" /\ orgsCalls[c].reply = "none"  BY <1>1 DEF List!Idle, List!Request
  <1>5. \A d \in Slots, o \in Orgs : AboutOrg(d, o)' <=> AboutOrg(d, o)
    BY <1>3, <1>4 DEF AboutOrg
  <1>6. List!TypeOK'  BY <1>1, <1>2, <1>3 DEF ListInv, List!TypeOK, List!Request
  <1>7. fresh \subseteq Orgs  BY DEF ListInv, List!TypeOK
  <1>8. OrgNamed'  BY <1>2, <1>3 DEF ListInv, OrgNamed
  <1>9. FreshUnknown' /\ OneRequestPerOrg'
    BY <1>2, <1>5, <1>7 DEF ListInv, FreshUnknown, OneRequestPerOrg
  <1>10. Crossing'
    BY <1>2, <1>3 DEF ListInv, Crossing, EarlyIsDisturbed, ListedIsStored
  <1>11. \A d \in Slots, o \in Orgs : AboutOrg(d, o) => d # c
    BY <1>4 DEF AboutOrg
  <1>12. OrgRowFollows'
    BY <1>2, <1>3, <1>5, <1>11 DEF ListInv, OrgRowFollows
  <1> QED  BY <1>6, <1>8, <1>9, <1>10, <1>12 DEF ListInv

LEMMA DeleteButtonKeeps == ASSUME ListInv, NEW o \in Orgs, List!DeleteButton(o) PROVE ListInv'
  <1>1. PICK c \in Slots : orgsCalls[c] = List!Idle
                               /\ orgsCalls' = [orgsCalls EXCEPT ![c] = List!Request("delete", o)]
    BY DEF List!DeleteButton, List!Send
  <1>2. UNCHANGED <<stored, fresh, orgsView, listing, listed, orgs, creating>> /\ o \in orgs
    BY DEF List!DeleteButton, List!Send, List!registry, List!fetch
  <1>3. /\ orgsCalls'[c] = [op |-> "delete", org |-> o, reply |-> "none"]
        /\ \A d \in Slots \ {c} : orgsCalls'[d] = orgsCalls[d]
    BY <1>1 DEF ListInv, List!TypeOK, List!Request
  <1>4. orgsCalls[c].op = "idle" /\ orgsCalls[c].reply = "none"  BY <1>1 DEF List!Idle, List!Request
  <1>5. crossed \subseteq crossed' /\ crossed' \subseteq Orgs
    BY DEF List!DeleteButton, ListInv, List!TypeOK
  <1>6. o \notin crossed' => \A d \in Slots \ {c} : ~AboutOrg(d, o)
    BY DEF List!DeleteButton, AboutOrg, List!Idle, List!Request
  <1>7. /\ \A d \in Slots \ {c}, p \in Orgs : AboutOrg(d, p)' <=> AboutOrg(d, p)
        /\ \A p \in Orgs : AboutOrg(c, p)' <=> p = o
        /\ \A p \in Orgs : ~AboutOrg(c, p)
    BY <1>3, <1>4 DEF AboutOrg
  <1>8. List!TypeOK'  BY <1>1, <1>2, <1>3, <1>5 DEF ListInv, List!TypeOK, List!Request
  <1>9. OrgNamed'  BY <1>2, <1>3 DEF ListInv, OrgNamed
  <1>10. FreshUnknown'
    <2>1. o \notin fresh /\ fresh \subseteq Orgs  BY <1>2 DEF ListInv, FreshUnknown, List!TypeOK
    <2> QED  BY <1>2, <1>7, <2>1 DEF ListInv, FreshUnknown
  <1>11. Crossing'
    BY <1>2, <1>3, <1>5 DEF ListInv, Crossing, EarlyIsDisturbed, ListedIsStored
  <1>12. OneRequestPerOrg'
    BY <1>5, <1>6, <1>7 DEF ListInv, OneRequestPerOrg
  <1>13. OrgRowFollows'
    BY <1>2, <1>3, <1>5, <1>7 DEF ListInv, OrgRowFollows
  <1> QED  BY <1>8, <1>9, <1>10, <1>11, <1>12, <1>13 DEF ListInv

-----------------------------------------------------------------------------
(* A request is served. *)

\* A call in flight, field by field.
LEMMA ListFields ==
    ASSUME List!TypeOK, NEW c \in Slots
    PROVE  /\ orgsCalls[c] = [op |-> orgsCalls[c].op, org |-> orgsCalls[c].org, reply |-> orgsCalls[c].reply]
           /\ orgsCalls[c].op \in {"idle", "create", "delete"}
           /\ orgsCalls[c].org \in Orgs \cup {List!NoOrg}
           /\ orgsCalls[c].reply \in {"none", "ok", "refused"}
  BY DEF List!TypeOK

\* The other requests are about what they were about.
LEMMA OthersAbout ==
    ASSUME NEW c, \A d \in Slots \ {c} : orgsCalls'[d] = orgsCalls[d]
    PROVE  \A d \in Slots \ {c}, p \in Orgs : AboutOrg(d, p)' <=> AboutOrg(d, p)
  BY DEF AboutOrg

\* A refusal that nothing hides: no row and no organisation has changed.
LEMMA ListRefusedKeeps ==
    ASSUME ListInv, NEW c \in Slots, orgsCalls[c] # List!Idle, orgsCalls[c].reply = "none",
           orgsCalls' = [orgsCalls EXCEPT ![c].reply = "refused"],
           UNCHANGED <<stored, fresh, orgsView, listing, listed, orgs, creating, crossed>>
    PROVE  ListInv'
  <1>1. /\ orgsCalls[c] = [op |-> orgsCalls[c].op, org |-> orgsCalls[c].org, reply |-> "none"]
        /\ orgsCalls[c].op \in {"idle", "create", "delete"}
        /\ orgsCalls[c].org \in Orgs \cup {List!NoOrg}
    BY ListFields DEF ListInv
  <1>2. [orgsCalls[c] EXCEPT !.reply = "refused"]
          = [op |-> orgsCalls[c].op, org |-> orgsCalls[c].org, reply |-> "refused"]
    BY <1>1
  <1>3. orgsCalls' = [orgsCalls EXCEPT ![c] = [op |-> orgsCalls[c].op, org |-> orgsCalls[c].org,
                                       reply |-> "refused"]]
    BY <1>2
  <1>4. /\ orgsCalls' \in [Slots -> [op : {"idle", "create", "delete"}, org : Orgs \cup {List!NoOrg},
                                 reply : {"none", "ok", "refused"}]]
        /\ orgsCalls'[c] = [op |-> orgsCalls[c].op, org |-> orgsCalls[c].org, reply |-> "refused"]
        /\ \A d \in Slots \ {c} : orgsCalls'[d] = orgsCalls[d]
    BY <1>1, <1>3 DEF ListInv, List!TypeOK
  <1>5. \A d \in Slots, p \in Orgs : AboutOrg(d, p)' <=> AboutOrg(d, p)
    BY <1>1, <1>4 DEF AboutOrg
  <1>6. \A d \in Slots : orgsCalls'[d].reply = "ok" <=> orgsCalls[d].reply = "ok"
    BY <1>1, <1>4
  <1>7. \A d \in Slots : orgsCalls'[d].op = orgsCalls[d].op /\ orgsCalls'[d].org = orgsCalls[d].org
    BY <1>1, <1>4
  <1>8. List!TypeOK'  BY <1>4 DEF ListInv, List!TypeOK
  <1>9. OrgNamed' /\ Crossing'
    BY <1>6, <1>7 DEF ListInv, OrgNamed, Crossing, EarlyIsDisturbed, ListedIsStored
  <1>10. FreshUnknown' /\ OneRequestPerOrg'
    BY <1>5 DEF ListInv, List!TypeOK, FreshUnknown, OneRequestPerOrg
  <1>11. OrgRowFollows'
    BY <1>5, <1>6, <1>7 DEF ListInv, OrgRowFollows
  <1> QED  BY <1>8, <1>9, <1>10, <1>11 DEF ListInv

\* Request c changes organisation o at the server, answered or with its answer lost.
LEMMA ListCarriedOutKeeps ==
    ASSUME ListInv, NEW c \in Slots, NEW o \in Orgs, NEW op \in {"create", "delete"},
           NEW reply \in {"ok", "refused"},
           orgsCalls[c].reply = "none",
           orgsCalls' = [orgsCalls EXCEPT ![c] = [op |-> op, org |-> o, reply |-> reply]],
           orgsCalls[c].op = op,
           op = "create" => /\ o \in fresh
                            /\ stored' = stored \cup {o} /\ fresh' = fresh \ {o},
           op = "delete" => /\ orgsCalls[c].org = o /\ o \in stored
                            /\ stored' = stored \ {o} /\ fresh' = fresh,
           crossed' = crossed \cup
               (IF reply = "refused" \/ listing \in {"asked", "answered"} THEN {o} ELSE {}),
           UNCHANGED <<orgsView, listing, listed, orgs, creating>>
    PROVE  ListInv'
  <1>1. orgsCalls'[c] = [op |-> op, org |-> o, reply |-> reply]
        /\ \A d \in Slots \ {c} : orgsCalls'[d] = orgsCalls[d]
    BY DEF ListInv, List!TypeOK
  <1>2. List!TypeOK'
    <2>1. orgsCalls' \in [Slots -> [op : {"idle", "create", "delete"}, org : Orgs \cup {List!NoOrg},
                                reply : {"none", "ok", "refused"}]]
      BY DEF ListInv, List!TypeOK
    <2>2. stored' \subseteq Orgs /\ fresh' \subseteq Orgs \ stored'
      BY DEF ListInv, List!TypeOK
    <2> QED  BY <2>1, <2>2 DEF ListInv, List!TypeOK
  <1>3. /\ \A d \in Slots \ {c}, p \in Orgs : AboutOrg(d, p)' <=> AboutOrg(d, p)
        /\ \A p \in Orgs : AboutOrg(c, p)' => p = o
        /\ \A p \in Orgs : p # o => ~AboutOrg(c, p)
    BY <1>1 DEF AboutOrg
  <1>4. OrgNamed'  BY <1>1 DEF ListInv, OrgNamed
  <1>5. FreshUnknown'
    <2>1. \A p \in fresh' : p \in fresh /\ p # o /\ p \in Orgs  BY DEF ListInv, List!TypeOK
    <2> QED  BY <1>3, <2>1 DEF ListInv, FreshUnknown
  <1>6. crossed \subseteq crossed'  OBVIOUS
  <1>7. \A p \in Orgs : p # o => (p \in stored' <=> p \in stored)  OBVIOUS
  <1>8. Crossing'
    <2>1. ASSUME listing \in {"asked", "answered"} PROVE o \in crossed'  BY <2>1
    <2>2. EarlyIsDisturbed'
      BY <1>1, <1>6, <2>1 DEF ListInv, Crossing, EarlyIsDisturbed
    <2>3. ListedIsStored'
      BY <1>6, <1>7, <2>1 DEF ListInv, Crossing, ListedIsStored
    <2> QED  BY <2>2, <2>3 DEF Crossing
  \* Only c was about o, if o is undisturbed.
  <1>9. o \notin crossed => \A d \in Slots \ {c} : ~AboutOrg(d, o)
    <2>1. CASE op = "create"  BY <2>1 DEF ListInv, FreshUnknown
    <2>2. CASE op = "delete"  BY <2>2 DEF ListInv, OneRequestPerOrg, AboutOrg
    <2> QED  BY <2>1, <2>2
  <1>10. OneRequestPerOrg'
    BY <1>3, <1>6, <1>9 DEF ListInv, OneRequestPerOrg
  <1>11. OrgRowFollows'
    <2> SUFFICES ASSUME listing = "done", NEW p \in Orgs \ crossed'
                 PROVE  /\ (\A d \in Slots : AboutOrg(d, p)' => orgsCalls'[d].reply # "ok")
                              => (p \in orgs <=> p \in stored')
                        /\ \A d \in Slots : AboutOrg(d, p)' /\ orgsCalls'[d].reply = "ok"
                              => (p \in stored' <=> orgsCalls'[d].op = "create")
      BY DEF OrgRowFollows
    <2>1. p \notin crossed /\ (p = o => reply = "ok")  BY <1>6
    <2>2. CASE p # o
      BY <1>1, <1>3, <1>7, <2>1, <2>2 DEF ListInv, OrgRowFollows
    <2>3. CASE p = o
      <3>1. AboutOrg(c, o)' /\ orgsCalls'[c].reply = "ok" /\ orgsCalls'[c].op = op
        BY <1>1, <2>1, <2>3 DEF AboutOrg
      <3>2. \A d \in Slots : AboutOrg(d, o)' => d = c
        BY <1>3, <1>9, <2>1, <2>3
      <3>3. o \in stored' <=> op = "create"  OBVIOUS
      <3> QED  BY <2>3, <3>1, <3>2, <3>3
    <2> QED  BY <2>2, <2>3
  <1> QED  BY <1>2, <1>4, <1>5, <1>8, <1>10, <1>11 DEF ListInv

LEMMA ListServeKeeps == ASSUME ListInv, NEW c \in Slots, List!Serve(c) PROVE ListInv'
  <1>1. orgsCalls[c] # List!Idle /\ orgsCalls[c].reply = "none"
              /\ UNCHANGED <<orgsView, listing, listed, orgs, creating>>
    BY DEF List!Serve, List!fetch
  <1>2. orgsCalls[c] = [op |-> orgsCalls[c].op, org |-> orgsCalls[c].org, reply |-> orgsCalls[c].reply]
    BY ListFields DEF ListInv
  <1>3. CASE orgsCalls' = [orgsCalls EXCEPT ![c].reply = "refused"] /\ UNCHANGED <<stored, fresh, crossed>>
    BY <1>1, <1>3, ListRefusedKeeps
  <1>4. ASSUME NEW reply \in {"ok", "refused"}, NEW o \in fresh,
               orgsCalls[c].op = "create",
               stored' = stored \cup {o} /\ fresh' = fresh \ {o},
               orgsCalls' = [orgsCalls EXCEPT ![c].org = o, ![c].reply = reply],
               crossed' = crossed \cup
                  (IF reply = "refused" \/ listing \in {"asked", "answered"}
                   THEN {orgsCalls'[c].org} ELSE {})
        PROVE  ListInv'
    <2>1. orgsCalls' = [orgsCalls EXCEPT ![c] = [op |-> "create", org |-> o, reply |-> reply]]
      <3> DEFINE told == [op |-> "create", org |-> o, reply |-> orgsCalls[c].reply]
                 full == [op |-> "create", org |-> o, reply |-> reply]
      <3>1. [orgsCalls[c] EXCEPT !.org = o] = told  BY <1>2, <1>4
      <3>2. [told EXCEPT !.reply = reply] = full  OBVIOUS
      <3> HIDE DEF told, full
      <3>3. [orgsCalls EXCEPT ![c] = told][c] = told  BY DEF ListInv, List!TypeOK
      <3>4. orgsCalls' = [[orgsCalls EXCEPT ![c] = told] EXCEPT ![c] = full]
        BY <1>4, <3>1, <3>2, <3>3
      <3>5. orgsCalls' = [orgsCalls EXCEPT ![c] = full]  BY <3>4 DEF ListInv, List!TypeOK
      <3> QED  BY <3>5 DEF full
    <2>2. orgsCalls'[c].org = o /\ o \in Orgs  BY <2>1 DEF ListInv, List!TypeOK
    <2>3. crossed' = crossed \cup
             (IF reply = "refused" \/ listing \in {"asked", "answered"} THEN {o} ELSE {})
      BY <1>4, <2>2
    <2>4. orgsCalls[c].reply = "none" /\ UNCHANGED <<orgsView, listing, listed, orgs, creating>>
      BY <1>1
    <2> QED  BY <1>4, <2>1, <2>2, <2>3, <2>4, ListCarriedOutKeeps
  <1>5. ASSUME NEW reply \in {"ok", "refused"},
               orgsCalls[c].op = "delete", orgsCalls[c].org \in stored,
               stored' = stored \ {orgsCalls[c].org}, UNCHANGED fresh,
               orgsCalls' = [orgsCalls EXCEPT ![c].reply = reply],
               crossed' = crossed \cup
                  (IF reply = "refused" \/ listing \in {"asked", "answered"}
                   THEN {orgsCalls'[c].org} ELSE {})
        PROVE  ListInv'
    <2>1. orgsCalls' = [orgsCalls EXCEPT ![c] = [op |-> "delete", org |-> orgsCalls[c].org, reply |-> reply]]
      <3>1. [orgsCalls[c] EXCEPT !.reply = reply]
              = [op |-> "delete", org |-> orgsCalls[c].org, reply |-> reply]
        BY <1>2, <1>5
      <3> QED  BY <1>5, <3>1
    <2>2. orgsCalls'[c].org = orgsCalls[c].org /\ orgsCalls[c].org \in Orgs
      BY <1>5, <2>1 DEF ListInv, List!TypeOK
    <2> QED  BY <1>1, <1>5, <2>1, <2>2, ListCarriedOutKeeps
  <1> QED  BY <1>3, <1>4, <1>5 DEF List!Serve, List!registry

-----------------------------------------------------------------------------
(* An answer arrives. *)

LEMMA ListHandleKeeps ==
    ASSUME ListInv, NEW c \in Slots, List!HandleCreate(c) \/ List!HandleDelete(c)
    PROVE  ListInv'
  <1> DEFINE o == orgsCalls[c].org
  <1>1. /\ orgsCalls[c].reply # "none" /\ orgsCalls[c].op \in {"create", "delete"}
        /\ orgsCalls' = [orgsCalls EXCEPT ![c] = List!Idle]
        /\ creating' \in BOOLEAN
        /\ UNCHANGED <<stored, fresh, orgsView, listing, listed, crossed>>
    BY DEF List!HandleCreate, List!HandleDelete, List!Done, List!registry, List!fetch, ListInv,
       List!TypeOK
  <1>2. /\ orgsCalls[c].op = "create" /\ orgsCalls[c].reply = "ok" => orgs' = orgs \cup {o}
        /\ orgsCalls[c].op = "delete" /\ orgsCalls[c].reply = "ok" => orgs' = orgs \ {o}
        /\ orgsCalls[c].reply # "ok" => orgs' = orgs
    BY DEF List!HandleCreate, List!HandleDelete
  <1>3. /\ orgsCalls'[c] = List!Idle /\ List!Idle.op = "idle" /\ List!Idle.reply = "none"
        /\ \A d \in Slots \ {c} : orgsCalls'[d] = orgsCalls[d]
        /\ List!Idle \in [op : {"idle", "create", "delete"}, org : Orgs \cup {List!NoOrg},
                     reply : {"none", "ok", "refused"}]
    BY <1>1 DEF ListInv, List!TypeOK, List!Idle, List!Request
  <1>4. /\ \A d \in Slots \ {c}, p \in Orgs : AboutOrg(d, p)' <=> AboutOrg(d, p)
        /\ \A p \in Orgs : ~AboutOrg(c, p)'
    BY <1>3 DEF AboutOrg
  <1>5. orgsCalls[c].reply = "ok" => o \in Orgs /\ AboutOrg(c, o)
    BY <1>1 DEF ListInv, OrgNamed, AboutOrg
  <1>6. orgs' \subseteq Orgs /\ \A p \in Orgs : p # o \/ orgsCalls[c].reply # "ok"
            => (p \in orgs' <=> p \in orgs)
    BY <1>1, <1>2, <1>5 DEF ListInv, List!TypeOK
  <1> HIDE DEF o
  <1>7. List!TypeOK'  BY <1>1, <1>3, <1>6 DEF ListInv, List!TypeOK
  <1>8. OrgNamed'  BY <1>3 DEF ListInv, OrgNamed
  <1>9. FreshUnknown'
    <2>1. orgsCalls[c].reply = "ok" => o \notin fresh  BY <1>5 DEF ListInv, FreshUnknown
    <2> QED  BY <1>1, <1>4, <1>6, <2>1 DEF ListInv, List!TypeOK, FreshUnknown
  <1>10. Crossing'
    <2>1. ASSUME listing \in {"asked", "answered"}, orgsCalls[c].reply = "ok" PROVE o \in crossed
      BY <2>1 DEF ListInv, Crossing, EarlyIsDisturbed, o
    <2>2. EarlyIsDisturbed'
      BY <1>1, <1>2, <1>3, <2>1 DEF ListInv, Crossing, EarlyIsDisturbed
    <2> QED  BY <1>1, <2>2 DEF ListInv, Crossing, ListedIsStored
  <1>11. OneRequestPerOrg'  BY <1>1, <1>4 DEF ListInv, OneRequestPerOrg
  <1>12. OrgRowFollows'
    <2> SUFFICES ASSUME listing = "done", NEW p \in Orgs \ crossed
                 PROVE  /\ (\A d \in Slots : AboutOrg(d, p)' => orgsCalls'[d].reply # "ok")
                              => (p \in orgs' <=> p \in stored)
                        /\ \A d \in Slots : AboutOrg(d, p)' /\ orgsCalls'[d].reply = "ok"
                              => (p \in stored <=> orgsCalls'[d].op = "create")
      BY <1>1 DEF OrgRowFollows
    <2>1. CASE p = o /\ orgsCalls[c].reply = "ok"
      <3>1. AboutOrg(c, p) /\ \A d \in Slots \ {c} : ~AboutOrg(d, p)
        BY <1>5, <2>1 DEF ListInv, OneRequestPerOrg
      <3>2. p \in stored <=> orgsCalls[c].op = "create"
        BY <2>1, <3>1 DEF ListInv, OrgRowFollows
      <3>3. p \in orgs' <=> orgsCalls[c].op = "create"  BY <1>1, <1>2, <2>1
      <3> QED  BY <1>4, <3>1, <3>2, <3>3
    <2>2. CASE ~(p = o /\ orgsCalls[c].reply = "ok")
      <3>1. ~(AboutOrg(c, p) /\ orgsCalls[c].reply = "ok")  BY <2>2 DEF AboutOrg, o
      <3> QED  BY <1>3, <1>4, <1>6, <2>2, <3>1 DEF ListInv, OrgRowFollows
    <2> QED  BY <2>1, <2>2
  <1> QED  BY <1>7, <1>8, <1>9, <1>10, <1>11, <1>12 DEF ListInv

-----------------------------------------------------------------------------
(* The page is left and opened, and others change what there is. *)

LEMMA ListVisitKeeps == ASSUME ListInv, List!Leave \/ List!Open PROVE ListInv'
  <1>1. CASE List!Leave
    <2>1. orgsView' = "left" /\ UNCHANGED <<stored, fresh, listing, listed, orgs, creating, orgsCalls, crossed>>
      BY <1>1 DEF List!Leave, List!registry, List!fetch
    <2> QED
      BY <2>1 DEF ListInv, List!TypeOK, OrgNamed, FreshUnknown, Crossing, EarlyIsDisturbed,
         ListedIsStored, OneRequestPerOrg, OrgRowFollows, AboutOrg
  <1>2. CASE List!Open
    <2>1. /\ orgsView' = "shown" /\ listing' = "asked" /\ listed' = {} /\ orgs' = {}
          /\ creating' = FALSE /\ crossed' = {} /\ UNCHANGED <<stored, fresh>>
          /\ orgsCalls' = [c \in Slots |-> List!Idle]
      BY <1>2 DEF List!Open, List!registry
    <2>2. List!Idle.op = "idle" /\ List!Idle.reply = "none"  BY DEF List!Idle, List!Request
    <2>3. List!TypeOK'  BY <2>1 DEF ListInv, List!TypeOK, List!Idle, List!Request
    <2>4. (OrgNamed /\ Crossing /\ OneRequestPerOrg /\ OrgRowFollows /\ FreshUnknown)'
      BY <2>1, <2>2 DEF OrgNamed, FreshUnknown, Crossing, EarlyIsDisturbed, ListedIsStored,
         OneRequestPerOrg, OrgRowFollows, AboutOrg
    <2> QED  BY <2>3, <2>4 DEF ListInv
  <1> QED  BY <1>1, <1>2

LEMMA ForeignKeepsList == ASSUME ListInv, List!Foreign PROVE ListInv'
  <1>1. PICK o \in Orgs :
          /\ \/ o \in fresh /\ stored' = stored \cup {o} /\ fresh' = fresh \ {o}
             \/ o \in stored /\ stored' = stored \ {o} /\ UNCHANGED fresh
          /\ crossed' = IF listing = "asked" THEN crossed ELSE crossed \cup {o}
    BY DEF List!Foreign
  <1>2. UNCHANGED <<orgsView, listing, listed, orgs, creating, orgsCalls>>
    BY DEF List!Foreign, List!fetch
  <1>3. /\ stored' \subseteq Orgs /\ fresh' \subseteq Orgs \ stored' /\ fresh' \subseteq fresh
        /\ crossed \subseteq crossed' /\ crossed' \subseteq Orgs
        /\ \A p \in Orgs : p # o => (p \in stored' <=> p \in stored)
        /\ listing # "asked" => o \in crossed'
    BY <1>1 DEF ListInv, List!TypeOK
  <1>4. List!TypeOK'  BY <1>2, <1>3 DEF ListInv, List!TypeOK
  <1>5. \A c \in Slots, p \in Orgs : AboutOrg(c, p)' <=> AboutOrg(c, p)  BY <1>2 DEF AboutOrg
  <1>6. OrgNamed' /\ FreshUnknown' /\ OneRequestPerOrg'
    BY <1>2, <1>3, <1>5 DEF ListInv, List!TypeOK, OrgNamed, FreshUnknown, OneRequestPerOrg
  <1>7. Crossing'
    BY <1>2, <1>3 DEF ListInv, Crossing, EarlyIsDisturbed, ListedIsStored
  <1>8. OrgRowFollows'
    BY <1>2, <1>3, <1>5 DEF ListInv, OrgRowFollows
  <1> QED  BY <1>4, <1>6, <1>7, <1>8 DEF ListInv

-----------------------------------------------------------------------------
LEMMA ListNext == ListInv /\ (List!Next \/ UNCHANGED List!vars) => ListInv'
  <1> SUFFICES ASSUME ListInv, (List!Next \/ UNCHANGED List!vars) PROVE ListInv'  OBVIOUS
  <1>1. CASE UNCHANGED List!vars
    <2>1. UNCHANGED <<stored, fresh, orgsView, listing, listed, orgs, creating, orgsCalls, crossed>>
      BY <1>1 DEF List!vars, List!registry, List!fetch
    <2> QED
      BY <2>1 DEF ListInv, List!TypeOK, OrgNamed, FreshUnknown, Crossing, EarlyIsDisturbed,
         ListedIsStored, OneRequestPerOrg, OrgRowFollows, AboutOrg
  <1>2. CASE List!Next
    BY <1>2, ListKeeps, CreateFormKeeps, DeleteButtonKeeps, ListServeKeeps, ListHandleKeeps,
       ListVisitKeeps, ForeignKeepsList
       DEF List!Next
  <1> QED  BY <1>1, <1>2

-----------------------------------------------------------------------------
(***************************************************************************)
(* The pages together                                                      *)
(***************************************************************************)

\* A step of the whole is a step of one page, at which the others stand still.
LEMMA StepIsOfAPage ==
    [Next]_vars => /\ Org!Next \/ UNCHANGED Org!vars
                   /\ Admin!Next \/ UNCHANGED Admin!vars
                   /\ Profile!Next \/ UNCHANGED Profile!vars
                   /\ List!Next \/ UNCHANGED List!vars
  <1> SUFFICES ASSUME [Next]_vars
               PROVE  /\ Org!Next \/ UNCHANGED Org!vars
                      /\ Admin!Next \/ UNCHANGED Admin!vars
                      /\ Profile!Next \/ UNCHANGED Profile!vars
                      /\ List!Next \/ UNCHANGED List!vars
    OBVIOUS
  <1>1. UNCHANGED orgPage => UNCHANGED Org!vars
    BY DEF orgPage, Org!vars, Org!server, Org!page, Org!past
  <1>2. UNCHANGED usersPage => UNCHANGED Admin!vars
    BY DEF usersPage, Admin!vars, Admin!finding, Admin!assigning
  <1>3. UNCHANGED profilePage => UNCHANGED Profile!vars
    BY DEF profilePage, Profile!vars, Profile!account, Profile!section, Profile!past
  <1>4. UNCHANGED orgsPage => UNCHANGED List!vars
    BY DEF orgsPage, List!vars, List!registry, List!fetch
  <1>5. CASE UNCHANGED vars
    BY <1>1, <1>2, <1>3, <1>4, <1>5 DEF vars
  <1>6. CASE Next
    BY <1>1, <1>2, <1>3, <1>4, <1>6 DEF Next
  <1> QED  BY <1>5, <1>6

PagesInv == OrgInv /\ UsersInv /\ ProfileInv /\ ListInv

\* Every page keeps its invariant: what it shows is true, or the answer that will
\* make it true is on its way.
THEOREM PagesHold == Spec => []PagesInv
  <1>1. Init => PagesInv
    BY OrgInit, UsersInit, ProfileInit, ListInit DEF Init, PagesInv
  <1>2. PagesInv /\ [Next]_vars => PagesInv'
    BY StepIsOfAPage, OrgNext, UsersNext, ProfileNext, ListNext DEF PagesInv
  <1> QED  BY <1>1, <1>2, PTL DEF Spec

\* Every reachable state of every page is well typed.
THEOREM PagesTyped ==
    Spec => [](Org!TypeOK /\ Admin!TypeOK /\ Profile!TypeOK /\ List!TypeOK)
  <1>1. PagesInv => Org!TypeOK /\ Admin!TypeOK /\ Profile!TypeOK /\ List!TypeOK
    BY DEF PagesInv, OrgInv, UsersInv, ProfileInv, ListInv
  <1> QED  BY <1>1, PagesHold, PTL

\* With no request in flight the rows of an organisation's page are its members
\* with their roles, though each answer edited them in place.
THEOREM RowsTrue == Spec => []RowsAgree
  <1>1. PagesInv => RowsAgree  BY RowsOfIdle DEF PagesInv, RowsAgree
  <1> QED  BY <1>1, PagesHold, PTL

\* The page offers only what the server will allow: whoever is answered 403 has
\* been overtaken by somebody else.
THEOREM OffersAllowed == Spec => []OfferedIsAllowed
  <1>1. PagesInv => OfferedIsAllowed  BY DEF PagesInv, OrgInv, OfferedIsAllowed
  <1> QED  BY <1>1, PagesHold, PTL

\* With no request in flight the plan shown is the organisation's.
THEOREM PlanTrue == Spec => []PlanAgrees
  <1>1. PagesInv => PlanAgrees  BY PlanOfIdle DEF PagesInv, PlanAgrees
  <1> QED  BY <1>1, PagesHold, PTL

\* No button stays disabled once its request has ended, and a visit opens at most
\* one checkout.
THEOREM ButtonsReleased == Spec => []ButtonsComeBack
  <1>1. PagesInv => ButtonsComeBack  BY GuardIsReleased DEF PagesInv, ButtonsComeBack
  <1> QED  BY <1>1, PagesHold, PTL

\* The page number is that of the table, whatever failed or is in flight.
THEOREM PageOfTable == Spec => []PageIsOfTable
  <1>1. PagesInv => PageIsOfTable  BY DEF PagesInv, UsersInv, PageIsOfTable
  <1> QED  BY <1>1, PagesHold, PTL

\* The banner shows the role the user has, unless others, or an assignment the page
\* had given up, have written that role since the page's last assignment.
THEOREM BannerTrue == Spec => []BannerIsTrue
  <1>1. PagesInv => BannerIsTrue  BY DEF PagesInv, UsersInv, BannerIsTrue
  <1> QED  BY <1>1, PagesHold, PTL

\* The QR code shown is of the secret codes are checked against, unless the row was
\* written by others, or by a setup the page had given up, since its last setup.
THEOREM SecretCurrent == Spec => []ShownSecretIsCurrent
  <1>1. PagesInv => ShownSecretIsCurrent  BY DEF PagesInv, ProfileInv, ShownSecretIsCurrent
  <1> QED  BY <1>1, PagesHold, PTL

\* Once its requests are answered, the profile page tells whether MFA is on, unless an
\* answer was lost, or others changed it, since the page was last told.
THEOREM StatusTrue == Spec => []StatusIsTrue
  <1>1. ASSUME ProfileInv PROVE Profile!StatusIsTrue
    <2>1. (\A c \in Slots : profileCalls[c] = Profile!Idle) => ~\E c \in Slots : Brings(c)
      BY DEF Brings, Profile!Idle, Profile!Request
    <2> QED  BY <1>1, <2>1 DEF ProfileInv, StatusFollows, Profile!StatusIsTrue
  <1>2. PagesInv => StatusIsTrue  BY <1>1 DEF PagesInv, StatusIsTrue
  <1> QED  BY <1>2, PagesHold, PTL

\* Every row shown is an organisation there is, and every organisation has one.
THEOREM ListTrue == Spec => []ListAgrees
  <1>1. ASSUME ListInv PROVE List!ListAgrees
    <2>1. ASSUME \A c \in Slots : orgsCalls[c] = List!Idle
          PROVE  \A c \in Slots, o \in Orgs : ~AboutOrg(c, o)
      BY <2>1 DEF AboutOrg, List!Idle, List!Request
    <2> QED  BY <1>1, <2>1 DEF ListInv, List!TypeOK, OrgRowFollows, List!ListAgrees
  <1>2. PagesInv => ListAgrees  BY <1>1 DEF PagesInv, ListAgrees
  <1> QED  BY <1>2, PagesHold, PTL
=============================================================================
