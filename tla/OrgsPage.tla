------------------------------ MODULE OrgsPage ------------------------------
(***************************************************************************)
(* The list of organisations in the admin web app                          *)
(* (app/[locale]/orgs/page.tsx): it is fetched once, when the page opens,  *)
(* and edited in place by every creation and deletion from then on.        *)
(***************************************************************************)
EXTENDS FiniteSets

CONSTANTS
    Orgs,       \* organisations that can exist (a bound)
    Slots       \* creations and deletions in flight at once (a bound)

VARIABLES
    stored,     \* server: the organisations
    fresh,      \* server: organisations never created
    view,       \* "shown" or "left"
    listing,    \* the initial listOrgs: "asked", "answered", "done" or "failed"
    listed,     \* the organisations in its answer
    orgs,       \* orgs: the rows shown
    creating,   \* creating
    calls,      \* calls[c]: a creation or deletion in flight
    disturbed   \* history: the organisations whose answers crossed or were lost, or that
                \* others changed since the list was answered

registry == <<stored, fresh>>
fetch    == <<listing, listed>>
vars     == <<registry, view, fetch, orgs, creating, calls, disturbed>>

NoOrg == "none"
Request(op, o) == [op |-> op, org |-> o, reply |-> "none"]
Idle == Request("idle", NoOrg)

TypeOK ==
    /\ stored \subseteq Orgs /\ fresh \subseteq Orgs \ stored
    /\ view \in {"shown", "left"} /\ listing \in {"asked", "answered", "done", "failed"}
    /\ listed \subseteq Orgs /\ orgs \subseteq Orgs /\ creating \in BOOLEAN
    /\ calls \in [Slots -> [op : {"idle", "create", "delete"}, org : Orgs \cup {NoOrg},
                            reply : {"none", "ok", "refused"}]]
    /\ disturbed \subseteq Orgs

Init ==
    /\ \E o \in Orgs : stored = {o} /\ fresh = Orgs \ {o}
    /\ view = "shown" /\ listing = "asked" /\ listed = {} /\ orgs = {}
    /\ creating = FALSE /\ calls = [c \in Slots |-> Idle] /\ disturbed = {}

\* The page is left, and its requests given up.
Leave ==
    /\ view = "shown"
    /\ view' = "left"
    /\ UNCHANGED <<registry, fetch, orgs, creating, calls, disturbed>>

\* It is opened again, and starts afresh.
Open ==
    /\ view = "left"
    /\ view' = "shown" /\ listing' = "asked" /\ listed' = {} /\ orgs' = {}
    /\ creating' = FALSE /\ calls' = [c \in Slots |-> Idle] /\ disturbed' = {}
    /\ UNCHANGED registry

-----------------------------------------------------------------------------
(* The initial list *)

ServeList ==
    /\ listing = "asked"
    /\ listed' = stored
    /\ listing' = "answered"
    /\ UNCHANGED <<registry, view, orgs, creating, calls, disturbed>>

\* The answer replaces whatever the page shows by now; a 401 leads to the login
\* page, another failure to a banner over a page that goes on.
Load ==
    /\ view = "shown" /\ listing \in {"asked", "answered"}
    /\ \/ listing = "answered" /\ listing' = "done" /\ orgs' = listed /\ UNCHANGED view
       \/ listing' = "failed" /\ view' \in {"shown", "left"} /\ UNCHANGED orgs
    /\ listed' = {}
    /\ UNCHANGED <<registry, creating, calls, disturbed>>

-----------------------------------------------------------------------------
(* Creating and deleting; the page is in use before its list has arrived *)

Send(op, o) ==
    /\ view = "shown"
    /\ \E c \in Slots : calls[c] = Idle /\ calls' = [calls EXCEPT ![c] = Request(op, o)]
    /\ UNCHANGED <<registry, view, fetch, orgs>>

CreateForm ==
    /\ ~creating /\ creating' = TRUE
    /\ Send("create", NoOrg)
    /\ UNCHANGED disturbed

\* A row can be deleted twice.
DeleteButton(o) ==
    /\ o \in orgs
    /\ Send("delete", o)
    /\ disturbed' = disturbed \cup {p \in {o} : \E c \in Slots : calls[c] # Idle /\ calls[c].org = o}
    /\ UNCHANGED creating

\* Carried out, with the answer lost or not, or refused.  A change between the
\* server's answer to the list and its arrival crosses it.
Serve(c) ==
    /\ calls[c] # Idle /\ calls[c].reply = "none"
    /\ \/ calls' = [calls EXCEPT ![c].reply = "refused"] /\ UNCHANGED <<registry, disturbed>>
       \/ \E reply \in {"ok", "refused"} :
            /\ \/ /\ calls[c].op = "create"
                  /\ \E o \in fresh :
                        /\ stored' = stored \cup {o} /\ fresh' = fresh \ {o}
                        /\ calls' = [calls EXCEPT ![c].org = o, ![c].reply = reply]
               \/ /\ calls[c].op = "delete" /\ calls[c].org \in stored
                  /\ stored' = stored \ {calls[c].org}
                  /\ calls' = [calls EXCEPT ![c].reply = reply]
                  /\ UNCHANGED fresh
            /\ disturbed' = disturbed \cup (IF reply = "refused" \/ listing \in {"asked", "answered"}
                                            THEN {calls'[c].org} ELSE {})
    /\ UNCHANGED <<view, fetch, orgs, creating>>

\* Somebody else creates or deletes an organisation, or the server only now carries
\* out a request the page has given up.
Foreign ==
    /\ \E o \in Orgs :
        /\ \/ o \in fresh /\ stored' = stored \cup {o} /\ fresh' = fresh \ {o}
           \/ o \in stored /\ stored' = stored \ {o} /\ UNCHANGED fresh
        /\ disturbed' = IF listing = "asked" THEN disturbed ELSE disturbed \cup {o}
    /\ UNCHANGED <<view, fetch, orgs, creating, calls>>

Done(c) == calls' = [calls EXCEPT ![c] = Idle]

HandleCreate(c) ==
    /\ view = "shown" /\ calls[c].op = "create" /\ calls[c].reply # "none"
    /\ orgs' = IF calls[c].reply = "ok" THEN orgs \cup {calls[c].org} ELSE orgs
    /\ creating' = FALSE
    /\ Done(c)
    /\ UNCHANGED <<registry, view, fetch, disturbed>>

\* Mutant: the row goes whatever the answer.
DeleteAnyway(c) ==
    /\ view = "shown" /\ calls[c].op = "delete" /\ calls[c].reply # "none"
    /\ orgs' = orgs \ {calls[c].org}
    /\ Done(c)
    /\ UNCHANGED <<registry, view, fetch, creating, disturbed>>

HandleDelete(c) ==
    /\ view = "shown" /\ calls[c].op = "delete" /\ calls[c].reply # "none"
    /\ orgs' = IF calls[c].reply = "ok" THEN orgs \ {calls[c].org} ELSE orgs
    /\ Done(c)
    /\ UNCHANGED <<registry, view, fetch, creating, disturbed>>

-----------------------------------------------------------------------------
Next ==
    \/ ServeList \/ Load \/ CreateForm \/ Foreign \/ Leave \/ Open
    \/ \E o \in Orgs : DeleteButton(o)
    \/ \E c \in Slots : Serve(c) \/ HandleCreate(c) \/ HandleDelete(c)

Spec == Init /\ [][Next]_vars

-----------------------------------------------------------------------------
(* Properties *)

\* The rows, never fetched again (page.tsx:43-45), are the organisations there
\* are once the page's requests are answered; but for an organisation whose change
\* crossed the initial list, overlapped another, lost its answer, or was not the page's.
ListAgrees ==
    view = "shown" /\ listing = "done" /\ (\A c \in Slots : calls[c] = Idle)
        => orgs \ disturbed = stored \ disturbed
=============================================================================
