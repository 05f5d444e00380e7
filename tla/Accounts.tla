------------------------------ MODULE Accounts ------------------------------
(***************************************************************************)
(* The users table and the handlers that write it: Register, the Google   *)
(* sign-in and its service-to-service twin, which share                   *)
(* findOrCreateGoogleUser, the MFA handlers, AssignSystemRole, the        *)
(* password a reset sets, and cmd/seed-root (under admin/backend).        *)
(*                                                                        *)
(* One step is one SQL statement.  SetupMFA, EnableMFA, DisableMFA and    *)
(* the Google link read a row, change it in memory and write every column *)
(* back (GORM Save), without a lock or a version; the others write one    *)
(* column, or insert.  No code deletes a user.                            *)
(*                                                                        *)
(* An account is known by its address, which is UNIQUE and never written  *)
(* again.  Login, VerifyMFA and InternalLogin only read.                  *)
(***************************************************************************)
EXTENDS FiniteSets

CONSTANTS
    Emails,    \* addresses (the bound of a run, as the next two are)
    Googles,   \* Google identities
    Secrets,   \* TOTP secrets that can be generated
    Reqs,      \* request slots: how many requests are served at once
    NoEmail,   \* a slot that serves no request
    NoGoogle,  \* google_id IS NULL
    NoSecret,  \* totp_secret IS NULL
    LookupMayFail  \* whether the lookups of Register and seed-root can fail

ASSUME NullsAreFresh ==
    /\ NoEmail \notin Emails /\ NoGoogle \notin Googles /\ NoSecret \notin Secrets
    /\ LookupMayFail \in BOOLEAN

VARIABLES
    known,     \* the addresses that have an account
    users,     \* users[e]: the row of account e
    proven,    \* secrets somebody has shown a valid code for, with the account
    pc,        \* pc[r]: the next statement of request r
    req        \* req[r]: the account it works on and the row it has in memory

vars == <<known, users, proven, pc, req>>

Roles == {"none", "system", "root"}

\* password: whether password_hash is set.
Row == [password : BOOLEAN, google : Googles \cup {NoGoogle},
        secret : Secrets \cup {NoSecret}, mfa : BOOLEAN, role : Roles]

Blank == [password |-> FALSE, google |-> NoGoogle, secret |-> NoSecret,
          mfa |-> FALSE, role |-> "none"]

\* google: the identity that signs in.
Request == [email : Emails \cup {NoEmail}, google : Googles \cup {NoGoogle}, row : Row]

Idle == [email |-> NoEmail, google |-> NoGoogle, row |-> Blank]

Steps == {"findByEmail", "insert", "save", "assign"}

TypeOK ==
    /\ known \subseteq Emails
    /\ users \in [Emails -> Row]
    /\ proven \subseteq Emails \X Secrets
    /\ pc \in [Reqs -> Steps \cup {"idle"}]
    /\ req \in [Reqs -> Request]

Init ==
    /\ known = {}
    /\ users = [e \in Emails |-> Blank]
    /\ proven = {}
    /\ pc = [r \in Reqs |-> "idle"]
    /\ req = [r \in Reqs |-> Idle]

Goto(r, step, data) ==
    /\ pc' = [pc EXCEPT ![r] = step]
    /\ req' = [req EXCEPT ![r] = data]

\* What is next for a request that holds this row of account e.
Holding(r, step, e, row) == Goto(r, step, [email |-> e, google |-> NoGoogle, row |-> row])

Finish(r) == Goto(r, "idle", Idle)

\* google_id is UNIQUE: another account has it.
GoogleTaken(g, e) == g # NoGoogle /\ \E f \in known \ {e} : users[f].google = g

-----------------------------------------------------------------------------
(* Inserts *)

\* Register: refused when the address is taken.  A lookup that fails counts as
\* one that found nobody, here and in seed-root.
Register(r, e) ==
    /\ pc[r] = "idle"
    /\ e \notin known \/ LookupMayFail
    /\ Holding(r, "insert", e, [Blank EXCEPT !.password = TRUE])
    /\ UNCHANGED <<known, users, proven>>

\* seed-root: does nothing when some account is root.
SeedRoot(r, e) ==
    /\ pc[r] = "idle"
    /\ (\A f \in known : users[f].role # "root") \/ LookupMayFail
    /\ Holding(r, "insert", e, [Blank EXCEPT !.password = TRUE, !.role = "root"])
    /\ UNCHANGED <<known, users, proven>>

\* Mutant: an upsert on the address, so that seeding can be repeated.
InsertUserUpserts(r) ==
    /\ pc[r] = "insert"
    /\ ~GoogleTaken(req[r].row.google, req[r].email)
    /\ known' = known \cup {req[r].email}
    /\ users' = [users EXCEPT ![req[r].email] = req[r].row]
    /\ Finish(r)
    /\ UNCHANGED proven

\* INSERT: fails on either UNIQUE column, whatever was looked up before.
InsertUser(r) ==
    /\ pc[r] = "insert"
    /\ \/ /\ req[r].email \notin known
          /\ ~GoogleTaken(req[r].row.google, req[r].email)
          /\ known' = known \cup {req[r].email}
          /\ users' = [users EXCEPT ![req[r].email] = req[r].row]
       \/ /\ req[r].email \in known \/ GoogleTaken(req[r].row.google, req[r].email)
          /\ UNCHANGED <<known, users>>
    /\ Finish(r)
    /\ UNCHANGED proven

-----------------------------------------------------------------------------
(* findOrCreateGoogleUser; the address is what Google says today *)

\* An identity that is linked signs in at once; else the address decides.
FindByGoogle(r, g, e) ==
    /\ pc[r] = "idle"
    /\ \A f \in known : users[f].google # g
    /\ Goto(r, "findByEmail", [email |-> e, google |-> g, row |-> Blank])
    /\ UNCHANGED <<known, users, proven>>

\* An account with that address is linked, whatever it was linked to; with none,
\* one is created.
FindByEmail(r) ==
    /\ pc[r] = "findByEmail"
    /\ LET e == req[r].email
           g == req[r].google
       IN  \/ /\ e \in known
              /\ Holding(r, "save", e, [users[e] EXCEPT !.google = g])
           \/ /\ e \notin known
              /\ Holding(r, "insert", e, [Blank EXCEPT !.google = g])
    /\ UNCHANGED <<known, users, proven>>

-----------------------------------------------------------------------------
(* MFA: read, check and change the row in memory; SaveUser writes it *)

\* A new random secret: not the one it replaces, nor one confirmed before.
SetupMFA(r, e) ==
    /\ pc[r] = "idle"
    /\ e \in known
    /\ ~users[e].mfa
    /\ \E s \in Secrets :
          /\ s # users[e].secret /\ <<e, s>> \notin proven
          /\ Holding(r, "save", e, [users[e] EXCEPT !.secret = s])
    /\ UNCHANGED <<known, users, proven>>

\* A valid code proves that the user's authenticator has the secret.
EnableMFA(r, e) ==
    /\ pc[r] = "idle"
    /\ e \in known
    /\ ~users[e].mfa
    /\ users[e].secret # NoSecret
    /\ proven' = proven \cup {<<e, users[e].secret>>}
    /\ Holding(r, "save", e, [users[e] EXCEPT !.mfa = TRUE])
    /\ UNCHANGED <<known, users>>

DisableMFA(r, e) ==
    /\ pc[r] = "idle"
    /\ e \in known
    /\ users[e].mfa
    /\ users[e].secret # NoSecret
    /\ proven' = proven \cup {<<e, users[e].secret>>}
    /\ Holding(r, "save", e, [users[e] EXCEPT !.mfa = FALSE, !.secret = NoSecret])
    /\ UNCHANGED <<known, users>>

\* Mutant: Updates(&user), which leaves out the columns that are zero.
SaveUserNonZero(r) ==
    /\ pc[r] = "save"
    /\ LET e   == req[r].email
           new == req[r].row
       IN  users' = [users EXCEPT ![e] =
               [password |-> new.password \/ @.password,
                google |-> IF new.google = NoGoogle THEN @.google ELSE new.google,
                secret |-> IF new.secret = NoSecret THEN @.secret ELSE new.secret,
                mfa |-> new.mfa \/ @.mfa,
                role |-> IF new.role = "none" THEN @.role ELSE new.role]]
    /\ Finish(r)
    /\ UNCHANGED <<known, proven>>

\* Save: every column as it is in memory, over whatever has been written since.
SaveUser(r) ==
    /\ pc[r] = "save"
    /\ \/ /\ ~GoogleTaken(req[r].row.google, req[r].email)
          /\ users' = [users EXCEPT ![req[r].email] = req[r].row]
       \/ /\ GoogleTaken(req[r].row.google, req[r].email)
          /\ UNCHANGED users
    /\ Finish(r)
    /\ UNCHANGED <<known, proven>>

-----------------------------------------------------------------------------
(* Writers of one column *)

\* AssignSystemRole: root accounts are refused, by the role that was read.
ReadRole(r, e, role) ==
    /\ pc[r] = "idle"
    /\ e \in known
    /\ users[e].role # "root"
    /\ role \in {"none", "system"}
    /\ Holding(r, "assign", e, [Blank EXCEPT !.role = role])
    /\ UNCHANGED <<known, users, proven>>

\* Mutant: Save instead of Update, of a row that holds nothing but the role.
AssignRoleSaves(r) ==
    /\ pc[r] = "assign"
    /\ users' = [users EXCEPT ![req[r].email] = req[r].row]
    /\ Finish(r)
    /\ UNCHANGED <<known, proven>>

AssignRole(r) ==
    /\ pc[r] = "assign"
    /\ users' = [users EXCEPT ![req[r].email].role = req[r].row.role]
    /\ Finish(r)
    /\ UNCHANGED <<known, proven>>

\* The UPDATE of password_hash by ResetPassword (module PasswordReset).
ResetPassword(e) ==
    /\ e \in known
    /\ users' = [users EXCEPT ![e].password = TRUE]
    /\ UNCHANGED <<known, proven, pc, req>>

\* A statement fails, or the process dies.
Abort(r) ==
    /\ pc[r] # "idle"
    /\ Finish(r)
    /\ UNCHANGED <<known, users, proven>>

-----------------------------------------------------------------------------
Next ==
    \/ \E r \in Reqs : \/ InsertUser(r) \/ FindByEmail(r) \/ SaveUser(r)
                       \/ AssignRole(r) \/ Abort(r)
    \/ \E r \in Reqs, e \in Emails :
          \/ Register(r, e) \/ SeedRoot(r, e)
          \/ SetupMFA(r, e) \/ EnableMFA(r, e) \/ DisableMFA(r, e)
          \/ \E g \in Googles : FindByGoogle(r, g, e)
          \/ \E role \in Roles : ReadRole(r, e, role)
    \/ \E e \in Emails : ResetPassword(e)

Spec == Init /\ [][Next]_vars

-----------------------------------------------------------------------------
(* Properties *)

\* The second factor that Login demands is one the user has: whichever writers of
\* the row overtook each other, an account with MFA on has a secret that a code
\* was validated against, so no user is asked for codes of a secret never confirmed.
SecondFactorIsProven ==
    \A e \in known : users[e].mfa => <<e, users[e].secret>> \in proven

\* "no API endpoint creates it" (model/role.go:7, of root), and
\* AssignSystemRole protects root accounts: neither it nor any row written back
\* late makes an account root or takes root away.
RootIsFixed ==
    [][\A e \in known : users[e].role = "root" <=> users'[e].role = "root"]_vars

\* No account is without a way in, a password or a Google identity, although
\* requests that write those columns back may overtake each other.
AccountsCanLogIn ==
    \A e \in known : users[e].password \/ users[e].google # NoGoogle

\* "Deactivate MFA (requires current TOTP code)" (admin/backend/README.md:546):
\* when the second factor is switched off, the secret it is switched off for is
\* being cleared by the request that checked a code.
DisablingNeedsCode ==
    [][\A e \in known : users[e].mfa /\ ~users'[e].mfa
          => users'[e].secret = NoSecret]_vars
=============================================================================
