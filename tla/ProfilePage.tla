---------------------------- MODULE ProfilePage ----------------------------
(***************************************************************************)
(* The profile page of the admin web app (app/[locale]/profile/page.tsx)   *)
(* and the second factor it sets up, enables and disables, one request     *)
(* after the other; the server's handlers are those of module Accounts,    *)
(* here in one step each, with their answer in another, or lost.  Whatever *)
(* else writes the user's row is Elsewhere, a request the page has given   *)
(* up included: the fetch has no timeout of the app and no abort.          *)
(***************************************************************************)
CONSTANTS
    Secrets,     \* secrets the server can make (a bound)
    Slots,       \* requests in flight at once (a bound)
    Nothing      \* null

VARIABLES
    enabled,     \* server: user.MFAEnabled
    secret,      \* server: user.TOTPSecret
    made,        \* server: secrets made so far
    view,        \* "loading", "shown", "failed" or "left"
    mfaShown,    \* user.mfa_enabled
    mfaStep,     \* mfaStep
    setupData,   \* setupData: the secret behind the QR code
    loading,     \* loading
    calls,       \* calls[c]: a request in flight
    lost,        \* history: since the page was last told, an answer was lost, me failed
                 \* after a change, or others changed the account
    overwritten  \* history: others changed the account since the page's last setup

account == <<enabled, secret, made>>
section == <<view, mfaShown, mfaStep, setupData, loading>>
past    == <<lost, overwritten>>
vars    == <<account, section, calls, past>>

\* key: the secret whose code was typed, or the one in the answer; status: whether
\* MFA is on, in the answer to me.
Request(op, key) == [op |-> op, key |-> key, reply |-> "none", status |-> FALSE]
Idle == Request("idle", Nothing)
Call == [op : {"setup", "enable", "disable", "me"}, key : Secrets \cup {Nothing},
         reply : {"none", "ok", "refused"}, status : BOOLEAN]

TypeOK ==
    /\ enabled \in BOOLEAN /\ secret \in Secrets \cup {Nothing} /\ made \subseteq Secrets
    /\ view \in {"loading", "shown", "failed", "left"} /\ mfaShown \in BOOLEAN
    /\ mfaStep \in {"idle", "setup", "disabling"} /\ setupData \in Secrets \cup {Nothing}
    /\ loading \in BOOLEAN /\ calls \in [Slots -> Call \cup {Idle}]
    /\ lost \in BOOLEAN /\ overwritten \in BOOLEAN

Init ==
    /\ \/ enabled = FALSE /\ secret = Nothing /\ made = {}
       \/ enabled = TRUE /\ secret \in Secrets /\ made = {secret}
    /\ view = "loading" /\ mfaShown = FALSE
    /\ mfaStep = "idle" /\ setupData = Nothing /\ loading = FALSE
    /\ \E c \in Slots : calls = [d \in Slots |-> IF d = c THEN Request("me", Nothing) ELSE Idle]
    /\ lost = FALSE /\ overwritten = FALSE

\* Nothing is shown, and no answer is waited for.
Blank ==
    /\ mfaShown' = FALSE /\ mfaStep' = "idle" /\ setupData' = Nothing /\ loading' = FALSE
    /\ calls' = [c \in Slots |-> Idle]

\* The page is left; what it has asked for is given up.
Leave ==
    /\ view # "left"
    /\ view' = "left"
    /\ Blank
    /\ UNCHANGED <<account, past>>

\* It is opened again: the effect asks for the user.
Open ==
    /\ view = "left"
    /\ view' = "loading"
    /\ \E c \in Slots : calls' = [calls EXCEPT ![c] = Request("me", Nothing)]
    /\ UNCHANGED <<account, mfaShown, mfaStep, setupData, loading, past>>

\* The answer to it; a 401 leads to the login page, another failure to a banner.
Load(c) ==
    /\ view = "loading" /\ calls[c].op = "me"
    /\ \/ /\ calls[c].reply = "ok"
          /\ view' = "shown" /\ mfaShown' = calls[c].status
       \/ /\ calls[c].reply = "refused"
          /\ view' \in {"failed", "left"}
          /\ UNCHANGED mfaShown
    /\ calls' = [calls EXCEPT ![c] = Idle]
    /\ UNCHANGED <<account, mfaStep, setupData, loading, past>>

-----------------------------------------------------------------------------
(* The three views of the section *)

Send(op, key) ==
    /\ \E c \in Slots : calls[c] = Idle /\ calls' = [calls EXCEPT ![c] = Request(op, key)]
    /\ loading' = TRUE
    /\ UNCHANGED <<account, view, mfaShown, mfaStep, setupData, past>>

\* Mutant: the button is not disabled.
StartAgain ==
    /\ view = "shown" /\ mfaStep = "idle" /\ ~mfaShown
    /\ Send("setup", Nothing)

\* Idle: the button that starts the setup.
StartButton ==
    /\ view = "shown" /\ mfaStep = "idle" /\ ~mfaShown /\ ~loading
    /\ Send("setup", Nothing)

\* Idle: the button that leads to the disable form, waiting or not.
DisableButton ==
    /\ view = "shown" /\ mfaStep = "idle" /\ mfaShown
    /\ mfaStep' = "disabling"
    /\ UNCHANGED <<account, view, mfaShown, setupData, loading, calls, past>>

\* Setup: the code typed is one of the secret shown, or none.
EnableForm ==
    /\ view = "shown" /\ mfaStep = "setup" /\ setupData # Nothing /\ ~loading
    /\ \E k \in {setupData, Nothing} : Send("enable", k)

\* Disabling: the user's authenticator holds the secret enrolled, or the code is wrong.
DisableForm ==
    /\ view = "shown" /\ mfaStep = "disabling" /\ ~loading
    /\ \E k \in {secret, Nothing} : Send("disable", k)

\* Cancel, in either form, while a request of it may be in flight.
HandleCancelSetup ==
    /\ view = "shown" /\ mfaStep # "idle"
    /\ mfaStep' = "idle" /\ setupData' = Nothing
    /\ UNCHANGED <<account, view, mfaShown, loading, calls, past>>

-----------------------------------------------------------------------------
(* The server *)

\* What SetupMFA, EnableMFA and DisableMFA ask for.
Possible(call) ==
    CASE call.op = "setup"   -> ~enabled /\ made # Secrets
      [] call.op = "enable"  -> ~enabled /\ secret # Nothing /\ call.key = secret
      [] call.op = "disable" -> enabled /\ call.key = secret
      [] OTHER               -> TRUE

CarryOut(c) ==
    \/ /\ calls[c].op = "setup"
       /\ \E s \in Secrets \ made :
            secret' = s /\ made' = made \cup {s} /\ calls' = [calls EXCEPT ![c].key = s, ![c].reply = "ok"]
       /\ UNCHANGED enabled
    \/ /\ calls[c].op = "enable"
       /\ enabled' = TRUE /\ calls' = [calls EXCEPT ![c].reply = "ok"]
       /\ UNCHANGED <<secret, made>>
    \/ /\ calls[c].op = "disable"
       /\ enabled' = FALSE /\ secret' = Nothing /\ calls' = [calls EXCEPT ![c].reply = "ok"]
       /\ UNCHANGED made
    \/ calls[c].op = "me" /\ calls' = [calls EXCEPT ![c].reply = "ok", ![c].status = enabled]
       /\ UNCHANGED account

Serve(c) ==
    /\ calls[c] # Idle /\ calls[c].reply = "none"
    /\ \/ /\ Possible(calls[c]) /\ CarryOut(c)
          /\ lost' = (lost /\ calls[c].op # "me")
          /\ overwritten' = (overwritten /\ calls[c].op # "setup")
       \/ /\ calls' = [calls EXCEPT ![c].reply = "refused"]
          /\ lost' = (lost \/ calls[c].op = "me")
          /\ UNCHANGED <<account, overwritten>>
    /\ UNCHANGED section

\* An answer on its way is lost, or the fetch that waits for it rejects.
Lose(c) ==
    /\ calls[c].reply = "ok"
    /\ calls' = [calls EXCEPT ![c].reply = "refused"]
    /\ lost' = TRUE
    /\ UNCHANGED <<account, section, overwritten>>

\* The row is written by a request nobody at this page waits for: one of another tab,
\* a reset or a link, or one the page has given up, which the server carries out only
\* now.  Such a write brings the whole row, as new or as old as module Accounts has it,
\* so that it also stands for one that was read before a request of this page.
Elsewhere ==
    /\ enabled' \in BOOLEAN /\ secret' \in Secrets \cup {Nothing}
    /\ enabled' => secret' # Nothing
    /\ <<enabled', secret'>> # <<enabled, secret>>
    /\ made' = made \cup ({secret'} \ {Nothing})
    /\ lost' = TRUE /\ overwritten' = TRUE
    /\ UNCHANGED <<section, calls>>

-----------------------------------------------------------------------------
(* The rest of the handlers, after their await *)

Answered(c, op, reply) == view = "shown" /\ calls[c].op = op /\ calls[c].reply = reply

\* The finally of a handler.
Finally(c) == loading' = FALSE /\ calls' = [calls EXCEPT ![c] = Idle]

HandleStartSetup(c) ==
    /\ Answered(c, "setup", "ok")
    /\ setupData' = calls[c].key /\ mfaStep' = "setup"
    /\ Finally(c)
    /\ UNCHANGED <<account, view, mfaShown, past>>

\* Done at the server: the handler asks for the user again.
HandleEnableMFA(c) ==
    /\ Answered(c, "enable", "ok")
    /\ calls' = [calls EXCEPT ![c] = Request("me", Nothing)]
    /\ UNCHANGED <<account, section, past>>

HandleDisableMFA(c) ==
    /\ Answered(c, "disable", "ok")
    /\ calls' = [calls EXCEPT ![c] = Request("me", Nothing)]
    /\ UNCHANGED <<account, section, past>>

\* Mutant: the user is not taken over.
UserForgotten(c) ==
    /\ Answered(c, "me", "ok")
    /\ mfaStep' = "idle" /\ setupData' = Nothing
    /\ Finally(c)
    /\ UNCHANGED <<account, view, mfaShown, past>>

\* The user, after either.
UserReloaded(c) ==
    /\ Answered(c, "me", "ok")
    /\ mfaShown' = calls[c].status
    /\ mfaStep' = "idle" /\ setupData' = Nothing
    /\ Finally(c)
    /\ UNCHANGED <<account, view, past>>

\* An error leaves the view as it is, whichever request of the handler failed.
Failed(c) ==
    /\ view = "shown" /\ calls[c].reply = "refused"
    /\ Finally(c)
    /\ UNCHANGED <<account, view, mfaShown, mfaStep, setupData, past>>

-----------------------------------------------------------------------------
Section == StartButton \/ DisableButton \/ EnableForm \/ DisableForm \/ HandleCancelSetup

Next ==
    \/ Section \/ Leave \/ Open \/ Elsewhere
    \/ \E c \in Slots :
        \/ Load(c) \/ Serve(c) \/ Lose(c)
        \/ HandleStartSetup(c) \/ HandleEnableMFA(c) \/ HandleDisableMFA(c)
        \/ UserReloaded(c) \/ Failed(c)

Spec == Init /\ [][Next]_vars

-----------------------------------------------------------------------------
(* Properties *)

\* The QR code shown is of the secret the server will check codes against
\* (page.tsx:49-51): of the page's own setups none is answered after a newer one,
\* cancelled forms included.  The excuse is a write of the row the page did not ask
\* for, or had given up, since its last setup was carried out.
ShownSecretIsCurrent ==
    mfaStep = "setup" /\ setupData # Nothing /\ ~overwritten => secret = setupData

\* What the page says of the second factor is so, once its requests are answered,
\* cancelled forms included.  The excuse is an answer that was lost, or a change by
\* others, since the page was last told; opening it again ends the excuse.
StatusIsTrue ==
    view = "shown" /\ ~lost /\ (\A c \in Slots : calls[c] = Idle) => mfaShown = enabled
=============================================================================
