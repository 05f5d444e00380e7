------------------------------- MODULE Billing -------------------------------
(***************************************************************************)
(* The subscription of one organisation: the billing handlers            *)
(* (admin/backend/internal/handler/billing.go), the columns of the        *)
(* organisation row they share with UpdateOrg and DeleteOrg, the          *)
(* billing_cleanup_jobs table, and Stripe.                                *)
(*                                                                        *)
(* One step is one SQL statement or one call to Stripe.  No handler here  *)
(* opens a transaction, so whatever another request does between two      *)
(* steps is seen by the second and missed by the first.                   *)
(*                                                                        *)
(* Stripe is external: a checkout session, the subscription it starts and *)
(* the payment it takes are one member of Subs.  Its events are delivered *)
(* at least once and in no order: an event stays in events until an       *)
(* answer 2xx reaches Stripe.                                             *)
(***************************************************************************)
EXTENDS Plans, FiniteSets

CONSTANTS
    Subs,      \* checkout sessions and their subscriptions (the bound of a run)
    JobIds,    \* primary keys billing_cleanup_jobs can hand out (a bound)
    Reqs,      \* request slots: how many requests are served at once
    NoSub,     \* stripe_subscription_id IS NULL
    NoJob      \* a request that has persisted no job

ASSUME NullsAreFresh == NoSub \notin Subs /\ NoJob \notin JobIds

VARIABLES
    plan,      \* organizations.plan
    sub,       \* organizations.stripe_subscription_id
    deleted,   \* organizations.deleted_at IS NOT NULL
    jobs,      \* the table billing_cleanup_jobs
    status,    \* status[s]: the subscription at Stripe
    payment,   \* payment[s]: its payment intent at Stripe
    events,    \* the events Stripe has yet to see answered 2xx
    pc,        \* pc[r]: the next step of request r
    req        \* req[r]: what request r works on and what it has read

orgRow == <<plan, sub, deleted>>
stripe == <<status, payment, events>>
vars   == <<plan, sub, deleted, jobs, status, payment, events, pc, req>>

Job == [id : JobIds, sub : Subs, cancelled : BOOLEAN, refunded : BOOLEAN]

Completed(s) == [type |-> "completed", sub |-> s]
Deleted(s)   == [type |-> "deleted", sub |-> s]
Events == {Completed(s) : s \in Subs} \cup {Deleted(s) : s \in Subs}

Steps == {"createSession", "upgrade", "persistJob", "cleanupCancel",
          "cleanupRefund", "recordCleanup", "downgrade", "cancel",
          "cancelFirst", "promote", "save", "delete"}

\* plan and sub: the columns read; sub is the event's subscription in a
\* webhook.  job, cancelled and refunded: what the inline cleanup has achieved.
Request == [plan : PlanNames, sub : Subs \cup {NoSub}, job : JobIds \cup {NoJob},
            cancelled : BOOLEAN, refunded : BOOLEAN]

Idle == [plan |-> Free, sub |-> NoSub, job |-> NoJob,
         cancelled |-> FALSE, refunded |-> FALSE]

TypeOK ==
    /\ plan \in PlanNames
    /\ sub \in Subs \cup {NoSub}
    /\ deleted \in BOOLEAN
    /\ jobs \subseteq Job
    /\ status \in [Subs -> {"none", "open", "active", "cancelled"}]
    /\ payment \in [Subs -> {"none", "charged", "refunded"}]
    /\ events \subseteq Events
    /\ pc \in [Reqs -> Steps \cup {"idle"}]
    /\ req \in [Reqs -> Request]

Init ==
    /\ plan = Free
    /\ sub = NoSub
    /\ deleted = FALSE
    /\ jobs = {}
    /\ status = [s \in Subs |-> "none"]
    /\ payment = [s \in Subs |-> "none"]
    /\ events = {}
    /\ pc = [r \in Reqs |-> "idle"]
    /\ req = [r \in Reqs |-> Idle]

-----------------------------------------------------------------------------
(* Stripe *)

\* The customer pays in the browser; a payment intent may come with it.
Pay(s) ==
    /\ status[s] = "open"
    /\ status' = [status EXCEPT ![s] = "active"]
    /\ payment' \in {payment, [payment EXCEPT ![s] = "charged"]}
    /\ events' = events \cup {Completed(s)}
    /\ UNCHANGED <<orgRow, jobs, pc, req>>

\* A subscription ends, and Stripe announces it.
EndsAtStripe(s) ==
    /\ status[s] = "active"
    /\ status' = [status EXCEPT ![s] = "cancelled"]
    /\ events' = events \cup {Deleted(s)}
    /\ UNCHANGED payment

\* It may end without a call of ours: an unpaid invoice, the dashboard.
EndSubscription(s) ==
    /\ EndsAtStripe(s)
    /\ UNCHANGED <<orgRow, jobs, pc, req>>

\* A call that returned an error: refused, unreachable, or done and the answer
\* lost.
CancelFails(s) == EndsAtStripe(s) \/ UNCHANGED stripe

Refunded(s) ==
    /\ payment[s] = "charged"
    /\ payment' = [payment EXCEPT ![s] = "refunded"]
    /\ UNCHANGED <<status, events>>

RefundFails(s) == Refunded(s) \/ UNCHANGED stripe

-----------------------------------------------------------------------------
(* Steps common to the requests *)

Goto(r, step, data) ==
    /\ pc' = [pc EXCEPT ![r] = step]
    /\ req' = [req EXCEPT ![r] = data]

Finish(r) == Goto(r, "idle", Idle)

\* The answer 200 to an event, which may not reach Stripe: then the event is
\* delivered again.
Acknowledge(e) ==
    /\ events' \in {events, events \ {e}}
    /\ UNCHANGED <<status, payment>>

\* A statement or a call fails, or the process dies: the request is answered
\* 5xx or not at all, and a webhook's event is delivered again.
Abort(r) ==
    /\ pc[r] # "idle"
    /\ Finish(r)
    /\ UNCHANGED <<orgRow, jobs, stripe>>

-----------------------------------------------------------------------------
(* CreateCheckout: refused unless the plan is free *)

BeginCheckout(r) ==
    /\ pc[r] = "idle"
    /\ ~deleted
    /\ plan = Free
    /\ Goto(r, "createSession", Idle)
    /\ UNCHANGED <<orgRow, jobs, stripe>>

\* Stripe opens a session, or refuses (in a run: the last one is used up).
CreateSession(r) ==
    /\ pc[r] = "createSession"
    /\ \/ \E s \in Subs :
              /\ status[s] = "none"
              /\ status' = [status EXCEPT ![s] = "open"]
       \/ UNCHANGED status
    /\ Finish(r)
    /\ UNCHANGED <<orgRow, jobs, payment, events>>

-----------------------------------------------------------------------------
(* HandleWebhook, checkout.session.completed *)

\* The organisation is looked up by the UUID in the metadata: an unknown one is
\* acknowledged, an enterprise one gets a cleanup job, any other is upgraded.
ReceiveCompleted(r, s) ==
    /\ pc[r] = "idle"
    /\ Completed(s) \in events
    /\ \/ /\ deleted
          /\ Acknowledge(Completed(s))
          /\ UNCHANGED <<pc, req>>
       \/ /\ ~deleted
          /\ Goto(r, IF plan = Enterprise THEN "persistJob" ELSE "upgrade",
                  [Idle EXCEPT !.sub = s])
          /\ UNCHANGED stripe
    /\ UNCHANGED <<orgRow, jobs>>

\* UPDATE ... SET plan = 'pro', stripe_subscription_id WHERE id: no condition
\* on the plan, but a deleted row is not touched.
UpgradeToPro(r) ==
    /\ pc[r] = "upgrade"
    /\ \/ /\ deleted
          /\ UNCHANGED orgRow
       \/ /\ ~deleted
          /\ plan' = Pro
          /\ sub' = req[r].sub
          /\ UNCHANGED deleted
    /\ Acknowledge(Completed(req[r].sub))
    /\ Finish(r)
    /\ UNCHANGED jobs

\* Mutant: a failure to persist the job is answered 200 all the same.
PersistJobUnchecked(r) ==
    /\ pc[r] = "persistJob"
    /\ Acknowledge(Completed(req[r].sub))
    /\ Finish(r)
    /\ UNCHANGED <<orgRow, jobs>>

\* Mutant: the cleanup runs first, the job is persisted by whoever retries it.
PersistJobLater(r) ==
    /\ pc[r] = "persistJob"
    /\ Goto(r, "cleanupCancel", req[r])
    /\ UNCHANGED <<orgRow, jobs, stripe>>

\* The job is committed before anything is done about it.
PersistJob(r) ==
    /\ pc[r] = "persistJob"
    /\ \E id \in JobIds :
          /\ \A j \in jobs : j.id # id
          /\ jobs' = jobs \cup {[id |-> id, sub |-> req[r].sub,
                                 cancelled |-> FALSE, refunded |-> FALSE]}
          /\ Goto(r, "cleanupCancel", [req[r] EXCEPT !.job = id])
    /\ UNCHANGED <<orgRow, stripe>>

\* attemptEnterpriseCleanup: the cancellation, whose failure stops nothing.
CleanupCancel(r) ==
    /\ pc[r] = "cleanupCancel"
    /\ \/ /\ EndsAtStripe(req[r].sub)
          /\ Goto(r, "cleanupRefund", [req[r] EXCEPT !.cancelled = TRUE])
       \/ /\ CancelFails(req[r].sub)
          /\ Goto(r, "cleanupRefund", req[r])
    /\ UNCHANGED <<orgRow, jobs>>

\* The refund, when the event named a payment intent.
CleanupRefund(r) ==
    /\ pc[r] = "cleanupRefund"
    /\ \/ /\ Refunded(req[r].sub)
          /\ Goto(r, "recordCleanup", [req[r] EXCEPT !.refunded = TRUE])
       \/ /\ RefundFails(req[r].sub)
          /\ Goto(r, "recordCleanup", req[r])
    /\ UNCHANGED <<orgRow, jobs>>

\* Mutant: both marks are set whatever Stripe answered.
RecordCleanupOptimistic(r) ==
    /\ pc[r] = "recordCleanup"
    /\ jobs' = {IF j.id = req[r].job
                THEN [j EXCEPT !.cancelled = TRUE, !.refunded = TRUE]
                ELSE j : j \in jobs}
    /\ Acknowledge(Completed(req[r].sub))
    /\ Finish(r)
    /\ UNCHANGED orgRow

\* The outcome is written on the job.  When that fails it is only logged: the
\* event is acknowledged either way.
RecordCleanup(r) ==
    /\ pc[r] = "recordCleanup"
    /\ \/ jobs' = {IF j.id = req[r].job
                   THEN [j EXCEPT !.cancelled = j.cancelled \/ req[r].cancelled,
                                  !.refunded = j.refunded \/ req[r].refunded]
                   ELSE j : j \in jobs}
       \/ UNCHANGED jobs
    /\ Acknowledge(Completed(req[r].sub))
    /\ Finish(r)
    /\ UNCHANGED orgRow

-----------------------------------------------------------------------------
(* HandleWebhook, customer.subscription.deleted *)

\* Mutant: an unknown subscription is answered 5xx.
ReceiveDeletedUnknownFails(r, s) ==
    /\ pc[r] = "idle"
    /\ Deleted(s) \in events
    /\ ~deleted /\ sub = s
    /\ Goto(r, "downgrade", [Idle EXCEPT !.sub = s])
    /\ UNCHANGED <<orgRow, jobs, stripe>>

\* The organisation is looked up by the subscription its row names now.
ReceiveDeleted(r, s) ==
    /\ pc[r] = "idle"
    /\ Deleted(s) \in events
    /\ \/ /\ deleted \/ sub # s
          /\ Acknowledge(Deleted(s))
          /\ UNCHANGED <<pc, req>>
       \/ /\ ~deleted /\ sub = s
          /\ Goto(r, "downgrade", [Idle EXCEPT !.sub = s])
          /\ UNCHANGED stripe
    /\ UNCHANGED <<orgRow, jobs>>

\* Mutant: the plan alone is reset.
DowngradeKeepsSub(r) ==
    /\ pc[r] = "downgrade"
    /\ IF deleted THEN UNCHANGED plan ELSE plan' = Free
    /\ Acknowledge(Deleted(req[r].sub))
    /\ Finish(r)
    /\ UNCHANGED <<sub, deleted, jobs>>

\* UPDATE ... SET plan = 'free', stripe_subscription_id = NULL, by primary key.
Downgrade(r) ==
    /\ pc[r] = "downgrade"
    /\ \/ /\ deleted
          /\ UNCHANGED orgRow
       \/ /\ ~deleted
          /\ plan' = Free
          /\ sub' = NoSub
          /\ UNCHANGED deleted
    /\ Acknowledge(Deleted(req[r].sub))
    /\ Finish(r)
    /\ UNCHANGED jobs

-----------------------------------------------------------------------------
(* CancelSubscription: Stripe only; the row waits for the webhook *)

BeginCancel(r) ==
    /\ pc[r] = "idle"
    /\ ~deleted
    /\ plan = Pro
    /\ sub # NoSub
    /\ Goto(r, "cancel", [Idle EXCEPT !.sub = sub])
    /\ UNCHANGED <<orgRow, jobs, stripe>>

CancelSubscription(r) ==
    /\ pc[r] = "cancel"
    /\ EndsAtStripe(req[r].sub) \/ CancelFails(req[r].sub)
    /\ Finish(r)
    /\ UNCHANGED <<orgRow, jobs>>

-----------------------------------------------------------------------------
(* AssignEnterprisePlan *)

BeginEnterprise(r) ==
    /\ pc[r] = "idle"
    /\ ~deleted
    /\ plan # Enterprise
    /\ Goto(r, IF sub = NoSub THEN "promote" ELSE "cancelFirst",
            [Idle EXCEPT !.sub = sub])
    /\ UNCHANGED <<orgRow, jobs, stripe>>

\* Mutant: the cancellation is best-effort.
CancelFirstBestEffort(r) ==
    /\ pc[r] = "cancelFirst"
    /\ CancelFails(req[r].sub)
    /\ Goto(r, "promote", req[r])
    /\ UNCHANGED <<orgRow, jobs>>

\* A failed cancellation ends the request: the organisation is not promoted.
CancelFirst(r) ==
    /\ pc[r] = "cancelFirst"
    /\ \/ /\ EndsAtStripe(req[r].sub)
          /\ Goto(r, "promote", req[r])
       \/ /\ CancelFails(req[r].sub)
          /\ Finish(r)
    /\ UNCHANGED <<orgRow, jobs>>

\* The subscription column is cleared only if one was read.
Promote(r) ==
    /\ pc[r] = "promote"
    /\ \/ /\ deleted
          /\ UNCHANGED orgRow
       \/ /\ ~deleted
          /\ plan' = Enterprise
          /\ sub' = IF req[r].sub = NoSub THEN sub ELSE NoSub
          /\ UNCHANGED deleted
    /\ Finish(r)
    /\ UNCHANGED <<jobs, stripe>>

-----------------------------------------------------------------------------
(* UpdateOrg and DeleteOrg, the other writers of the row *)

LoadOrg(r, next) ==
    /\ pc[r] = "idle"
    /\ next \in {"save", "delete"}
    /\ ~deleted
    /\ Goto(r, next, [Idle EXCEPT !.plan = plan, !.sub = sub])
    /\ UNCHANGED <<orgRow, jobs, stripe>>

\* Every column of the row as it was read; a row deleted since is restored.
SaveOrg(r) ==
    /\ pc[r] = "save"
    /\ plan' = req[r].plan
    /\ sub' = req[r].sub
    /\ deleted' = FALSE
    /\ Finish(r)
    /\ UNCHANGED <<jobs, stripe>>

DeleteOrg(r) ==
    /\ pc[r] = "delete"
    /\ deleted' = TRUE
    /\ Finish(r)
    /\ UNCHANGED <<plan, sub, jobs, stripe>>

-----------------------------------------------------------------------------
Webhook(r) ==
    \/ UpgradeToPro(r) \/ PersistJob(r) \/ CleanupCancel(r) \/ CleanupRefund(r)
    \/ RecordCleanup(r) \/ Downgrade(r)

Receive(r, s) == ReceiveCompleted(r, s) \/ ReceiveDeleted(r, s)

Billed(r) ==
    \/ BeginCheckout(r) \/ CreateSession(r)
    \/ BeginCancel(r) \/ CancelSubscription(r)
    \/ BeginEnterprise(r) \/ CancelFirst(r) \/ Promote(r)
    \/ SaveOrg(r) \/ DeleteOrg(r)
    \/ \E next \in {"save", "delete"} : LoadOrg(r, next)

Next ==
    \/ \E s \in Subs : Pay(s) \/ EndSubscription(s)
    \/ \E r \in Reqs : Webhook(r) \/ Billed(r) \/ Abort(r)
    \/ \E r \in Reqs, s \in Subs : Receive(r, s)

\* A delivery of event e, and the answer that takes it off Stripe's list.
Delivery(e) ==
    \E r \in Reqs : IF e.type = "completed" THEN ReceiveCompleted(r, e.sub)
                                           ELSE ReceiveDeleted(r, e.sub)

Answer(e) ==
    /\ \/ \E r \in Reqs : Webhook(r)
       \/ Delivery(e)
    /\ e \in events /\ e \notin events'

\* Stripe delivers an event again until it is answered 2xx, and neither the
\* database, nor the answer's way back, nor the process fails every single time.
\* A request that runs goes on; nobody has to pay, to cancel or to send one.
Fairness ==
    /\ \A r \in Reqs : WF_vars(Webhook(r)) /\ WF_vars(Billed(r) /\ pc[r] # "idle")
    /\ \A e \in Events : SF_vars(Delivery(e)) /\ SF_vars(Answer(e))
    /\ SF_vars(\E r \in Reqs : PersistJob(r))

Spec == Init /\ [][Next]_vars /\ Fairness

-----------------------------------------------------------------------------
(* Properties *)

\* The two columns the billing handlers decide on always agree, whichever of
\* the four writers wrote last: a pro organisation names its subscription
\* (CancelSubscription's 422 for a pro plan without one is unreachable), a free
\* one names none.
PlanMatchesSub ==
    /\ plan = Pro => sub # NoSub
    /\ plan = Free => sub = NoSub

\* "We persist a BillingCleanupJob *before* acknowledging" (billing.go:218-224):
\* money is refunded only with a committed job that says for which subscription.
RefundsHaveJobs ==
    \A s \in Subs : payment[s] = "refunded" => \E j \in jobs : j.sub = s

\* What a job says was done was done, so a retry that skips it loses nothing.
JobMarksAreTrue ==
    \A j \in jobs : /\ j.cancelled => status[j.sub] = "cancelled"
                    /\ j.refunded => payment[j.sub] = "refunded"

\* AssignEnterprisePlan promotes only when the subscription it read has ended
\* at Stripe: "If cancellation fails ... the org is not promoted"
\* (admin/backend/README.md:632).
PromotionAfterCancel ==
    \A r \in Reqs : pc[r] = "promote" /\ req[r].sub # NoSub
                        => status[req[r].sub] = "cancelled"

\* No paid checkout is acknowledged and forgotten: when Stripe stops delivering
\* a completion the organisation was gone, or got the subscription in this very
\* step, or a job owes its cancellation.
CompletionsAreAccounted ==
    [][\A s \in Subs : Completed(s) \in events \ events'
          => deleted \/ (plan' = Pro /\ sub' = s) \/ \E j \in jobs' : j.sub = s]_vars

\* An enterprise organisation is never turned into a pro one: of a completed
\* checkout, "The org's plan is never changed" (admin/backend/README.md:629).
EnterpriseIsKept == [][plan = Enterprise => plan' # Pro]_vars

\* A pro organisation pays: when its subscription has ended at Stripe, the event
\* that will downgrade it is still to come.  ("Plan reverts to free when the
\* webhook fires", admin/backend/README.md:620.)
ProIsPaidFor ==
    plan = Pro /\ status[sub] = "cancelled" => Deleted(sub) \in events

\* No event is poison: whatever became of the organisation and in whatever order
\* events come, each is acknowledged in the end, unless a run has no job key
\* left to hand out.
EventsAreAcknowledged ==
    \A e \in Events :
        e \in events ~> \/ e \notin events
                         \/ \A id \in JobIds : \E j \in jobs : j.id = id
=============================================================================
