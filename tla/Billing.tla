------------------------------ MODULE Billing -------------------------------
(***************************************************************************)
(* BillingService over Credits.  Stripe delivers its events in any order   *)
(* and again when it likes, answered or not; each handler is a fiber whose *)
(* statements commit one by one, and steps and agents debit the same       *)
(* balance meanwhile.                                                      *)
(***************************************************************************)
EXTENDS Credits

CONSTANTS
  Packs,          \* credit packs the organization buys
  MaxDeliveries,  \* bound on the deliveries
  MaxDebits,      \* bound on the debits asked for
  MaxCrashes      \* bound on crashes and rollbacks

\* checkout.session.completed of the packs and of the one subscription, invoice.paid of its first
\* and of a later month, customer.subscription.updated and deleted.
Events == Packs \cup {"subscribed", "firstInvoice", "renewal", "updated", "deleted"}
Work   == "usage"

BillingCauses == Events \cup {Work}

BillingPlaces == {"idle", "pack", "subscribe", "plan", "invoice", "update", "cancel", "downgrade"}
                   \cup Outcomes

ASSUME BillingAssumption ==
  /\ Places = BillingPlaces /\ Causes = BillingCauses
  /\ Packs \cap {"subscribed", "firstInvoice", "renewal", "updated", "deleted", Work} = {}

VARIABLES
  sent,        \* deliveries made, for the bound
  job,         \* per fiber: the event or the work it is about
  purchases,   \* purchases.stripe_payment_intent_id
  sub, plan,   \* subscriptions.status of the subscription, organizations.plan
  debits,      \* debits asked for, for the bound
  crashes      \* crashes and rollbacks

billingVars == <<purchases, sub, plan>>
allVars == <<vars, sent, billingVars, job, debits, crashes>>

BillingInit ==
  /\ Init
  /\ job = [f \in Fibers |-> Work]
  /\ purchases = {} /\ sub = "none" /\ plan = "starter"
  /\ sent = 0 /\ debits = 0 /\ crashes = 0

-----------------------------------------------------------------------------
(* Whatever was paid, Stripe has its events to deliver.                    *)

Handler(e) == CASE e \in Packs -> "pack"
                [] e = "subscribed" -> "subscribe"
                [] e \in {"firstInvoice", "renewal"} -> "invoice"
                [] e = "updated" -> "update"
                [] e = "deleted" -> "cancel"

\* handleWebhook
Deliver(f) == \E e \in Events :
  /\ pc[f] = "idle" /\ sent < MaxDeliveries /\ sent' = sent + 1
  /\ GoTo(f, Handler(e)) /\ job' = [job EXCEPT ![f] = e]
  /\ UNCHANGED <<loc, Accounts, billingVars, debits, crashes>>

-----------------------------------------------------------------------------
(* The handlers.  A unique index refuses a second row of one payment or    *)
(* subscription: the insert throws, and so does the handler.               *)

Step(f, from, to) ==
  /\ pc[f] = from /\ GoTo(f, to)
  /\ UNCHANGED <<loc, Accounts, sent, job, debits, crashes>>

Grant(f, from) == \E n \in Amounts :
  /\ pc[f] = from /\ Credit(f, n, job[f])
  /\ UNCHANGED <<sent, job, debits, crashes>>

\* Mutant: no unique index.
RecordPurchaseAgain(f) ==
  Grant(f, "pack") /\ purchases' = purchases \cup {job[f]} /\ UNCHANGED <<sub, plan>>

\* Mutant: the purchase is recorded and not credited.
RecordPurchaseOnly(f) ==
  /\ job[f] \notin purchases /\ Step(f, "pack", "paid")
  /\ purchases' = purchases \cup {job[f]} /\ UNCHANGED <<sub, plan>>

RecordPurchase(f) ==
  /\ job[f] \notin purchases /\ Grant(f, "pack")
  /\ purchases' = purchases \cup {job[f]} /\ UNCHANGED <<sub, plan>>

PurchaseExists(f) == job[f] \in purchases /\ Step(f, "pack", "threw") /\ UNCHANGED billingVars

RecordSubscription(f) ==
  /\ sub = "none" /\ Step(f, "subscribe", "plan")
  /\ sub' = "active" /\ UNCHANGED <<purchases, plan>>

SubscriptionExists(f) ==
  sub # "none" /\ Step(f, "subscribe", "threw") /\ UNCHANGED billingVars

UpdatePlan(f) == Grant(f, "plan") /\ plan' = "pro" /\ UNCHANGED <<purchases, sub>>

\* An event of a subscription that is not known is answered as if it had been handled.
Unknown(f) == \E from \in {"invoice", "update", "cancel"} :
  sub = "none" /\ Step(f, from, "paid") /\ UNCHANGED billingVars

InvoicePaid(f) == sub # "none" /\ Grant(f, "invoice") /\ UNCHANGED billingVars

SubscriptionUpdated(f) == \E status \in {"active", "past_due"} :
  /\ sub # "none" /\ Step(f, "update", "paid")
  /\ sub' = status /\ UNCHANGED <<purchases, plan>>

SubscriptionDeleted(f) ==
  /\ sub # "none" /\ Step(f, "cancel", "downgrade")
  /\ sub' = "canceled" /\ UNCHANGED <<purchases, plan>>

Downgrade(f) ==
  /\ Step(f, "downgrade", "paid")
  /\ plan' = "starter" /\ UNCHANGED <<purchases, sub>>

\* The answer, 200 or not.
Answer(f) ==
  /\ pc[f] \in Outcomes /\ GoTo(f, "idle") /\ job' = [job EXCEPT ![f] = Work]
  /\ UNCHANGED <<loc, Accounts, sent, billingVars, debits, crashes>>

-----------------------------------------------------------------------------
(* Beside them: debits of steps (with the workspace) and agents (without), *)
(* the administrator, the calendar, and failures.                          *)

Use(f) == \E n \in Amounts, capped \in BOOLEAN :
  /\ pc[f] = "idle" /\ debits < MaxDebits /\ debits' = debits + 1
  /\ Debit(f, n, Work, capped)
  /\ UNCHANGED <<sent, billingVars, job, crashes>>

Credits(f) == Execute(f) /\ UNCHANGED <<sent, billingVars, job, debits, crashes>>

Fail(f) ==
  /\ crashes < MaxCrashes /\ crashes' = crashes + 1
  /\ Rollback(f) /\ UNCHANGED <<sent, billingVars, job, debits>>

Crash ==
  /\ crashes < MaxCrashes /\ crashes' = crashes + 1
  /\ Halt /\ job' = [f \in Fibers |-> Work]
  /\ UNCHANGED <<sent, billingVars, debits>>

Manage == Administer /\ UNCHANGED <<sent, billingVars, job, debits, crashes>>

Handle(f) ==
  \/ RecordPurchase(f) \/ PurchaseExists(f)
  \/ RecordSubscription(f) \/ SubscriptionExists(f) \/ UpdatePlan(f)
  \/ Unknown(f) \/ InvoicePaid(f) \/ SubscriptionUpdated(f)
  \/ SubscriptionDeleted(f) \/ Downgrade(f)
  \/ Credits(f) \/ Answer(f)

BillingNext ==
  \/ \E f \in Fibers : Deliver(f) \/ Handle(f) \/ Use(f) \/ Fail(f)
  \/ Crash \/ Manage

\* A handler whose promise is settled goes on; Stripe, customers and administrators may stop.
BillingSpec ==
  BillingInit /\ [][BillingNext]_allVars /\ \A f \in Fibers : WF_allVars(Handle(f))

-----------------------------------------------------------------------------
(* A payment is granted once at the most, however often Stripe delivers it *)
(* and whatever handler of it is interrupted where: the insert comes first *)
(* and its unique index stops the others.                                  *)
GrantedOnce == \A i, j \in DOMAIN ledger :
  ledger[i].for = ledger[j].for /\ ledger[i].for \in Packs \cup {"subscribed"} => i = j

(* A recorded purchase gets its credits, unless the server crashed or a    *)
(* transaction failed.  Then the next delivery finds the purchase and      *)
(* throws, and the credits never come.                                     *)
PurchaseGranted == \A e \in Packs :
  (e \in purchases) ~> (crashes > 0 \/ \E i \in DOMAIN ledger : ledger[i].for = e)

=============================================================================
