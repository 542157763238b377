--------------------------- MODULE BillingProofs ----------------------------
(***************************************************************************)
(* Theorems about Billing, a caller of Credits: its types, a balance that  *)
(* is never negative, the workspace's cap, and one grant per payment.      *)
(***************************************************************************)
EXTENDS Billing, CreditsProofs

\* What Billing needs to know of itself: its fibers are about events or work.
JobTyped == job \in [Fibers -> Causes]

USE CreditsAssumption, BillingAssumption

LEMMA JobsTyped == BillingSpec => []JobTyped
<1>1. BillingInit => JobTyped
  BY DEF BillingInit, JobTyped, BillingCauses
<1>2. JobTyped /\ [BillingNext]_allVars => JobTyped'
  <2> SUFFICES ASSUME JobTyped, [BillingNext]_allVars PROVE JobTyped'
    OBVIOUS
  <2>1. ASSUME NEW f \in Fibers, Deliver(f) \/ Answer(f) PROVE JobTyped'
    BY <2>1 DEF Deliver, Answer, JobTyped, BillingCauses
  <2>2. ASSUME NEW f \in Fibers, Handle(f) \/ Use(f) \/ Fail(f), ~Answer(f) PROVE JobTyped'
    BY <2>2 DEF Handle, RecordPurchase, PurchaseExists, RecordSubscription, SubscriptionExists,
       UpdatePlan, Unknown, InvoicePaid, SubscriptionUpdated, SubscriptionDeleted, Downgrade,
       Grant, Step, Credits, Use, Fail, JobTyped
  <2>3. CASE Crash
    BY <2>3 DEF Crash, JobTyped, BillingCauses
  <2>4. QED
    BY <2>1, <2>2, <2>3 DEF BillingNext, Manage, allVars, JobTyped
<1>3. QED
  BY <1>1, <1>2, PTL DEF BillingSpec

(* Each step of Billing is one that Credits allows its callers.            *)
LEMMA BillingStep ==
  ASSUME TypeOK, JobTyped, [BillingNext]_allVars
  PROVE  [Next]_vars
<1>1. ASSUME NEW f \in Fibers, NEW p \in Places,
             pc[f] \notin Statements, GoTo(f, p), UNCHANGED <<loc, Accounts>>
      PROVE  Next
  BY <1>1 DEF Next, GoOn, GoTo, Elsewhere, TypeOK
<1>2. ASSUME NEW f \in Fibers, NEW n \in Amounts, NEW capped \in BOOLEAN, NEW cause \in Causes,
             pc[f] \notin Statements, Debit(f, n, cause, capped) \/ Credit(f, n, cause)
      PROVE  Next
  BY <1>2 DEF Next, UseCredits, Elsewhere
<1>3. ASSUME NEW f \in Fibers, Deliver(f) PROVE Next
  <2>1. PICK e \in Events : pc[f] = "idle" /\ GoTo(f, Handler(e)) /\ UNCHANGED <<loc, Accounts>>
    BY <1>3 DEF Deliver
  <2>2. Handler(e) \in Places
    BY DEF Handler, BillingPlaces, Events
  <2>3. QED
    BY <1>1, <2>1, <2>2 DEF Statements
<1>4. ASSUME NEW f \in Fibers, NEW from \in {"pack", "plan", "invoice"}, Grant(f, from) PROVE Next
  <2>1. PICK n \in Amounts : pc[f] = from /\ Credit(f, n, job[f])
    BY <1>4 DEF Grant
  <2>2. job[f] \in Causes
    BY DEF JobTyped
  <2>3. QED
    BY <1>2, <2>1, <2>2 DEF Statements
<1>5. ASSUME NEW f \in Fibers, NEW from \in BillingPlaces, NEW to \in BillingPlaces, Step(f, from, to)
      PROVE  Next
  BY <1>1, <1>5 DEF Step, BillingPlaces, Outcomes, Statements
<1>6. ASSUME NEW f \in Fibers, Handle(f) PROVE Next
  <2>1. CASE RecordPurchase(f) \/ UpdatePlan(f) \/ InvoicePaid(f)
    BY <1>4, <2>1 DEF RecordPurchase, UpdatePlan, InvoicePaid
  <2>2. CASE \/ PurchaseExists(f) \/ RecordSubscription(f) \/ SubscriptionExists(f) \/ Unknown(f)
             \/ SubscriptionUpdated(f) \/ SubscriptionDeleted(f) \/ Downgrade(f)
    BY <1>5, <2>2 DEF PurchaseExists, RecordSubscription, SubscriptionExists, Unknown,
       SubscriptionUpdated, SubscriptionDeleted, Downgrade, BillingPlaces, Outcomes
  <2>3. CASE Credits(f)
    BY <2>3 DEF Credits, Next
  <2>4. CASE Answer(f)
    BY <1>1, <2>4 DEF Answer, Outcomes, Statements, BillingPlaces
  <2>5. QED
    BY <1>6, <2>1, <2>2, <2>3, <2>4 DEF Handle
<1>7. ASSUME NEW f \in Fibers, Use(f) PROVE Next
  <2>1. PICK n \in Amounts, capped \in BOOLEAN : pc[f] = "idle" /\ Debit(f, n, Work, capped)
    BY <1>7 DEF Use
  <2>2. QED
    BY <1>2, <2>1 DEF BillingCauses, Statements
<1>8. ASSUME NEW f \in Fibers, Fail(f) PROVE Next
  BY <1>8 DEF Fail, Next
<1>9. CASE Crash \/ Manage
  BY <1>9 DEF Crash, Manage, Next
<1>10. CASE UNCHANGED allVars
  BY <1>10 DEF allVars
<1>11. QED
  BY <1>3, <1>6, <1>7, <1>8, <1>9, <1>10 DEF BillingNext

(* Billing is a caller of credits like any other.                          *)
LEMMA UsesCredits == BillingSpec => Spec
<1>1. BillingInit => Init /\ IInv
  BY InitInv DEF BillingInit
<1>2. IInv /\ JobTyped /\ [BillingNext]_allVars => [Next]_vars /\ IInv'
  BY BillingStep, StepInv DEF IInv
<1>3. QED
  BY <1>1, <1>2, JobsTyped, PTL DEF BillingSpec, Spec

(* The variables keep their types, whatever Stripe delivers when.          *)
THEOREM BillingTypes == BillingSpec => []TypeOK
<1>1. IInv => TypeOK
  BY DEF IInv
<1>2. QED
  BY <1>1, UsesCredits, Invariance, PTL

(* The balance of an organization is never negative, however its debits    *)
(* and credits interleave, for any amounts and any number of them.         *)
THEOREM NoOverdraft == BillingSpec => []NeverNegative
<1>1. IInv => NeverNegative
  BY DEF IInv
<1>2. QED
  BY <1>1, UsesCredits, Invariance, PTL

(* The cap of a workspace is kept: any number of concurrent debits, changes*)
(* of the cap and ends of months amount to steps of Budget.                *)
THEOREM CapHolds == BillingSpec => RefinesBudget
  BY UsesCredits, CapKept, PTL

(* Grants and debits that do not race for the balance are neither lost nor *)
(* made up: each entry of the ledger starts from where the one before it   *)
(* ended, and the balance is where the last one ended.                     *)
THEOREM LedgerExplainsBalance == BillingSpec => []SerialBalance
  BY UsesCredits, LedgerBalances, PTL

-----------------------------------------------------------------------------
(* One grant per payment: who is about to grant it has recorded it, alone. *)

Single == Packs \cup {"subscribed"}

JobInv ==
  /\ purchases \subseteq Packs
  /\ \A f \in Fibers :
       /\ pc[f] = "pack" => job[f] \in Packs
       /\ pc[f] \in {"subscribe", "plan"} => job[f] = "subscribed"
       /\ pc[f] = "invoice" => job[f] \in {"firstInvoice", "renewal"}

Owes(f, e)  == (pc[f] \in Statements /\ loc[f].for = e) \/ (pc[f] = "plan" /\ e = "subscribed")
Recorded(e) == e \in purchases \/ (e = "subscribed" /\ sub # "none")

OnceInv == \A e \in Single :
  /\ \A f \in Fibers : Owes(f, e) => Recorded(e) /\ \A i \in DOMAIN ledger : ledger[i].for # e
  /\ \A f, g \in Fibers : Owes(f, e) /\ Owes(g, e) => f = g
  /\ \A i, j \in DOMAIN ledger : ledger[i].for = e /\ ledger[j].for = e => Recorded(e) /\ i = j

(* What a handler is about is what Stripe delivered to it.                 *)
LEMMA JobStep ==
  ASSUME TypeOK, JobTyped, JobInv, [BillingNext]_allVars
  PROVE  JobInv'
<1> USE DEF JobInv, JobTyped, TypeOK
<1>1. ASSUME NEW f \in Fibers, NEW p \in BillingPlaces \cup Statements, GoTo(f, p),
             p \notin {"pack", "subscribe", "plan", "invoice"}, job' = job, purchases' \subseteq Packs
      PROVE  JobInv'
  BY <1>1 DEF GoTo
<1>2. ASSUME NEW f \in Fibers, Deliver(f) PROVE JobInv'
  <2>1. PICK e \in Events : GoTo(f, Handler(e)) /\ job' = [job EXCEPT ![f] = e] /\ purchases' = purchases
    BY <1>2 DEF Deliver, billingVars
  <2>2. /\ Handler(e) = "pack" => e \in Packs
        /\ Handler(e) \in {"subscribe", "plan"} => e = "subscribed"
        /\ Handler(e) = "invoice" => e \in {"firstInvoice", "renewal"}
    BY DEF Handler, Events
  <2>3. QED
    BY <2>1, <2>2 DEF GoTo
<1>3. ASSUME NEW f \in Fibers, RecordPurchase(f) \/ UpdatePlan(f) \/ InvoicePaid(f) PROVE JobInv'
  <2>1. GoTo(f, "credit") /\ job' = job
    BY <1>3 DEF RecordPurchase, UpdatePlan, InvoicePaid, Grant, Credit, Call
  <2>2. purchases' \subseteq Packs
    BY <1>3 DEF RecordPurchase, UpdatePlan, InvoicePaid, Grant, billingVars
  <2>3. QED
    BY <1>1, <2>1, <2>2 DEF Statements
<1>4. ASSUME NEW f \in Fibers, RecordSubscription(f) PROVE JobInv'
  BY <1>4 DEF RecordSubscription, Step, GoTo
<1>5. ASSUME NEW f \in Fibers,
             \/ PurchaseExists(f) \/ SubscriptionExists(f) \/ Unknown(f)
             \/ SubscriptionUpdated(f) \/ SubscriptionDeleted(f) \/ Downgrade(f)
      PROVE  JobInv'
  <2>1. PICK p \in {"threw", "paid", "downgrade"} : GoTo(f, p)
    BY <1>5 DEF PurchaseExists, SubscriptionExists, Unknown, SubscriptionUpdated,
       SubscriptionDeleted, Downgrade, Step
  <2>2. job' = job /\ purchases' = purchases
    BY <1>5 DEF PurchaseExists, SubscriptionExists, Unknown, SubscriptionUpdated,
       SubscriptionDeleted, Downgrade, Step, billingVars
  <2>3. QED
    BY <1>1, <2>1, <2>2 DEF BillingPlaces, Outcomes
<1>6. ASSUME NEW f \in Fibers, Credits(f) \/ Use(f) \/ Fail(f) PROVE JobInv'
  <2>1. PICK p \in {"debit", "limit", "post"} \cup Outcomes : GoTo(f, p)
    BY <1>6 DEF Credits, Execute, Insufficient, ReadToDebit, ReadToCredit, Uncapped, OverLimit,
       LockLimit, Post, Return, Use, Debit, Call, Fail, Rollback, Outcomes
  <2>2. job' = job /\ purchases' = purchases
    BY <1>6 DEF Credits, Use, Fail, billingVars
  <2>3. QED
    BY <1>1, <2>1, <2>2 DEF BillingPlaces, Outcomes, Statements
<1>7. ASSUME NEW f \in Fibers, Answer(f) PROVE JobInv'
  BY <1>7 DEF Answer, GoTo, billingVars
<1>8. CASE Crash \/ Manage \/ UNCHANGED allVars
  BY <1>8 DEF Crash, Halt, Manage, Administer, SetLimit, RemoveLimit, ResetExpiredPeriods,
     NextMonth, billingVars, allVars, vars
<1>9. QED
  BY <1>2, <1>3, <1>4, <1>5, <1>6, <1>7, <1>8 DEF BillingNext, Handle

(* A step that writes no entry and after which nobody owes more than before*)
(* leaves the payments granted once.                                       *)
LEMMA Quiet ==
  ASSUME OnceInv, ledger' = ledger,
         \A e \in Single : Recorded(e) => Recorded(e)',
         \A g \in Fibers, e \in Single : Owes(g, e)' => Owes(g, e)
  PROVE  OnceInv'
  BY DEF OnceInv

(* So does recording a payment that was not recorded.                      *)
LEMMA FirstRecord ==
  ASSUME OnceInv, ledger' = ledger, NEW f \in Fibers, NEW c \in Single,
         ~Recorded(c), Recorded(c)',
         \A e \in Single : Recorded(e) => Recorded(e)',
         \A g \in Fibers, e \in Single : Owes(g, e)' => Owes(g, e) \/ (g = f /\ e = c)
  PROVE  OnceInv'
<1>1. /\ \A g \in Fibers : ~Owes(g, c)
      /\ \A i \in DOMAIN ledger : ledger[i].for # c
  BY DEF OnceInv
<1>2. QED
  BY <1>1 DEF OnceInv

(* And the entry of the one fiber that owes it.                            *)
LEMMA FirstEntry ==
  ASSUME TypeOK, OnceInv, UNCHANGED billingVars, NEW f \in Fibers, Post(f)
  PROVE  OnceInv'
<1> DEFINE c == loc[f].for
           entry == [amount |-> loc[f].amount, after |-> loc[f].read + loc[f].amount, for |-> c]
<1>1. ledger' = Append(ledger, entry) /\ entry.for = c /\ ledger \in Seq(Entries)
  BY DEF Post, TypeOK
<1>2. \A e : Owes(f, e) <=> e = c
  BY DEF Post, Owes, Statements
<1>3. \A g \in Fibers, e \in Single : Owes(g, e)' => Owes(g, e) /\ g # f
  BY DEF Post, Return, GoTo, Owes, TypeOK, Outcomes, Statements
<1>4. \A e \in Single : Recorded(e)' <=> Recorded(e)
  BY DEF Recorded, billingVars
<1>5. /\ DOMAIN ledger' = DOMAIN ledger \cup {Len(ledger) + 1}
      /\ \A i \in DOMAIN ledger : ledger'[i] = ledger[i]
      /\ ledger'[Len(ledger) + 1] = entry
  <2> HIDE DEF entry
  <2>1. QED
    BY <1>1
<1> HIDE DEF entry
<1>6. ASSUME NEW e \in Single, e # c PROVE \A i \in DOMAIN ledger' : ledger'[i].for = e =>
               i \in DOMAIN ledger /\ ledger[i].for = e
  BY <1>1, <1>5, <1>6
<1>7. ASSUME c \in Single PROVE \A i \in DOMAIN ledger' : ledger'[i].for = c => i = Len(ledger) + 1
  BY <1>2, <1>5, <1>7 DEF OnceInv
<1>8. ASSUME NEW e \in Single PROVE
        /\ \A g \in Fibers : Owes(g, e)' => Recorded(e)' /\ \A i \in DOMAIN ledger' : ledger'[i].for # e
        /\ \A g, h \in Fibers : Owes(g, e)' /\ Owes(h, e)' => g = h
        /\ \A i, j \in DOMAIN ledger' : ledger'[i].for = e /\ ledger'[j].for = e
             => Recorded(e)' /\ i = j
  <2>1. CASE e = c
    <3>1. \A g \in Fibers : ~Owes(g, e)'
      BY <1>2, <1>3, <2>1 DEF OnceInv
    <3>2. Recorded(e)'
      BY <1>2, <1>4, <2>1 DEF OnceInv
    <3>3. QED
      BY <1>7, <2>1, <3>1, <3>2
  <2>2. CASE e # c
    <3>1. \A i \in DOMAIN ledger' : ledger'[i].for = e => i \in DOMAIN ledger /\ ledger[i].for = e
      BY <1>6, <2>2
    <3>2. QED
      BY <1>3, <1>4, <3>1 DEF OnceInv
  <2>3. QED
    BY <2>1, <2>2
<1>9. QED
  BY <1>8 DEF OnceInv

(* Every step leaves the payments granted once.                            *)
LEMMA OnceStep ==
  ASSUME TypeOK, JobTyped, JobInv, OnceInv, [BillingNext]_allVars
  PROVE  OnceInv'
<1>1. \A e \in Single : e = "subscribed" \/ e \in Packs
  BY DEF Single
<1>2. "subscribed" \notin Packs /\ Work \notin Single /\ "subscribed" \in Single
      /\ "firstInvoice" \notin Single /\ "renewal" \notin Single
  BY DEF Single, Work
<1>3. pc \in [Fibers -> Places \cup Statements] /\ loc \in [Fibers -> Locals]
  BY DEF TypeOK
<1>4. ASSUME NEW f \in Fibers, NEW p \in Places, p # "plan", GoTo(f, p),
             loc' = loc \/ loc' = [loc EXCEPT ![f] = Fresh], ledger' = ledger,
             \A e \in Single : Recorded(e) => Recorded(e)'
      PROVE  OnceInv'
  <2>1. \A g \in Fibers, e \in Single : Owes(g, e)' => Owes(g, e)
    BY <1>3, <1>4 DEF Owes, GoTo
  <2>2. QED
    BY <1>4, <2>1, Quiet
<1>5. ASSUME NEW f \in Fibers, NEW n \in Amounts, Credit(f, n, job[f])
      PROVE  /\ ledger' = ledger
             /\ \A g \in Fibers, e \in Single : Owes(g, e)' => Owes(g, e) \/ (g = f /\ e = job[f])
  <2>1. /\ pc' = [pc EXCEPT ![f] = "credit"] /\ ledger' = ledger
        /\ loc' = [loc EXCEPT ![f] = Params(n, job[f], FALSE)]
    BY <1>5 DEF Credit, Call, GoTo, Accounts
  <2>2. Params(n, job[f], FALSE).for = job[f]
    BY DEF Params
  <2> HIDE DEF Params
  <2>3. QED
    BY <1>3, <2>1, <2>2 DEF Owes
<1>6. ASSUME NEW f \in Fibers, RecordPurchase(f) PROVE OnceInv'
  <2>1. PICK n \in Amounts : pc[f] = "pack" /\ Credit(f, n, job[f])
    BY <1>6 DEF RecordPurchase, Grant
  <2>2. PICK c \in Packs : c = job[f]
    BY <2>1 DEF JobInv
  <2>3. ~Recorded(c) /\ Recorded(c)' /\ c \in Single
    BY <1>2, <1>6, <2>2 DEF RecordPurchase, Recorded, Single
  <2>4. \A e \in Single : Recorded(e) => Recorded(e)'
    BY <1>6 DEF RecordPurchase, Recorded
  <2>5. QED
    BY <1>5, <2>1, <2>2, <2>3, <2>4, FirstRecord
<1>7. ASSUME NEW f \in Fibers, RecordSubscription(f) PROVE OnceInv'
  <2>1. /\ sub = "none" /\ sub' = "active" /\ purchases' = purchases
        /\ pc' = [pc EXCEPT ![f] = "plan"] /\ loc' = loc /\ ledger' = ledger
    BY <1>7 DEF RecordSubscription, Step, GoTo, Accounts
  <2>2. ~Recorded("subscribed") /\ Recorded("subscribed")'
    BY <1>2, <2>1 DEF JobInv, Recorded
  <2>3. \A e \in Single : Recorded(e) => Recorded(e)'
    BY <2>1 DEF Recorded
  <2>4. \A g \in Fibers, e \in Single : Owes(g, e)' => Owes(g, e) \/ (g = f /\ e = "subscribed")
    BY <1>3, <2>1 DEF Owes, Statements
  <2>5. QED
    BY <1>2, <2>1, <2>2, <2>3, <2>4, FirstRecord
<1>8. ASSUME NEW f \in Fibers, UpdatePlan(f) \/ InvoicePaid(f) PROVE OnceInv'
  <2>1. PICK n \in Amounts : pc[f] \in {"plan", "invoice"} /\ Credit(f, n, job[f])
    BY <1>8 DEF UpdatePlan, InvoicePaid, Grant
  <2>2. job[f] \in Single => Owes(f, job[f])
    BY <1>2, <2>1 DEF JobInv, Owes
  <2>3. \A e \in Single : Recorded(e) => Recorded(e)'
    BY <1>8 DEF UpdatePlan, InvoicePaid, billingVars, Recorded
  <2>4. QED
    BY <1>5, <2>1, <2>2, <2>3, Quiet
<1>9. ASSUME NEW f \in Fibers,
             \/ PurchaseExists(f) \/ SubscriptionExists(f) \/ Unknown(f)
             \/ SubscriptionUpdated(f) \/ SubscriptionDeleted(f) \/ Downgrade(f)
      PROVE  OnceInv'
  <2>1. \A e \in Single : Recorded(e) => Recorded(e)'
    BY <1>9 DEF PurchaseExists, SubscriptionExists, Unknown, SubscriptionUpdated,
       SubscriptionDeleted, Downgrade, billingVars, Recorded
  <2>2. PICK p \in {"threw", "paid", "downgrade"} : GoTo(f, p) /\ loc' = loc /\ ledger' = ledger
    BY <1>9 DEF PurchaseExists, SubscriptionExists, Unknown, SubscriptionUpdated,
       SubscriptionDeleted, Downgrade, Step, Accounts
  <2>3. p \in Places /\ p # "plan"
    BY DEF BillingPlaces, Outcomes
  <2>4. QED
    BY <1>4, <2>1, <2>2, <2>3
<1>10. ASSUME NEW f \in Fibers, Deliver(f) \/ Answer(f) PROVE OnceInv'
  <2>1. PICK p \in BillingPlaces \ {"plan"} : GoTo(f, p) /\ loc' = loc /\ ledger' = ledger
    BY <1>10 DEF Deliver, Answer, Handler, Events, Accounts, BillingPlaces
  <2>2. \A e \in Single : Recorded(e) => Recorded(e)'
    BY <1>10 DEF Deliver, Answer, billingVars, Recorded
  <2>3. QED
    BY <1>4, <2>1, <2>2
<1>11. ASSUME NEW f \in Fibers, Credits(f) \/ Use(f) \/ Fail(f) PROVE OnceInv'
  <2>1. UNCHANGED billingVars /\ \A e \in Single : Recorded(e) => Recorded(e)'
    BY <1>11 DEF Credits, Use, Fail, billingVars, Recorded
  <2>2. CASE Post(f)
    BY <2>1, <2>2, FirstEntry
  <2>3. CASE Insufficient(f) \/ OverLimit(f) \/ Rollback(f)
    <3>1. GoTo(f, "threw") /\ loc' = [loc EXCEPT ![f] = Fresh] /\ ledger' = ledger
      BY <2>3 DEF Insufficient, OverLimit, Rollback, Return, Accounts
    <3>2. QED
      BY <1>4, <2>1, <3>1 DEF BillingPlaces, Outcomes
  <2>4. CASE ReadToDebit(f) \/ ReadToCredit(f) \/ Uncapped(f) \/ LockLimit(f)
    <3>1. /\ pc[f] \in Statements /\ ledger' = ledger /\ loc'[f].for = loc[f].for
          /\ \A g \in Fibers \ {f} : loc'[g] = loc[g]
          /\ \E p \in Statements : GoTo(f, p)
      BY <1>3, <2>4 DEF ReadToDebit, ReadToCredit, Remember, Uncapped, LockLimit, Accounts,
         Statements, Locals
    <3>2. \A g \in Fibers, e \in Single : Owes(g, e)' => Owes(g, e)
      BY <1>3, <3>1 DEF Owes, GoTo, Statements
    <3>3. QED
      BY <2>1, <3>1, <3>2, Quiet
  <2>5. CASE Use(f)
    <3>1. PICK n \in Amounts, capped \in BOOLEAN : Debit(f, n, Work, capped)
      BY <2>5 DEF Use
    <3>2. /\ pc' = [pc EXCEPT ![f] = "debit"] /\ ledger' = ledger
          /\ loc' = [loc EXCEPT ![f] = Params(-n, Work, capped)]
      BY <3>1 DEF Debit, Call, GoTo, Accounts
    <3>3. Params(-n, Work, capped).for = Work
      BY DEF Params
    <3> HIDE DEF Params
    <3>4. \A g \in Fibers, e \in Single : Owes(g, e)' => Owes(g, e)
      BY <1>2, <1>3, <3>2, <3>3 DEF Owes
    <3>5. QED
      BY <2>1, <3>2, <3>4, Quiet
  <2>6. QED
    BY <1>11, <2>2, <2>3, <2>4, <2>5 DEF Credits, Execute, Fail
<1>12. CASE Crash
  <2>1. \A g \in Fibers, e \in Single : ~Owes(g, e)'
    BY <1>12 DEF Crash, Halt, Owes, Statements
  <2>2. ledger' = ledger /\ \A e \in Single : Recorded(e) => Recorded(e)'
    BY <1>12 DEF Crash, Halt, billingVars, Recorded
  <2>3. QED
    BY <2>1, <2>2, Quiet
<1>13. CASE Manage \/ UNCHANGED allVars
  <2>1. UNCHANGED <<pc, loc, ledger, purchases, sub>>
    BY <1>13 DEF Manage, Administer, SetLimit, RemoveLimit, ResetExpiredPeriods, NextMonth,
       billingVars, allVars, vars
  <2>2. QED
    BY <2>1, Quiet DEF Owes, Recorded
<1>14. QED
  BY <1>6, <1>7, <1>8, <1>9, <1>10, <1>11, <1>12, <1>13 DEF BillingNext, Handle

(* No payment is granted twice, for any number of packs, deliveries,       *)
(* handlers at once, rollbacks and crashes.                                *)
THEOREM OneGrant == BillingSpec => []GrantedOnce
<1>1. BillingInit => JobInv /\ OnceInv
  BY DEF BillingInit, Init, JobInv, OnceInv, Owes, Statements
<1>2. TypeOK /\ JobTyped /\ JobInv /\ OnceInv /\ [BillingNext]_allVars => JobInv' /\ OnceInv'
  BY JobStep, OnceStep
<1>3. OnceInv => GrantedOnce
  BY DEF OnceInv, GrantedOnce, Single
<1>4. QED
  BY <1>1, <1>2, <1>3, JobsTyped, BillingTypes, PTL DEF BillingSpec

=============================================================================
