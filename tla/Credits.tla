------------------------------ MODULE Credits -------------------------------
(***************************************************************************)
(* CreditsService and WorkspaceCreditLimitService: the credits of one      *)
(* organization and the monthly cap of one workspace, each statement of    *)
(* debit and credit an action of the fiber that executes it.  Postgres     *)
(* runs at READ COMMITTED.  The balance is read without a lock and later   *)
(* overwritten; the row of the cap is held from SELECT FOR UPDATE to the   *)
(* commit.  The update of the organization, the insert into the ledger and *)
(* the commit are one action: the update's row lock keeps other writers    *)
(* out until then, and readers see what they saw before.                   *)
(***************************************************************************)
EXTENDS Integers, Sequences

CONSTANTS
  Fibers,      \* callers of debit and credit under way at once
  Places,      \* where these are in their own code
  Causes,      \* what a ledger entry is for
  Amounts,     \* the amounts debited and credited
  Caps,        \* the monthly limits an admin sets
  Months,      \* the calendar months, an initial segment of the numbers from 1
  InitBalance,
  NoCap, Nobody

\* The statements of debit and credit, and where a caller finds itself after them.
Statements == {"debit", "limit", "credit", "post"}
Outcomes   == {"paid", "threw"}

ASSUME CreditsAssumption ==
  /\ Amounts \subseteq Nat \ {0} /\ Caps \subseteq Nat
  /\ Months \subseteq Nat /\ 1 \in Months
  /\ InitBalance \in Nat
  /\ NoCap \notin Nat /\ Nobody \notin Fibers
  /\ Places \cap Statements = {} /\ Outcomes \cup {"idle"} \subseteq Places
  /\ Causes # {}

VARIABLES
  balance,   \* organizations.credits_balance
  ledger,    \* credit_ledger, in the order of the commits
  limit,     \* the workspace's row of workspace_credit_limits: monthly is NoCap without one
  lock,      \* the fiber whose transaction holds that row
  month,     \* the calendar
  pc, loc,   \* per fiber: the statement it is about to execute, its locals
  charged,   \* history: per month, what was debited under the cap since it was set
  raced      \* history: a balance was read while another fiber was about to overwrite it

vars == <<balance, ledger, limit, lock, month, pc, loc, charged, raced>>

Entries == [amount : Int, after : Int, for : Causes]
Locals  == [amount : Int, for : Causes, capped : BOOLEAN,
            read : Int, usage : Nat, period : Months]

-----------------------------------------------------------------------------
NoUsage == [m \in Months |-> 0]
NoRow   == [monthly |-> NoCap, usage |-> 0, period |-> 1]
Params(n, cause, capped) == [amount |-> n, for |-> cause, capped |-> capped,
                             read |-> 0, usage |-> 0, period |-> 1]
Fresh   == Params(0, CHOOSE c \in Causes : TRUE, FALSE)

Init ==
  /\ balance = InitBalance /\ ledger = << >> /\ limit = NoRow /\ lock = Nobody
  /\ month = 1 /\ charged = NoUsage /\ raced = FALSE
  /\ pc = [f \in Fibers |-> "idle"] /\ loc = [f \in Fibers |-> Fresh]

Accounts == <<balance, ledger, limit, lock, month, charged, raced>>

GoTo(f, p) == pc' = [pc EXCEPT ![f] = p]
Return(f, outcome) == GoTo(f, outcome) /\ loc' = [loc EXCEPT ![f] = Fresh]

\* A caller of debit or credit; the amount is negative for a debit, as in the ledger.
Call(f, entry, n, cause, capped) ==
  /\ GoTo(f, entry)
  /\ loc' = [loc EXCEPT ![f] = Params(n, cause, capped)]
  /\ UNCHANGED Accounts

Debit(f, n, cause, capped) == Call(f, "debit", -n, cause, capped)
Credit(f, n, cause)        == Call(f, "credit", n, cause, FALSE)

Remember(f) ==
  /\ loc' = [loc EXCEPT ![f].read = balance]
  /\ raced' = (raced \/ \E g \in Fibers \ {f} : pc[g] \in {"limit", "post"})
  /\ UNCHANGED <<balance, ledger, limit, lock, month, charged>>

Insufficient(f) ==
  /\ pc[f] = "debit" /\ balance + loc[f].amount < 0
  /\ Return(f, "threw") /\ UNCHANGED Accounts

ReadToDebit(f) ==
  /\ pc[f] = "debit" /\ balance + loc[f].amount >= 0
  /\ GoTo(f, IF loc[f].capped THEN "limit" ELSE "post") /\ Remember(f)

ReadToCredit(f) == pc[f] = "credit" /\ GoTo(f, "post") /\ Remember(f)

\* The usage a debit adds to: that of an earlier month counts for nothing.
Used == IF limit.period = month THEN limit.usage ELSE 0

Uncapped(f) ==
  /\ pc[f] = "limit" /\ lock = Nobody /\ limit.monthly = NoCap
  /\ GoTo(f, "post") /\ UNCHANGED <<loc, Accounts>>

OverLimit(f) ==
  /\ pc[f] = "limit" /\ lock = Nobody /\ limit.monthly # NoCap
  /\ Used - loc[f].amount > limit.monthly
  /\ Return(f, "threw") /\ UNCHANGED Accounts

LockLimit(f) ==
  /\ pc[f] = "limit" /\ lock = Nobody /\ limit.monthly # NoCap
  /\ Used - loc[f].amount <= limit.monthly
  /\ lock' = f
  /\ loc' = [loc EXCEPT ![f].usage = Used - loc[f].amount, ![f].period = month]
  /\ GoTo(f, "post")
  /\ UNCHANGED <<balance, ledger, limit, month, charged, raced>>

\* Mutant: SET credits_balance = credits_balance - amount, with the old check.
PostInPlace(f) == LET l == loc[f] IN
  /\ pc[f] = "post"
  /\ balance' = balance + l.amount
  /\ ledger' = Append(ledger, [amount |-> l.amount, after |-> balance', for |-> l.for])
  /\ limit' = IF lock = f THEN [limit EXCEPT !.usage = l.usage, !.period = l.period] ELSE limit
  /\ charged' = IF lock = f THEN [charged EXCEPT ![l.period] = @ - l.amount] ELSE charged
  /\ lock' = IF lock = f THEN Nobody ELSE lock
  /\ Return(f, "paid")
  /\ UNCHANGED <<month, raced>>

Post(f) == LET l == loc[f] IN
  /\ pc[f] = "post"
  /\ balance' = l.read + l.amount
  /\ ledger' = Append(ledger, [amount |-> l.amount, after |-> l.read + l.amount, for |-> l.for])
  /\ limit' = IF lock = f THEN [limit EXCEPT !.usage = l.usage, !.period = l.period] ELSE limit
  /\ charged' = IF lock = f THEN [charged EXCEPT ![l.period] = @ - l.amount] ELSE charged
  /\ lock' = IF lock = f THEN Nobody ELSE lock
  /\ Return(f, "paid")
  /\ UNCHANGED <<month, raced>>

\* Mutant: the balance is written outside the transaction.
RollbackLedger(f) ==
  /\ pc[f] \in {"limit", "post"}
  /\ balance' = IF pc[f] = "post" THEN loc[f].read + loc[f].amount ELSE balance
  /\ lock' = IF lock = f THEN Nobody ELSE lock
  /\ Return(f, "threw")
  /\ UNCHANGED <<ledger, limit, month, charged, raced>>

\* The transaction fails, in another statement of its own or of the caller's, and is rolled back.
Rollback(f) ==
  /\ pc[f] \in {"limit", "post"}
  /\ lock' = IF lock = f THEN Nobody ELSE lock
  /\ Return(f, "threw")
  /\ UNCHANGED <<balance, ledger, limit, month, charged, raced>>

Execute(f) ==
  \/ Insufficient(f) \/ ReadToDebit(f) \/ ReadToCredit(f)
  \/ Uncapped(f) \/ OverLimit(f) \/ LockLimit(f) \/ Post(f)

-----------------------------------------------------------------------------
(* The cap: a statement on the row waits for the transaction that holds it.*)

SetLimit == \E c \in Caps :
  /\ lock = Nobody
  /\ limit' = IF limit.monthly = NoCap THEN [monthly |-> c, usage |-> 0, period |-> month]
                                       ELSE [limit EXCEPT !.monthly = c]
  /\ charged' = IF limit.monthly = NoCap THEN NoUsage ELSE charged
  /\ UNCHANGED <<balance, ledger, lock, month, pc, loc, raced>>

RemoveLimit ==
  /\ limit.monthly # NoCap /\ lock = Nobody
  /\ limit' = NoRow
  /\ UNCHANGED <<balance, ledger, lock, month, pc, loc, charged, raced>>

\* Mutant: the cron resets every row.
ResetAllPeriods ==
  /\ limit.monthly # NoCap /\ lock = Nobody
  /\ limit' = [limit EXCEPT !.usage = 0, !.period = month]
  /\ UNCHANGED <<balance, ledger, lock, month, pc, loc, charged, raced>>

ResetExpiredPeriods ==
  /\ limit.monthly # NoCap /\ limit.period < month /\ lock = Nobody
  /\ limit' = [limit EXCEPT !.usage = 0, !.period = month]
  /\ UNCHANGED <<balance, ledger, lock, month, pc, loc, charged, raced>>

NextMonth ==
  /\ month + 1 \in Months /\ month' = month + 1
  /\ UNCHANGED <<balance, ledger, limit, lock, pc, loc, charged, raced>>

Administer == SetLimit \/ RemoveLimit \/ ResetExpiredPeriods \/ NextMonth

\* The server stops: Postgres rolls back what it had not committed.
Halt ==
  /\ pc' = [f \in Fibers |-> "idle"] /\ loc' = [f \in Fibers |-> Fresh] /\ lock' = Nobody
  /\ UNCHANGED <<balance, ledger, limit, month, charged, raced>>

-----------------------------------------------------------------------------
(* Any callers: those of Billing and Agents.  One not in the statements is *)
(* somewhere in its own code, and goes where it likes there.               *)

Elsewhere(f) == pc[f] \notin Statements

UseCredits(f) ==
  /\ Elsewhere(f)
  /\ \E n \in Amounts, cause \in Causes, capped \in BOOLEAN :
       Debit(f, n, cause, capped) \/ Credit(f, n, cause)

GoOn ==
  /\ pc' \in [Fibers -> Places \cup Statements]
  /\ \A f \in Fibers : pc'[f] # pc[f] => Elsewhere(f) /\ pc'[f] \in Places
  /\ UNCHANGED <<loc, Accounts>>

Next ==
  \/ \E f \in Fibers : Execute(f) \/ Rollback(f) \/ UseCredits(f)
  \/ GoOn \/ Administer \/ Halt

Spec == Init /\ [][Next]_vars

-----------------------------------------------------------------------------
(* Every variable holds what its table or local holds.                     *)
TypeOK ==
  /\ balance \in Int /\ ledger \in Seq(Entries)
  /\ limit \in [monthly : Caps \cup {NoCap}, usage : Nat, period : Months]
  /\ lock \in Fibers \cup {Nobody} /\ month \in Months
  /\ pc \in [Fibers -> Places \cup Statements] /\ loc \in [Fibers -> Locals]
  /\ charged \in [Months -> Nat] /\ raced \in BOOLEAN

(* The balance is never negative, however debits and credits interleave:   *)
(* debit overwrites it with a difference that it found not to be negative, *)
(* on whatever old balance.                                                *)
NeverNegative == balance >= 0

(* The balance after the first n entries of the ledger.                    *)
After(n) == IF n = 0 THEN InitBalance ELSE ledger[n].after

(* Credits are lost or made only by an operation that reads the balance    *)
(* while another is about to overwrite it: otherwise every entry adds its  *)
(* amount to the balance before it, and the last one has left the balance  *)
(* there is, crashes, rollbacks and rejections included.                   *)
SerialBalance == ~raced =>
  /\ \A i \in DOMAIN ledger : ledger[i].after = After(i - 1) + ledger[i].amount
  /\ balance = After(Len(ledger))

(* The cap of a workspace keeps the promise of Budget: the row lock makes  *)
(* the check and the increment one, over the end of a month, its cron, and *)
(* changes of the cap.                                                     *)
Budgeting == INSTANCE Budget WITH cap <- limit.monthly, spent <- charged
RefinesBudget == Budgeting!Spec

=============================================================================
