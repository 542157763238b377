--------------------------- MODULE CreditsProofs ----------------------------
(***************************************************************************)
(* Lemmas about Credits, for any callers: an invariant with the types, a   *)
(* balance that is never negative, the refinement of Budget, and a ledger  *)
(* that explains the balance.                                              *)
(***************************************************************************)
EXTENDS Credits, TLAPS

\* Where the amount of a fiber is that of a debit.
Debiting(f) == -loc[f].amount \in Amounts

\* What a fiber in a statement has found out before.
FiberInv(f) ==
  /\ pc[f] \in {"debit", "limit"} => Debiting(f)
  /\ pc[f] = "credit" => loc[f].amount \in Amounts
  /\ pc[f] \in {"limit", "post"} => loc[f].read + loc[f].amount >= 0

\* The holder of the row has checked the usage that it is about to write.
LockInv == lock # Nobody =>
  /\ pc[lock] = "post" /\ Debiting(lock) /\ limit.monthly # NoCap
  /\ loc[lock].usage = charged[loc[lock].period] - loc[lock].amount
  /\ loc[lock].usage <= limit.monthly
  /\ limit.period <= loc[lock].period /\ loc[lock].period <= month

\* The row counts its month, and the months after it are not charged yet.
RowInv == limit.monthly # NoCap =>
  /\ limit.usage = charged[limit.period]
  /\ \A m \in Months : m > limit.period => charged[m] = 0

IInv ==
  /\ TypeOK /\ NeverNegative /\ LockInv /\ RowInv
  /\ \A f \in Fibers : FiberInv(f)
  /\ 1 <= month /\ limit.period <= month

USE CreditsAssumption

(* The parameters of a call have the types of locals, and so do none.      *)
LEMMA ParamsTyped ==
  ASSUME NEW n \in Int, NEW cause \in Causes, NEW capped \in BOOLEAN
  PROVE  Params(n, cause, capped) \in Locals /\ Params(n, cause, capped).amount = n
  BY DEF Params, Locals

LEMMA FreshTyped == Fresh \in Locals
  BY DEF Fresh, Params, Locals

(* The strengthened invariant holds at the start.                          *)
LEMMA InitInv == Init => IInv
<1> SUFFICES ASSUME Init PROVE IInv
  OBVIOUS
<1>1. TypeOK
  <2>1. ledger \in Seq(Entries)
    BY DEF Init
  <2>2. pc \in [Fibers -> Places \cup Statements] /\ loc \in [Fibers -> Locals]
    BY FreshTyped DEF Init
  <2>3. limit \in [monthly : Caps \cup {NoCap}, usage : Nat, period : Months]
    BY DEF Init, NoRow
  <2>4. charged \in [Months -> Nat] /\ balance \in Int
    BY DEF Init, NoUsage
  <2>5. QED
    BY <2>1, <2>2, <2>3, <2>4 DEF Init, TypeOK
<1>2. \A f \in Fibers : FiberInv(f)
  BY DEF Init, FiberInv
<1>3. QED
  BY <1>1, <1>2 DEF Init, IInv, NeverNegative, LockInv, RowInv, NoRow, NoUsage

(* Statements that touch neither the lock nor the row preserve it.         *)
LEMMA MoveInv ==
  ASSUME IInv, NEW f \in Fibers, NEW p \in Places \cup Statements, NEW l \in Locals,
         lock # f, pc' = [pc EXCEPT ![f] = p], loc' = [loc EXCEPT ![f] = l],
         UNCHANGED <<balance, ledger, limit, lock, month, charged>>, raced' \in BOOLEAN,
         p \in {"debit", "limit"} => -l.amount \in Amounts,
         p = "credit" => l.amount \in Amounts,
         p \in {"limit", "post"} => l.read + l.amount >= 0
  PROVE  IInv'
  BY DEF IInv, TypeOK, NeverNegative, LockInv, RowInv, FiberInv, Debiting

(* Callers may go anywhere in their own code.                              *)
LEMMA GoOnInv ==
  ASSUME IInv, GoOn
  PROVE  IInv'
<1>1. \A f \in Fibers : pc[f] \in Statements => pc'[f] = pc[f]
  BY DEF GoOn, Elsewhere
<1>2. \A f \in Fibers : pc'[f] \in Statements => pc'[f] = pc[f]
  BY DEF GoOn
<1>3. TypeOK' /\ UNCHANGED <<loc, Accounts>>
  BY DEF IInv, TypeOK, GoOn, Accounts
<1>4. \A f \in Fibers : FiberInv(f)'
  BY <1>2, <1>3 DEF IInv, FiberInv, Debiting, Statements
<1>5. LockInv'
  BY <1>1, <1>3 DEF IInv, TypeOK, LockInv, Debiting, Accounts, Statements
<1>6. QED
  BY <1>3, <1>4, <1>5 DEF IInv, NeverNegative, RowInv, Accounts

(* Outside the statements, a fiber may call debit or credit.               *)
LEMMA CallerInv ==
  ASSUME IInv, NEW f \in Fibers, UseCredits(f)
  PROVE  IInv'
<1>1. lock # f /\ raced \in BOOLEAN /\ loc \in [Fibers -> Locals]
  BY DEF IInv, TypeOK, LockInv, UseCredits, Elsewhere, Statements
<1>2. PICK n \in Amounts, cause \in Causes, capped \in BOOLEAN :
        Debit(f, n, cause, capped) \/ Credit(f, n, cause)
  BY DEF UseCredits
<1>3. n \in Nat \ {0}
  OBVIOUS
<1>4. CASE Debit(f, n, cause, capped)
  <2> DEFINE l == Params(-n, cause, capped)
  <2>1. l \in Locals /\ l.amount = -n
    BY <1>3, ParamsTyped
  <2>2. -(-n) = n
    BY <1>3
  <2> HIDE DEF l
  <2>3. pc' = [pc EXCEPT ![f] = "debit"] /\ loc' = [loc EXCEPT ![f] = l] /\ UNCHANGED Accounts
    BY <1>4 DEF Debit, Call, GoTo, l
  <2>4. QED
    BY <1>1, <2>1, <2>2, <2>3, MoveInv DEF Accounts, Statements
<1>5. CASE Credit(f, n, cause)
  <2> DEFINE l == Params(n, cause, FALSE)
  <2>0. n \in Int /\ FALSE \in BOOLEAN
    BY <1>3
  <2>1. l \in Locals /\ l.amount = n
    BY <2>0, ParamsTyped
  <2> HIDE DEF l
  <2>2. pc' = [pc EXCEPT ![f] = "credit"] /\ loc' = [loc EXCEPT ![f] = l] /\ UNCHANGED Accounts
    BY <1>5 DEF Credit, Call, GoTo, l
  <2>3. QED
    BY <1>1, <2>1, <2>2, MoveInv DEF Accounts, Statements
<1>6. QED
  BY <1>2, <1>4, <1>5

(* The reads: what is written later is not negative.                       *)
LEMMA ReadInv ==
  ASSUME IInv, NEW f \in Fibers, ReadToDebit(f) \/ ReadToCredit(f)
  PROVE  IInv'
<1> DEFINE l == [loc[f] EXCEPT !.read = balance]
<1>1. lock # f /\ raced' \in BOOLEAN /\ loc[f] \in Locals /\ balance \in Int /\ balance >= 0
  BY DEF IInv, TypeOK, LockInv, NeverNegative, ReadToDebit, ReadToCredit, Remember
<1>2. l \in Locals /\ l.amount = loc[f].amount /\ l.read = balance
  BY <1>1 DEF Locals
<1>3. loc' = [loc EXCEPT ![f] = l] /\ UNCHANGED <<balance, ledger, limit, lock, month, charged>>
  BY DEF ReadToDebit, ReadToCredit, Remember
<1> HIDE DEF l
<1>4. CASE ReadToDebit(f)
  <2> DEFINE p == IF loc[f].capped THEN "limit" ELSE "post"
  <2>1. pc' = [pc EXCEPT ![f] = p] /\ balance + loc[f].amount >= 0 /\ Debiting(f)
    BY <1>4 DEF ReadToDebit, GoTo, IInv, FiberInv
  <2>2. p \in Statements /\ p # "credit" /\ p # "debit"
    BY DEF Statements
  <2> HIDE DEF p
  <2>3. QED
    BY <1>1, <1>2, <1>3, <2>1, <2>2, MoveInv DEF Debiting
<1>5. CASE ReadToCredit(f)
  <2>1. pc' = [pc EXCEPT ![f] = "post"] /\ loc[f].amount \in Nat
    BY <1>5 DEF ReadToCredit, GoTo, IInv, FiberInv
  <2>2. balance + loc[f].amount >= 0
    BY <1>1, <2>1
  <2>3. QED
    BY <1>1, <1>2, <1>3, <2>1, <2>2, MoveInv DEF Statements
<1>6. QED
  BY <1>4, <1>5

(* The ways out, and the debit that finds no row to lock.                  *)
LEMMA LeaveInv ==
  ASSUME IInv, NEW f \in Fibers, Insufficient(f) \/ OverLimit(f) \/ Uncapped(f)
  PROVE  IInv'
<1>1. lock # f /\ raced \in BOOLEAN /\ loc \in [Fibers -> Locals] /\ UNCHANGED Accounts
  BY DEF IInv, TypeOK, LockInv, Insufficient, OverLimit, Uncapped
<1>2. CASE Uncapped(f)
  <2>1. loc' = [loc EXCEPT ![f] = loc[f]] /\ loc[f] \in Locals
    BY <1>1, <1>2 DEF Uncapped
  <2>2. loc[f].read + loc[f].amount >= 0
    BY <1>2 DEF Uncapped, IInv, FiberInv
  <2>3. pc' = [pc EXCEPT ![f] = "post"] /\ "post" \in Statements
    BY <1>2 DEF Uncapped, GoTo, Statements
  <2>4. QED
    BY <1>1, <2>1, <2>2, <2>3, MoveInv DEF Accounts
<1>3. CASE Insufficient(f) \/ OverLimit(f)
  <2>1. pc' = [pc EXCEPT ![f] = "threw"] /\ loc' = [loc EXCEPT ![f] = Fresh]
    BY <1>3 DEF Insufficient, OverLimit, Return, GoTo
  <2>2. QED
    BY <1>1, <2>1, FreshTyped, MoveInv DEF Accounts, Outcomes
<1>4. QED
  BY <1>2, <1>3

(* SELECT FOR UPDATE: the holder has checked what it will write.           *)
LEMMA LockLimitInv ==
  ASSUME IInv, NEW f \in Fibers, LockLimit(f)
  PROVE  IInv'
<1> DEFINE n == -loc[f].amount
           l == [loc[f] EXCEPT !.usage = Used - loc[f].amount, !.period = month]
<1>1. /\ pc[f] = "limit" /\ n \in Amounts /\ n \in Nat /\ loc[f] \in Locals
      /\ loc[f].read + loc[f].amount >= 0
  BY DEF IInv, TypeOK, LockLimit, FiberInv, Debiting
<1>2. Used \in Nat /\ Used = charged[month] /\ Used + n <= limit.monthly
  <2>1. limit.monthly # NoCap /\ limit.period <= month /\ limit.usage = charged[limit.period]
    BY DEF LockLimit, IInv, RowInv
  <2>2. limit.period # month => charged[month] = 0
    BY <2>1 DEF IInv, RowInv, TypeOK, LockLimit
  <2>3. Used - loc[f].amount <= limit.monthly
    BY DEF LockLimit
  <2>4. Used \in Nat /\ Used = charged[month]
    BY <2>1, <2>2 DEF Used, IInv, TypeOK
  <2>5. loc[f].amount \in Int
    BY <1>1 DEF Locals
  <2>6. QED
    BY <2>3, <2>4, <2>5
<1>3. /\ l \in Locals /\ l.amount = loc[f].amount /\ l.read = loc[f].read
      /\ l.usage = Used - loc[f].amount /\ l.period = month
  <2>1. Used - loc[f].amount \in Nat
    BY <1>1, <1>2 DEF Locals
  <2>2. QED
    BY <1>1, <2>1 DEF Locals, IInv, TypeOK
<1>4. /\ loc' = [loc EXCEPT ![f] = l] /\ pc' = [pc EXCEPT ![f] = "post"] /\ lock' = f
      /\ limit.monthly # NoCap
      /\ UNCHANGED <<balance, ledger, limit, month, charged, raced>>
  BY DEF LockLimit, GoTo
<1> HIDE DEF l
<1>5. TypeOK'
  BY <1>3, <1>4 DEF IInv, TypeOK, Statements
<1>6. \A g \in Fibers : FiberInv(g)'
  BY <1>1, <1>3, <1>4 DEF IInv, TypeOK, FiberInv, Debiting
<1>7. LockInv'
  <2>1. pc'[f] = "post" /\ loc'[f] = l
    BY <1>4 DEF IInv, TypeOK
  <2>2. loc[f].amount \in Int
    BY <1>1 DEF Locals
  <2>3. l.usage <= limit.monthly /\ l.usage = charged[month] - l.amount
    BY <1>2, <1>3, <2>2
  <2>4. limit.period <= month /\ month <= month
    BY DEF IInv, TypeOK
  <2>5. QED
    BY <1>1, <1>3, <1>4, <2>1, <2>3, <2>4 DEF LockInv, Debiting
<1>8. QED
  BY <1>4, <1>5, <1>6, <1>7 DEF IInv, NeverNegative, RowInv

(* The commit: the charge fits, and the row counts it.                     *)
LEMMA PostInv ==
  ASSUME IInv, NEW f \in Fibers, Post(f)
  PROVE  IInv'
<1> DEFINE l == loc[f]
<1>1. /\ l \in Locals /\ pc[f] = "post" /\ l.read + l.amount >= 0
      /\ l.amount \in Int /\ l.read \in Int /\ l.period \in Months /\ l.usage \in Nat
  BY DEF IInv, TypeOK, Post, FiberInv, Locals
<1>2. /\ balance' = l.read + l.amount
      /\ ledger' = Append(ledger, [amount |-> l.amount, after |-> l.read + l.amount, for |-> l.for])
      /\ pc' = [pc EXCEPT ![f] = "paid"] /\ loc' = [loc EXCEPT ![f] = Fresh]
      /\ UNCHANGED <<month, raced>>
  BY DEF Post, Return, GoTo
<1>3. ledger' \in Seq(Entries) /\ balance' \in Int /\ balance' >= 0
  <2>1. [amount |-> l.amount, after |-> l.read + l.amount, for |-> l.for] \in Entries
    BY <1>1 DEF Entries, Locals
  <2>2. QED
    BY <1>1, <1>2, <2>1 DEF IInv, TypeOK
<1>4. pc' \in [Fibers -> Places \cup Statements] /\ loc' \in [Fibers -> Locals]
  BY <1>2, FreshTyped DEF IInv, TypeOK, Outcomes
<1>5. \A g \in Fibers : FiberInv(g)'
  BY <1>2 DEF IInv, TypeOK, FiberInv, Debiting
<1>6. CASE lock = f
  <2>1. /\ limit' = [limit EXCEPT !.usage = l.usage, !.period = l.period]
        /\ charged' = [charged EXCEPT ![l.period] = @ - l.amount] /\ lock' = Nobody
    BY <1>6 DEF Post
  <2>2. /\ limit.monthly # NoCap /\ l.usage = charged[l.period] - l.amount
        /\ limit.period <= l.period /\ l.period <= month
    BY <1>6 DEF IInv, LockInv
  <2>3. charged' \in [Months -> Nat] /\ charged'[l.period] = l.usage
    BY <1>1, <2>1, <2>2 DEF IInv, TypeOK
  <2>4. limit' \in [monthly : Caps \cup {NoCap}, usage : Nat, period : Months]
    BY <1>1, <2>1 DEF IInv, TypeOK
  <2>5. limit'.usage = l.usage /\ limit'.period = l.period /\ limit'.monthly = limit.monthly
    BY <2>1 DEF IInv, TypeOK
  <2>6. RowInv'
    <3>1. \A m \in Months : m > l.period => charged[m] = 0 /\ charged'[m] = charged[m]
      BY <1>1, <2>1, <2>2 DEF IInv, TypeOK, RowInv
    <3>2. QED
      BY <2>3, <2>5, <3>1 DEF RowInv
  <2>7. QED
    BY <1>2, <1>3, <1>4, <1>5, <2>1, <2>2, <2>3, <2>4, <2>5, <2>6
       DEF IInv, TypeOK, NeverNegative, LockInv
<1>7. CASE lock # f
  <2>1. UNCHANGED <<limit, charged, lock>>
    BY <1>7 DEF Post
  <2>2. LockInv'
    BY <1>2, <1>7, <2>1 DEF IInv, TypeOK, LockInv, Debiting
  <2>3. QED
    BY <1>2, <1>3, <1>4, <1>5, <2>1, <2>2 DEF IInv, TypeOK, NeverNegative, RowInv
<1>8. QED
  BY <1>6, <1>7

(* A rollback, or the end of all fibers, releases the row unwritten.       *)
LEMMA UndoInv ==
  ASSUME IInv, Halt \/ \E f \in Fibers : Rollback(f)
  PROVE  IInv'
<1>1. CASE Halt
  <2>1. TypeOK'
    BY <1>1, FreshTyped DEF IInv, TypeOK, Halt
  <2>2. QED
    BY <1>1, <2>1 DEF IInv, NeverNegative, Halt, LockInv, RowInv, FiberInv
<1>2. ASSUME NEW f \in Fibers, Rollback(f) PROVE IInv'
  <2>1. TypeOK'
    BY <1>2, FreshTyped DEF IInv, TypeOK, Rollback, Return, GoTo, Outcomes
  <2>2. \A g \in Fibers : FiberInv(g)'
    BY <1>2 DEF IInv, TypeOK, Rollback, Return, GoTo, FiberInv, Debiting
  <2>3. LockInv'
    BY <1>2 DEF IInv, TypeOK, Rollback, Return, GoTo, LockInv, Debiting
  <2>4. QED
    BY <1>2, <2>1, <2>2, <2>3 DEF IInv, NeverNegative, Rollback, RowInv
<1>3. QED
  BY <1>1, <1>2

(* The administrator, the cron and the calendar.                           *)
LEMMA AdministerInv ==
  ASSUME IInv, Administer
  PROVE  IInv'
<1>1. \A f \in Fibers : FiberInv(f)'
  BY DEF IInv, Administer, SetLimit, RemoveLimit, ResetExpiredPeriods, NextMonth, FiberInv, Debiting
<1>2. CASE SetLimit
  <2>1. PICK c \in Caps :
          /\ limit' = IF limit.monthly = NoCap THEN [monthly |-> c, usage |-> 0, period |-> month]
                                               ELSE [limit EXCEPT !.monthly = c]
          /\ charged' = IF limit.monthly = NoCap THEN NoUsage ELSE charged
          /\ lock = Nobody
          /\ UNCHANGED <<balance, ledger, lock, month, pc, loc, raced>>
    BY <1>2 DEF SetLimit
  <2>2. limit' \in [monthly : Caps \cup {NoCap}, usage : Nat, period : Months]
    BY <2>1 DEF IInv, TypeOK
  <2>3. charged' \in [Months -> Nat]
    BY <2>1 DEF IInv, TypeOK, NoUsage
  <2>4. RowInv' /\ limit'.period <= month
    <3>1. CASE limit.monthly = NoCap
      BY <2>1, <3>1 DEF IInv, TypeOK, RowInv, NoUsage
    <3>2. CASE limit.monthly # NoCap
      BY <2>1, <3>2 DEF IInv, TypeOK, RowInv
    <3>3. QED
      BY <3>1, <3>2
  <2>5. QED
    BY <1>1, <2>1, <2>2, <2>3, <2>4 DEF IInv, TypeOK, NeverNegative, LockInv
<1>3. CASE RemoveLimit
  <2>1. limit' = NoRow /\ lock' = Nobody /\ UNCHANGED <<balance, ledger, month, pc, loc, charged, raced>>
    BY <1>3 DEF RemoveLimit
  <2>2. limit' \in [monthly : Caps \cup {NoCap}, usage : Nat, period : Months]
    BY <2>1 DEF NoRow
  <2>3. RowInv' /\ limit'.period <= month
    BY <2>1 DEF IInv, TypeOK, RowInv, NoRow
  <2>4. QED
    BY <1>1, <2>1, <2>2, <2>3 DEF IInv, TypeOK, NeverNegative, LockInv
<1>4. CASE ResetExpiredPeriods
  <2>1. /\ limit' = [limit EXCEPT !.usage = 0, !.period = month] /\ lock' = Nobody
        /\ limit.period < month /\ UNCHANGED <<balance, ledger, month, pc, loc, charged, raced>>
    BY <1>4 DEF ResetExpiredPeriods
  <2>2. limit' \in [monthly : Caps \cup {NoCap}, usage : Nat, period : Months]
    BY <2>1 DEF IInv, TypeOK
  <2>3. RowInv' /\ limit'.period <= month
    BY <1>4, <2>1 DEF IInv, TypeOK, RowInv, ResetExpiredPeriods
  <2>4. QED
    BY <1>1, <2>1, <2>2, <2>3 DEF IInv, TypeOK, NeverNegative, LockInv
<1>5. CASE NextMonth
  <2>1. /\ month' = month + 1 /\ month' \in Months
        /\ UNCHANGED <<balance, ledger, limit, lock, pc, loc, charged, raced>>
    BY <1>5 DEF NextMonth
  <2>2. month \in Nat /\ limit.period \in Nat /\ 1 <= month' /\ limit.period <= month'
    <3>1. month \in Months /\ limit.period \in Months
      BY DEF IInv, TypeOK
    <3>2. month \in Nat /\ limit.period \in Nat
      BY <3>1
    <3>3. QED
      BY <2>1, <3>2 DEF IInv
  <2>3. LockInv'
    <3> SUFFICES ASSUME lock # Nobody PROVE LockInv'
      BY <2>1 DEF LockInv
    <3>1. loc[lock].period \in Nat /\ loc[lock].period <= month
      BY DEF IInv, TypeOK, LockInv, Locals
    <3>2. QED
      BY <2>1, <2>2, <3>1 DEF IInv, LockInv, Debiting
  <2>4. QED
    BY <1>1, <2>1, <2>2, <2>3 DEF IInv, TypeOK, NeverNegative, RowInv
<1>6. QED
  BY <1>2, <1>3, <1>4, <1>5 DEF Administer

(* Every step preserves the invariant.                                     *)
LEMMA StepInv == IInv /\ [Next]_vars => IInv'
<1> SUFFICES ASSUME IInv, [Next]_vars PROVE IInv'
  OBVIOUS
<1>1. CASE UNCHANGED vars
  BY <1>1 DEF vars, IInv, TypeOK, NeverNegative, LockInv, RowInv, FiberInv, Debiting
<1>2. ASSUME NEW f \in Fibers, Execute(f) PROVE IInv'
  BY <1>2, LeaveInv, ReadInv, LockLimitInv, PostInv DEF Execute
<1>3. ASSUME NEW f \in Fibers, UseCredits(f) PROVE IInv'
  BY <1>3, CallerInv
<1>4. QED
  BY <1>1, <1>2, <1>3, GoOnInv, UndoInv, AdministerInv DEF Next

(* IInv, of any callers of credits.                                        *)
LEMMA Invariance == Spec => []IInv
  BY InitInv, StepInv, PTL DEF Spec

-----------------------------------------------------------------------------
(* The cap                                                                 *)

(* A step of Credits is a step of Budget, or leaves the budget alone: only *)
(* the commit of a holder spends, and what it spends fits.                 *)
LEMMA BudgetStep == IInv /\ [Next]_vars => [Budgeting!Next]_<<limit.monthly, charged>>
<1> SUFFICES ASSUME IInv, [Next]_vars PROVE [Budgeting!Next]_<<limit.monthly, charged>>
  OBVIOUS
<1>1. CASE UNCHANGED <<limit, charged>>
  BY <1>1
<1>2. ASSUME NEW f \in Fibers, Post(f), lock = f PROVE Budgeting!Spend
  <2> DEFINE n == -loc[f].amount
             m == loc[f].period
  <2>1. /\ limit.monthly # NoCap /\ n \in Amounts /\ m \in Months
        /\ loc[f].amount \in Int
    <3>1. loc[f] \in Locals /\ limit.monthly \in Caps
      BY <1>2 DEF IInv, TypeOK, LockInv
    <3>2. n \in Amounts /\ limit.monthly # NoCap
      BY <1>2 DEF IInv, LockInv, Debiting
    <3>3. loc[f].amount \in Int /\ m \in Months
      BY <3>1 DEF Locals
    <3>4. QED
      BY <3>2, <3>3
  <2>2. charged[m] - loc[f].amount <= limit.monthly /\ charged[m] \in Nat
    BY <1>2, <2>1 DEF IInv, TypeOK, LockInv
  <2>3. charged' = [charged EXCEPT ![m] = @ - loc[f].amount] /\ limit'.monthly = limit.monthly
    BY <1>2 DEF Post, IInv, TypeOK
  <2>4. charged[m] - loc[f].amount = charged[m] + n
    BY <2>1, <2>2
  <2>5. QED
    BY <2>1, <2>2, <2>3, <2>4 DEF Budgeting!Spend
<1>3. CASE SetLimit
  <2>1. PICK c \in Caps :
          /\ limit' = IF limit.monthly = NoCap THEN [monthly |-> c, usage |-> 0, period |-> month]
                                               ELSE [limit EXCEPT !.monthly = c]
          /\ charged' = IF limit.monthly = NoCap THEN NoUsage ELSE charged
    BY <1>3 DEF SetLimit
  <2>2. limit'.monthly = c
    BY <2>1 DEF IInv, TypeOK
  <2>3. QED
    BY <2>1, <2>2 DEF Budgeting!SetCap, Budgeting!Next, Budgeting!Nothing, NoUsage
<1>4. CASE RemoveLimit
  BY <1>4 DEF RemoveLimit, NoRow, Budgeting!RemoveCap, Budgeting!Next
<1>5. CASE ResetExpiredPeriods
  BY <1>5 DEF ResetExpiredPeriods, IInv, TypeOK
<1>6. ASSUME NEW f \in Fibers, Execute(f) \/ Rollback(f) \/ UseCredits(f),
             ~(Post(f) /\ lock = f)
      PROVE  UNCHANGED <<limit, charged>>
  BY <1>6 DEF Execute, Insufficient, ReadToDebit, ReadToCredit, Remember, Uncapped, OverLimit,
     LockLimit, Post, Rollback, UseCredits, Debit, Credit, Call, Accounts
<1>7. QED
  BY <1>1, <1>2, <1>3, <1>4, <1>5, <1>6
     DEF Next, vars, GoOn, Accounts, Administer, NextMonth, Halt, Budgeting!Next

(* The cap of a workspace is kept by any callers of debit, at any time.    *)
LEMMA CapKept == Spec => RefinesBudget
<1>1. Init => Budgeting!Init
  BY DEF Init, NoRow, NoUsage, Budgeting!Init, Budgeting!Nothing
<1>2. QED
  BY <1>1, Invariance, BudgetStep, PTL DEF Spec, RefinesBudget, Budgeting!Spec, Budgeting!vars

-----------------------------------------------------------------------------
(* The balance and the ledger                                              *)

\* f has read the balance and is about to overwrite it.
Pending(f) == pc[f] \in {"limit", "post"}

\* Unless there was a race, one fiber at a time, with a balance that is still right.
SerialInv == ~raced =>
  /\ \A f, g \in Fibers : Pending(f) /\ Pending(g) => f = g
  /\ \A f \in Fibers : Pending(f) => loc[f].read = balance

(* Nobody is about to overwrite the balance who was not, and no statement  *)
(* commits.                                                                *)
LEMMA SerialStands ==
  ASSUME SerialBalance, SerialInv, UNCHANGED <<balance, ledger, raced>>,
         \A f \in Fibers : Pending(f)' => Pending(f) /\ loc'[f].read = loc[f].read
  PROVE  SerialBalance' /\ SerialInv'
  BY DEF SerialBalance, SerialInv, After

(* A read in a race says so, and one that is not finds the balance free.   *)
LEMMA SerialRead ==
  ASSUME TypeOK, SerialBalance, SerialInv, NEW f \in Fibers,
         NEW p \in {"limit", "post"}, GoTo(f, p), Remember(f)
  PROVE  SerialBalance' /\ SerialInv'
<1>1. /\ pc' = [pc EXCEPT ![f] = p] /\ loc' = [loc EXCEPT ![f].read = balance]
      /\ UNCHANGED <<balance, ledger>>
      /\ ~raced' => ~raced /\ \A g \in Fibers \ {f} : ~Pending(g)
  BY DEF GoTo, Remember, Pending
<1>2. loc'[f].read = balance /\ \A g \in Fibers \ {f} : pc'[g] = pc[g]
  BY <1>1 DEF TypeOK, Locals
<1>3. SerialInv'
  BY <1>1, <1>2 DEF SerialInv, Pending
<1>4. QED
  BY <1>1, <1>3 DEF SerialBalance, After

(* A commit on the balance that was read extends the chain of the ledger.  *)
LEMMA SerialPost ==
  ASSUME TypeOK, SerialBalance, SerialInv, NEW f \in Fibers, Post(f)
  PROVE  SerialBalance' /\ SerialInv'
<1>0. ledger \in Seq(Entries)
  BY DEF TypeOK
<1> PICK n \in Nat : n = Len(ledger)
  BY <1>0
<1> DEFINE e == [amount |-> loc[f].amount, after |-> loc[f].read + loc[f].amount,
                  for |-> loc[f].for]
<1>1. /\ pc[f] = "post" /\ balance' = loc[f].read + loc[f].amount /\ raced' = raced
      /\ ledger' = Append(ledger, e)
      /\ pc' = [pc EXCEPT ![f] = "paid"] /\ loc' = [loc EXCEPT ![f] = Fresh]
  BY DEF Post, Return, GoTo
<1>2. e.after = balance' /\ e.amount = loc[f].amount
  BY <1>1
<1> HIDE DEF e
<1>3. /\ Len(ledger') = n + 1 /\ DOMAIN ledger' = 1 .. n + 1 /\ ledger'[n + 1] = e
      /\ \A i \in 1 .. n : ledger'[i] = ledger[i]
      /\ DOMAIN ledger = 1 .. n
  BY <1>0, <1>1
<1>4. After(n + 1)' = balance'
  BY <1>2, <1>3 DEF After
<1>5. \A i \in 0 .. n : After(i)' = After(i)
  BY <1>2, <1>3 DEF After
<1>6. ASSUME ~raced
      PROVE  /\ loc[f].read = balance /\ balance = After(n)
             /\ \A g \in Fibers : ~Pending(g)'
  BY <1>1, <1>6 DEF SerialInv, SerialBalance, Pending, TypeOK
<1>7. SerialInv'
  BY <1>1, <1>6 DEF SerialInv
<1>8. SerialBalance'
  <2> SUFFICES ASSUME ~raced
               PROVE  /\ \A i \in 1 .. n + 1 : ledger'[i].after = After(i - 1)' + ledger'[i].amount
                      /\ balance' = After(n + 1)'
    BY <1>1, <1>3 DEF SerialBalance
  <2>1. ASSUME NEW i \in 1 .. n
        PROVE  ledger'[i].after = After(i - 1)' + ledger'[i].amount
    <3>1. ledger[i].after = After(i - 1) + ledger[i].amount /\ i - 1 \in 0 .. n
      BY <1>2, <1>3 DEF SerialBalance
    <3>2. QED
      BY <1>3, <1>5, <3>1
  <2>2. ledger'[n + 1].after = After(n)' + ledger'[n + 1].amount
    BY <1>1, <1>2, <1>3, <1>5, <1>6
  <2>3. QED
    BY <1>2, <1>4, <2>1, <2>2
<1>9. QED
  BY <1>7, <1>8

(* Every step keeps the chain, unless it is a race.                        *)
LEMMA SerialStep == TypeOK /\ SerialBalance /\ SerialInv /\ [Next]_vars => SerialBalance' /\ SerialInv'
<1> SUFFICES ASSUME TypeOK, SerialBalance, SerialInv, [Next]_vars
             PROVE  SerialBalance' /\ SerialInv'
  OBVIOUS
<1>1. CASE UNCHANGED vars
  BY <1>1, SerialStands DEF vars, Pending
<1>2. ASSUME NEW f \in Fibers, Execute(f) \/ Rollback(f) \/ UseCredits(f)
      PROVE  SerialBalance' /\ SerialInv'
  <2>1. CASE Post(f)
    BY <2>1, SerialPost
  <2>2. CASE ReadToDebit(f) \/ ReadToCredit(f)
    BY <2>2, SerialRead DEF ReadToDebit, ReadToCredit
  <2>3. CASE Insufficient(f) \/ OverLimit(f) \/ Rollback(f) \/ UseCredits(f)
    <3>1. /\ UNCHANGED <<balance, ledger, raced>>
          /\ \A g \in Fibers \ {f} : pc'[g] = pc[g] /\ loc'[g] = loc[g]
          /\ pc'[f] \in {"threw", "debit", "credit"}
      BY <2>3 DEF Insufficient, OverLimit, Rollback, UseCredits, Debit, Credit, Call, Return, GoTo,
         Accounts, TypeOK
    <3>2. QED
      BY <3>1, SerialStands DEF Pending
  <2>4. CASE Uncapped(f) \/ LockLimit(f)
    <3>1. /\ UNCHANGED <<balance, ledger, raced>> /\ Pending(f)
          /\ \A g \in Fibers \ {f} : pc'[g] = pc[g] /\ loc'[g] = loc[g]
          /\ loc'[f].read = loc[f].read
      BY <2>4 DEF Uncapped, LockLimit, GoTo, Accounts, TypeOK, Locals, Pending
    <3>2. QED
      BY <3>1, SerialStands DEF Pending
  <2>5. QED
    BY <1>2, <2>1, <2>2, <2>3, <2>4 DEF Execute
<1>3. CASE GoOn
  <2>1. \A f \in Fibers : Pending(f)' => Pending(f)
    BY <1>3 DEF GoOn, Pending, Statements
  <2>2. QED
    BY <1>3, <2>1, SerialStands DEF GoOn, Accounts
<1>4. CASE Administer \/ Halt
  BY <1>4, SerialStands DEF Administer, SetLimit, RemoveLimit, ResetExpiredPeriods, NextMonth, Halt,
     Pending
<1>5. QED
  BY <1>1, <1>2, <1>3, <1>4 DEF Next

(* The ledger explains the balance, for any callers.                       *)
LEMMA LedgerBalances == Spec => []SerialBalance
<1>1. Init => SerialBalance /\ SerialInv
  BY DEF Init, SerialBalance, SerialInv, Pending, After
<1>2. IInv => TypeOK
  BY DEF IInv
<1>3. QED
  BY <1>1, <1>2, SerialStep, Invariance, PTL DEF Spec

=============================================================================
