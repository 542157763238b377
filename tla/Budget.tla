------------------------------- MODULE Budget -------------------------------
(***************************************************************************)
(* What the monthly cap of a workspace promises: while a cap is set, each  *)
(* amount charged against it in a month fits what the month has left.  No  *)
(* balance, row lock, period or cron in sight.  Credits implements it.     *)
(***************************************************************************)
EXTENDS Integers

CONSTANTS Months, Caps, Amounts, NoCap

VARIABLES
  cap,    \* the cap, or NoCap
  spent   \* what each month was charged since the cap was set

vars == <<cap, spent>>

Nothing == [m \in Months |-> 0]

Init == cap = NoCap /\ spent = Nothing

SetCap == \E c \in Caps :
  /\ cap' = c
  /\ spent' = IF cap = NoCap THEN Nothing ELSE spent

RemoveCap == cap # NoCap /\ cap' = NoCap /\ UNCHANGED spent

Spend == \E m \in Months, n \in Amounts :
  /\ cap # NoCap /\ spent[m] + n <= cap
  /\ spent' = [spent EXCEPT ![m] = @ + n]
  /\ UNCHANGED cap

Next == SetCap \/ RemoveCap \/ Spend

Spec == Init /\ [][Next]_vars

=============================================================================
