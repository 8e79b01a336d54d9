--------------------------------- MODULE Budget ---------------------------------
(***************************************************************************)
(* The usage meter of one provider in one run: what earlier runs of the    *)
(* UTC day spent, what this run spent, and whether it has tripped.  Money  *)
(* is counted in whole units; prices and tokens are left out.              *)
(***************************************************************************)
EXTENDS Integers

CONSTANT Limit   \* max_daily_usd of every provider, 0 for no ceiling

ASSUME LimitAssumption == Limit \in Nat

Meter == [prior : Nat, cost : Nat, tripped : BOOLEAN]

Spent(m) == m.prior + m.cost

\* Faulty variant of Over: the ceiling is checked as record does.
OverAbove(m) == m.tripped \/ (Limit > 0 /\ Spent(m) > Limit)

\* What check_budget answers; it also leaves the meter tripped (Checked).
Over(m) == m.tripped \/ (Limit > 0 /\ Spent(m) >= Limit)

Checked(m) == [m EXCEPT !.tripped = Over(m)]

\* A new meter after preload_cost.
Preloaded(spent) == [prior |-> spent, cost |-> 0, tripped |-> Limit > 0 /\ spent >= Limit]

\* The meter after a completion that cost c: it trips above the limit, where
\* check_budget already trips at it.
Recorded(m, c) ==
  [m EXCEPT !.cost = @ + c,
            !.tripped = @ \/ (Limit > 0 /\ Spent(m) + c > Limit)]
=============================================================================
