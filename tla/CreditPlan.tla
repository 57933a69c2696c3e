----------------------------- MODULE CreditPlan -----------------------------
(***************************************************************************)
(* What the free plan promises, without transactions, threads or ledger    *)
(* (crates/core/src/accounts.rs:8-11): a credit is a keyword held for a    *)
(* year; it is charged when the keyword is added, does not come back when  *)
(* the keyword is dropped, and once the year is over the keywords held are *)
(* charged to the credits of the new year.                                 *)
(***************************************************************************)
EXTENDS Integers, FiniteSets

CONSTANTS
  Accounts,
  Keywords,
  Credits,   \* credits a year
  Year       \* length of a year

VARIABLES
  clock,
  open,      \* the accounts that exist
  used,      \* credits charged in the current year of an account
  end,       \* when that year is over
  held       \* keywords an account holds

planVars == <<clock, open, used, end, held>>

Init ==
  /\ clock = 0
  /\ open = {}
  /\ used = [a \in Accounts |-> 0]
  /\ end = [a \in Accounts |-> 0]
  /\ held = [a \in Accounts |-> {}]

Open(a) ==
  /\ a \notin open
  /\ open' = open \cup {a}
  /\ end' = [end EXCEPT ![a] = clock + Year]
  /\ UNCHANGED <<clock, used, held>>

Charge(a, k) ==
  /\ a \in open
  /\ used[a] < Credits
  /\ \A b \in Accounts : k \notin held[b]
  /\ used' = [used EXCEPT ![a] = @ + 1]
  /\ held' = [held EXCEPT ![a] = @ \cup {k}]
  /\ UNCHANGED <<clock, open, end>>

Drop(a, k) ==
  /\ k \in held[a]
  /\ held' = [held EXCEPT ![a] = @ \ {k}]
  /\ UNCHANGED <<clock, open, used, end>>

(* Renewal is at least one whole year after the last, whenever it is noticed. *)
Renew(a) ==
  /\ a \in open
  /\ end[a] <= clock
  /\ used' = [used EXCEPT ![a] = Cardinality(held[a])]
  /\ \E years \in 1..clock :
       /\ end[a] + years * Year <= clock + Year
       /\ end' = [end EXCEPT ![a] = @ + years * Year]
  /\ UNCHANGED <<clock, open, held>>

Close(a) ==
  /\ a \in open
  /\ open' = open \ {a}
  /\ used' = [used EXCEPT ![a] = 0]
  /\ end' = [end EXCEPT ![a] = 0]
  /\ held' = [held EXCEPT ![a] = {}]
  /\ UNCHANGED clock

Tick ==
  /\ clock' = clock + 1
  /\ UNCHANGED <<open, used, end, held>>

Next ==
  \/ Tick
  \/ \E a \in Accounts :
       \/ Open(a)
       \/ \E k \in Keywords : Charge(a, k) \/ Drop(a, k)
       \/ Renew(a)
       \/ Close(a)

Spec == Init /\ [][Next]_planVars
=============================================================================
