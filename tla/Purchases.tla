------------------------------ MODULE Purchases ------------------------------
(***************************************************************************)
(* What billing promises a buyer, without handlers, tables or webhooks: an *)
(* order is paid at most once, for one thing fixed beforehand, and is then *)
(* fulfilled at least once with exactly that thing.  A plan order puts its *)
(* user on its plan; a service order never touches anyone's plan.          *)
(***************************************************************************)
CONSTANTS Users, Plans, Services, OrderIds, Unpaid

Items == [user: Users, plan: Plans] \cup [service: Services]

VARIABLES
  purchase,   \* what each order was paid for, or Unpaid
  fulfilled,  \* the orders delivered so far
  plan        \* the plan each user is on

vars == <<purchase, fulfilled, plan>>

Init ==
  /\ purchase = [o \in OrderIds |-> Unpaid]
  /\ fulfilled = {}
  /\ plan = [u \in Users |-> "free"]

Pay(o, item) ==
  /\ purchase[o] = Unpaid
  /\ purchase' = [purchase EXCEPT ![o] = item]
  /\ UNCHANGED <<fulfilled, plan>>

FulfilPlan(o, u, p) ==
  /\ purchase[o] = [user |-> u, plan |-> p]
  /\ plan' = [plan EXCEPT ![u] = p]
  /\ fulfilled' = fulfilled \cup {o}
  /\ UNCHANGED purchase

FulfilService(o, s) ==
  /\ purchase[o] = [service |-> s]
  /\ fulfilled' = fulfilled \cup {o}
  /\ UNCHANGED <<purchase, plan>>

Next ==
  \E o \in OrderIds :
    \/ \E item \in Items : Pay(o, item)
    \/ \E u \in Users, p \in Plans : FulfilPlan(o, u, p)
    \/ \E s \in Services : FulfilService(o, s)

Spec == Init /\ [][Next]_vars
=============================================================================
