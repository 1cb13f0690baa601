--------------------------- MODULE LintQuotaProofs ---------------------------
(***************************************************************************)
(* Proofs about LintQuota, for any limits, users, finite pool of workers,  *)
(* number of months, calls and faults.                                     *)
(***************************************************************************)
EXTENDS LintQuota, FiniteSetTheorems, TLAPS

LEMMA RequestShape ==
  ASSUME NEW r \in Requests
  PROVE  /\ r.pc # "idle" => r.user \in Users
         /\ r.pc = "getUsage" => r.limit \in Nat \ {0}
         /\ r.pc \in {"save", "respond"} => r.counted \in Months
  BY DEF Requests, Idle

LEMMA LimitType == \A p \in Plans : planMonthlyLimit(p) \in Nat
  BY QuotaAssumption DEF planMonthlyLimit, Plans

LEMMA GotoType ==
  ASSUME requests \in [Workers -> Requests], NEW w \in Workers, NEW r \in Requests, Goto(w, r)
  PROVE  /\ requests' \in [Workers -> Requests]
         /\ requests'[w] = r
         /\ \A v \in Workers : v # w => requests'[v] = requests[v]
  BY DEF Goto

LEMMA GotoPcType ==
  ASSUME requests \in [Workers -> Requests], NEW w \in Workers, requests[w].pc # "idle",
         NEW pc \in {"getSubscription", "work", "increment", "anonymous"},
         GotoPc(w, pc)
  PROVE  /\ requests' \in [Workers -> Requests]
         /\ requests'[w] = [pc |-> pc, user |-> requests[w].user]
         /\ \A v \in Workers : v # w => requests'[v] = requests[v]
<1>1. requests[w].user \in Users
  BY RequestShape
<1>2. [pc |-> pc, user |-> requests[w].user] \in Requests
  BY <1>1 DEF Requests
<1> QED
  BY <1>2, GotoType DEF GotoPc

LEMMA CountedType ==
  ASSUME requests \in [Workers -> Requests], month \in Months, NEW w \in Workers,
         requests[w].pc # "idle", NEW pc \in {"save", "respond"}, Counted(w, pc)
  PROVE  /\ requests' \in [Workers -> Requests]
         /\ requests'[w] = [pc |-> pc, user |-> requests[w].user, counted |-> month]
         /\ \A v \in Workers : v # w => requests'[v] = requests[v]
<1>1. requests[w].user \in Users
  BY RequestShape
<1>2. [pc |-> pc, user |-> requests[w].user, counted |-> month] \in Requests
  BY <1>1 DEF Requests
<1> QED
  BY <1>2, GotoType DEF Counted

LEMMA SavedType ==
  ASSUME requests \in [Workers -> Requests], NEW w \in Workers, CreateReport(w)
  PROVE  /\ requests[w].user \in Users /\ requests[w].counted \in Months
         /\ requests' \in [Workers -> Requests]
         /\ requests'[w] = [pc |-> "respond", user |-> requests[w].user, counted |-> requests[w].counted]
         /\ \A v \in Workers : v # w => requests'[v] = requests[v]
<1>1. requests[w].user \in Users /\ requests[w].counted \in Months
  BY RequestShape DEF CreateReport, At
<1>2. [pc |-> "respond", user |-> requests[w].user, counted |-> requests[w].counted] \in Requests
  BY <1>1 DEF Requests
<1>3. Goto(w, [pc |-> "respond", user |-> requests[w].user, counted |-> requests[w].counted])
  BY DEF CreateReport
<1> QED
  BY <1>1, <1>2, <1>3, GotoType

LEMMA ReturnType ==
  ASSUME requests \in [Workers -> Requests], NEW w \in Workers, Return(w)
  PROVE  /\ requests' \in [Workers -> Requests]
         /\ requests'[w] = Idle
         /\ \A v \in Workers : v # w => requests'[v] = requests[v]
  BY GotoType DEF Return, Requests

LEMMA FaultType ==
  ASSUME faults \in 0..MaxFaults
  PROVE  \A pc : Fails(pc) => faults' \in 0..MaxFaults
  BY QuotaAssumption DEF Fails

LEMMA AddType ==
  ASSUME NEW S, NEW f \in [S -> Nat], NEW x \in S
  PROVE  /\ Add(f, x) \in [S -> Nat]
         /\ Add(f, x)[x] = f[x] + 1
         /\ \A y \in S : y # x => Add(f, x)[y] = f[y]
  BY DEF Add

LEMMA AddCell ==
  ASSUME NEW f \in [Users \X Months -> Nat], NEW u \in Users, NEW m \in Months
  PROVE  \A x \in Users, k \in Months :
           Add(f, <<u, m>>)[<<x, k>>] = IF x = u /\ k = m THEN f[<<x, k>>] + 1 ELSE f[<<x, k>>]
  BY DEF Add

-----------------------------------------------------------------------------
(* Type correctness.                                                       *)

LEMMA TypeInit == Init => TypeOK
  BY QuotaAssumption DEF Init, TypeOK, Plans, Months, Requests

LEMMA TypeNext == TypeOK /\ [Next]_vars => TypeOK'
<1> SUFFICES ASSUME TypeOK, [Next]_vars
             PROVE  TypeOK'
  OBVIOUS
<1>0. requests \in [Workers -> Requests] /\ faults \in 0..MaxFaults
  BY DEF TypeOK
<1> USE DEF At
<1>1. ASSUME NEW w \in Workers, NEW u \in Users, NEW pc \in {"authenticate", "getSubscription"},
             Lint(w, u, pc)
      PROVE  TypeOK'
  <2>1. [pc |-> pc, user |-> u] \in Requests
    BY DEF Requests
  <2>2. requests' \in [Workers -> Requests]
    BY <1>0, <1>1, <2>1, GotoType DEF Lint
  <2>3. calls' \in 0..MaxCalls
    BY <1>1, QuotaAssumption DEF Lint, TypeOK
  <2> QED
    BY <1>1, <2>2, <2>3 DEF Lint, TypeOK, tables, history
<1>2. ASSUME NEW w \in Workers, Authenticate(w)
      PROVE  TypeOK'
  <2>1. requests' \in [Workers -> Requests]
    BY <1>0, <1>2, GotoPcType DEF Authenticate
  <2>2. faults' \in 0..MaxFaults
    BY <1>0, <1>2, FaultType DEF Authenticate
  <2> QED
    BY <1>2, <2>1, <2>2 DEF Authenticate, TypeOK, tables, history
<1>3. ASSUME NEW w \in Workers, ServeAnonymous(w)
      PROVE  TypeOK'
  <2>1. requests' \in [Workers -> Requests]
    BY <1>0, <1>3, ReturnType DEF ServeAnonymous
  <2> QED
    BY <1>3, <2>1 DEF ServeAnonymous, TypeOK, tables, history
<1>4. ASSUME NEW w \in Workers, GetSubscription(w)
      PROVE  TypeOK'
  <2> DEFINE u == requests[w].user
             limit == planMonthlyLimit(plan[u])
  <2>1. u \in Users /\ limit \in Nat
    BY <1>0, <1>4, RequestShape, LimitType DEF GetSubscription, TypeOK
  <2>2. limit > 0 => [pc |-> "getUsage", user |-> u, limit |-> limit] \in Requests
    BY <2>1 DEF Requests
  <2>3. requests' \in [Workers -> Requests]
    BY <1>0, <1>4, <2>2, GotoType, GotoPcType, ReturnType DEF GetSubscription
  <2>4. unchecked' \in [Users \X Months -> BOOLEAN]
    BY <1>4 DEF GetSubscription, TypeOK
  <2>5. faults' \in 0..MaxFaults
    BY <1>0, <1>4, FaultType DEF GetSubscription
  <2> QED
    BY <1>4, <2>3, <2>4, <2>5 DEF GetSubscription, TypeOK, tables
<1>5. ASSUME NEW w \in Workers, GetMonthlyUsage(w)
      PROVE  TypeOK'
  <2>1. requests[w].limit \in Nat
    BY <1>0, <1>5, RequestShape DEF GetMonthlyUsage
  <2>2. requests' \in [Workers -> Requests]
    BY <1>0, <1>5, GotoPcType, ReturnType DEF GetMonthlyUsage
  <2>3. ceiling' \in [Users \X Months -> Nat]
    BY <1>5, <2>1 DEF GetMonthlyUsage, TypeOK
  <2>4. faults' \in 0..MaxFaults
    BY <1>0, <1>5, FaultType DEF GetMonthlyUsage
  <2> QED
    BY <1>5, <2>2, <2>3, <2>4 DEF GetMonthlyUsage, TypeOK, tables
<1>6. ASSUME NEW w \in Workers, Work(w)
      PROVE  TypeOK'
  <2>1. requests' \in [Workers -> Requests]
    BY <1>0, <1>6, GotoPcType, ReturnType DEF Work
  <2> QED
    BY <1>6, <2>1 DEF Work, TypeOK, tables, history
<1>7. ASSUME NEW w \in Workers, IncrementMonthlyUsage(w)
      PROVE  TypeOK'
  <2>0. month \in Months
    BY DEF TypeOK
  <2>1. requests' \in [Workers -> Requests]
    BY <1>0, <1>7, <2>0, CountedType DEF IncrementMonthlyUsage
  <2>2. <<requests[w].user, month>> \in Users \X Months
    BY <1>0, <1>7, <2>0, RequestShape DEF IncrementMonthlyUsage
  <2>4. Add(usage, <<requests[w].user, month>>) \in [Users \X Months -> Nat]
    BY <2>2, AddType DEF TypeOK
  <2>5. Add(unmetered, <<requests[w].user, month>>) \in [Users \X Months -> Nat]
    BY <2>2, AddType DEF TypeOK
  <2>6. usage' \in [Users \X Months -> Nat] /\ unmetered' \in [Users \X Months -> Nat]
    BY <1>7, <2>4, <2>5 DEF IncrementMonthlyUsage, TypeOK
  <2>3. faults' \in 0..MaxFaults
    BY <1>0, <1>7, FaultType DEF IncrementMonthlyUsage
  <2> QED
    BY <1>7, <2>1, <2>3, <2>6 DEF IncrementMonthlyUsage, TypeOK
<1>8. ASSUME NEW w \in Workers, CreateReport(w)
      PROVE  TypeOK'
  <2>1. requests' \in [Workers -> Requests]
    BY <1>0, <1>8, SavedType
  <2>4. <<requests[w].user, requests[w].counted>> \in Users \X Months
    BY <1>0, <1>8, SavedType
  <2>5. Add(reports, <<requests[w].user, requests[w].counted>>) \in [Users \X Months -> Nat]
    BY <2>4, AddType DEF TypeOK
  <2>2. reports' \in [Users \X Months -> Nat]
    BY <1>8, <2>5 DEF CreateReport, TypeOK
  <2>3. faults' \in 0..MaxFaults
    BY <1>0, <1>8, FaultType DEF CreateReport
  <2> QED
    BY <1>8, <2>1, <2>2, <2>3 DEF CreateReport, TypeOK, history
<1>9. ASSUME NEW w \in Workers, Respond(w)
      PROVE  TypeOK'
  <2>1. requests' \in [Workers -> Requests]
    BY <1>0, <1>9, ReturnType DEF Respond
  <2>4. <<requests[w].user, requests[w].counted>> \in Users \X Months
    BY <1>0, <1>9, RequestShape DEF Respond
  <2>5. Add(served, <<requests[w].user, requests[w].counted>>) \in [Users \X Months -> Nat]
    BY <2>4, AddType DEF TypeOK
  <2>2. served' \in [Users \X Months -> Nat]
    BY <1>9, <2>5 DEF Respond, TypeOK
  <2> QED
    BY <1>9, <2>1, <2>2 DEF Respond, TypeOK, tables
<1>10. ASSUME NEW u \in Users, NEW p \in Plans, ChangePlan(u, p)
       PROVE  TypeOK'
  BY <1>10 DEF ChangePlan, TypeOK, history
<1>11. ASSUME NEW u \in Users, DeleteAPIKey(u)
       PROVE  TypeOK'
  BY <1>11 DEF DeleteAPIKey, TypeOK, history
<1>12. CASE NextMonth
  BY <1>12, QuotaAssumption DEF NextMonth, TypeOK, Months, tables, history
<1>13. CASE Crash
  <2>1. requests' \in [Workers -> Requests]
    BY <1>13 DEF Crash, Requests
  <2>2. faults' \in 0..MaxFaults
    BY <1>0, <1>13, FaultType DEF Crash
  <2> QED
    BY <1>13, <2>1, <2>2 DEF Crash, TypeOK, tables, history
<1>14. CASE UNCHANGED vars
  BY <1>14 DEF vars, TypeOK, tables, history
<1> QED
  BY <1>1, <1>2, <1>3, <1>4, <1>5, <1>6, <1>7, <1>8, <1>9, <1>10, <1>11, <1>12, <1>13, <1>14
  DEF Next, Step

\* Every reachable state is well typed.
THEOREM TypeCorrect == Spec => []TypeOK
  BY TypeInit, TypeNext, PTL DEF Spec

-----------------------------------------------------------------------------
(* The overshoot.  A call that passed the gate still has its increment to  *)
(* do, so the bound on usage is inductive only with those calls added to   *)
(* it; a month that has not come has no usage.                             *)

Bound(u, m) == AtLeastOne(ceiling[<<u, m>>]) + Cardinality(Workers)

QuotaInv ==
  \A u \in Users, m \in Months :
    /\ m = month /\ ~unchecked[<<u, m>>] =>
         usage[<<u, m>>] + Cardinality(Gated(u)) + 1 <= Bound(u, m)
    /\ m < month /\ ~unchecked[<<u, m>>] => usage[<<u, m>>] + 1 <= Bound(u, m)
    /\ m > month => usage[<<u, m>>] = 0

LEMMA WorkersNat == Cardinality(Workers) \in Nat
  BY QuotaAssumption, FS_CardinalityType

LEMMA GatedSize ==
  \A u : Cardinality(Gated(u)) \in Nat /\ Cardinality(Gated(u)) <= Cardinality(Workers)
<1> TAKE u
<1>1. Gated(u) \in SUBSET Workers
  BY DEF Gated
<1>2. IsFiniteSet(Gated(u)) /\ Cardinality(Gated(u)) <= Cardinality(Workers)
  BY <1>1, QuotaAssumption, FS_Subset
<1> QED
  BY <1>2, FS_CardinalityType

LEMMA GatedSizeNext ==
  \A u : Cardinality(Gated(u)') \in Nat /\ Cardinality(Gated(u)') <= Cardinality(Workers)
<1> TAKE u
<1>1. Gated(u)' \in SUBSET Workers
  BY DEF Gated
<1>2. IsFiniteSet(Gated(u)') /\ Cardinality(Gated(u)') <= Cardinality(Workers)
  BY <1>1, QuotaAssumption, FS_Subset
<1> QED
  BY <1>2, FS_CardinalityType

LEMMA AtLeastOneNat == \A n \in Nat : AtLeastOne(n) \in Nat /\ AtLeastOne(n) >= 1 /\ AtLeastOne(n) >= n
  BY DEF AtLeastOne

\* A worker that leaves the gated calls, or stays out of them, adds none.
LEMMA GatedShrinks ==
  ASSUME requests \in [Workers -> Requests], NEW u, NEW w \in Workers,
         \A v \in Workers : v # w => requests'[v] = requests[v],
         requests'[w].pc \notin {"work", "increment"}
  PROVE  /\ Gated(u)' = Gated(u) \ {w}
         /\ Cardinality(Gated(u)') = IF w \in Gated(u) THEN Cardinality(Gated(u)) - 1
                                     ELSE Cardinality(Gated(u))
<1>1. Gated(u)' = Gated(u) \ {w}
  BY DEF Gated
<1>2. IsFiniteSet(Gated(u))
  <2>1. Gated(u) \in SUBSET Workers
    BY DEF Gated
  <2> QED
    BY <2>1, QuotaAssumption, FS_Subset
<1> QED
  BY <1>1, <1>2, FS_RemoveElement

\* A call that passes the gate joins its user's gated calls only.
LEMMA GatedGrows ==
  ASSUME requests \in [Workers -> Requests], NEW u, NEW w \in Workers,
         requests[w].pc \notin {"work", "increment"},
         \A v \in Workers : v # w => requests'[v] = requests[v],
         requests'[w] = [pc |-> "work", user |-> requests[w].user]
  PROVE  Cardinality(Gated(u)') = IF u = requests[w].user THEN Cardinality(Gated(u)) + 1
                                  ELSE Cardinality(Gated(u))
<1>0. requests'[w].pc = "work" /\ requests'[w].user = requests[w].user
  OBVIOUS
<1>1. IsFiniteSet(Gated(u))
  <2>1. Gated(u) \in SUBSET Workers
    BY DEF Gated
  <2> QED
    BY <2>1, QuotaAssumption, FS_Subset
<1>2. w \notin Gated(u)
  BY DEF Gated
<1>3. CASE u = requests[w].user
  <2>1. Gated(u)' = Gated(u) \cup {w}
    BY <1>0, <1>3 DEF Gated
  <2> QED
    BY <1>1, <1>2, <1>3, <2>1, FS_AddElement
<1>4. CASE u # requests[w].user
  <2>1. Gated(u)' = Gated(u)
    BY <1>0, <1>2, <1>4 DEF Gated
  <2> QED
    BY <1>4, <2>1
<1> QED
  BY <1>3, <1>4

\* No call passes the gate in this step.
LEMMA NoneGated ==
  ASSUME \A v \in Workers : requests'[v].pc \in {"work", "increment"} =>
           requests[v].pc \in {"work", "increment"} /\ requests'[v].user = requests[v].user
  PROVE  \A u : Cardinality(Gated(u)') \in Nat /\ Cardinality(Gated(u)') <= Cardinality(Gated(u))
<1> TAKE u
<1>1. Gated(u)' \in SUBSET Gated(u) /\ Gated(u) \in SUBSET Workers
  BY DEF Gated
<1>2. IsFiniteSet(Gated(u))
  BY <1>1, QuotaAssumption, FS_Subset
<1>3. IsFiniteSet(Gated(u)') /\ Cardinality(Gated(u)') <= Cardinality(Gated(u))
  BY <1>1, <1>2, FS_Subset
<1> QED
  BY <1>3, FS_CardinalityType

LEMMA QuotaInit == Init => QuotaInv
<1> SUFFICES ASSUME Init, NEW u \in Users, NEW m \in Months
             PROVE  /\ usage[<<u, m>>] = 0
                    /\ usage[<<u, m>>] + Cardinality(Gated(u)) + 1 <= Bound(u, m)
                    /\ usage[<<u, m>>] + 1 <= Bound(u, m)
  BY DEF QuotaInv
<1>1. usage[<<u, m>>] = 0 /\ ceiling[<<u, m>>] = 0
  BY DEF Init
<1> QED
  BY <1>1, GatedSize, WorkersNat DEF Bound, AtLeastOne

\* A step that leaves usage, month and the gate's history alone, and adds no
\* gated call.
LEMMA QuotaFrame ==
  ASSUME TypeOK, QuotaInv, usage' = usage, month' = month, ceiling' = ceiling,
         \A u \in Users, m \in Months : unchecked[<<u, m>>] => unchecked'[<<u, m>>],
         \A u \in Users : Cardinality(Gated(u)') \in Nat /\ Cardinality(Gated(u)') <= Cardinality(Gated(u))
  PROVE  QuotaInv'
<1> SUFFICES ASSUME NEW u \in Users, NEW m \in Months
             PROVE  /\ m = month /\ ~unchecked'[<<u, m>>] =>
                          usage[<<u, m>>] + Cardinality(Gated(u)') + 1 <= Bound(u, m)
                    /\ m < month /\ ~unchecked'[<<u, m>>] => usage[<<u, m>>] + 1 <= Bound(u, m)
                    /\ m > month => usage[<<u, m>>] = 0
  BY DEF QuotaInv, Bound
<1>1. usage[<<u, m>>] \in Nat /\ ceiling[<<u, m>>] \in Nat
  BY DEF TypeOK
<1>2. Bound(u, m) \in Nat
  BY <1>1, WorkersNat, AtLeastOneNat DEF Bound
<1> QED
  BY <1>1, <1>2, GatedSize DEF QuotaInv

LEMMA QuotaNext == TypeOK /\ TypeOK' /\ QuotaInv /\ [Next]_vars => QuotaInv'
<1> SUFFICES ASSUME TypeOK, TypeOK', QuotaInv, [Next]_vars
             PROVE  QuotaInv'
  OBVIOUS
<1>0. requests \in [Workers -> Requests]
  BY DEF TypeOK
<1> DEFINE Gating(r) == r.pc \in {"work", "increment"}
           NewGated == \E v \in Workers : Gating(requests'[v]) /\
                         ~(Gating(requests[v]) /\ requests'[v].user = requests[v].user)
<1>f. ASSUME ~NewGated, usage' = usage, month' = month, ceiling' = ceiling,
             \A u \in Users, m \in Months : unchecked[<<u, m>>] => unchecked'[<<u, m>>]
      PROVE  QuotaInv'
  BY <1>f, NoneGated, QuotaFrame
<1>i. Idle.pc = "idle"
  BY DEF Idle
<1> USE DEF At
<1>1. ASSUME NEW w \in Workers, NEW u \in Users, NEW pc \in {"authenticate", "getSubscription"},
             Lint(w, u, pc)
      PROVE  QuotaInv'
  <2>1. [pc |-> pc, user |-> u] \in Requests
    BY DEF Requests
  <2>2. requests'[w].pc = pc /\ \A v \in Workers : v # w => requests'[v] = requests[v]
    BY <1>0, <1>1, <2>1, GotoType DEF Lint
  <2> QED
    BY <1>1, <1>f, <2>2 DEF Lint, tables, history
<1>2. ASSUME NEW w \in Workers, Authenticate(w)
      PROVE  QuotaInv'
  <2>1. /\ requests'[w].pc \in {"getSubscription", "anonymous"}
        /\ \A v \in Workers : v # w => requests'[v] = requests[v]
    <3>1. PICK pc \in {"getSubscription", "anonymous"} : GotoPc(w, pc)
      BY <1>2 DEF Authenticate
    <3>2. /\ requests'[w] = [pc |-> pc, user |-> requests[w].user]
          /\ \A v \in Workers : v # w => requests'[v] = requests[v]
      BY <1>0, <1>2, <3>1, GotoPcType DEF Authenticate
    <3> QED
      BY <3>2
  <2> QED
    BY <1>2, <1>f, <2>1 DEF Authenticate, tables, history
<1>3. ASSUME NEW w \in Workers, ServeAnonymous(w)
      PROVE  QuotaInv'
  <2>1. requests'[w].pc = "idle" /\ \A v \in Workers : v # w => requests'[v] = requests[v]
    BY <1>0, <1>3, <1>i, ReturnType DEF ServeAnonymous
  <2> QED
    BY <1>3, <1>f, <2>1 DEF ServeAnonymous, tables, history
<1>4. ASSUME NEW w \in Workers, GetSubscription(w)
      PROVE  QuotaInv'
  <2> DEFINE u == requests[w].user
             limit == planMonthlyLimit(plan[u])
  <2>1. u \in Users /\ limit \in Nat
    BY <1>0, <1>4, RequestShape, LimitType DEF GetSubscription, TypeOK
  <2>2. CASE limit > 0 /\ Goto(w, [pc |-> "getUsage", user |-> u, limit |-> limit]) /\ UNCHANGED unchecked
    <3>1. [pc |-> "getUsage", user |-> u, limit |-> limit] \in Requests
      BY <2>1, <2>2 DEF Requests
    <3>2. requests'[w].pc = "getUsage" /\ \A v \in Workers : v # w => requests'[v] = requests[v]
      BY <1>0, <2>2, <3>1, GotoType
    <3> QED
      BY <1>4, <1>f, <2>2, <3>2 DEF GetSubscription, tables
  <2>3. CASE Return(w) /\ UNCHANGED unchecked
    <3>1. requests'[w].pc = "idle" /\ \A v \in Workers : v # w => requests'[v] = requests[v]
      BY <1>0, <1>i, <2>3, ReturnType
    <3> QED
      BY <1>4, <1>f, <2>3, <3>1 DEF GetSubscription, tables
  <2>4. CASE GotoPc(w, "work") /\ unchecked' = [unchecked EXCEPT ![<<u, month>>] = TRUE]
    <3> SUFFICES ASSUME NEW x \in Users, NEW m \in Months
                 PROVE  /\ m = month /\ ~unchecked'[<<x, m>>] =>
                             usage[<<x, m>>] + Cardinality(Gated(x)') + 1 <= Bound(x, m)
                        /\ m < month /\ ~unchecked'[<<x, m>>] => usage[<<x, m>>] + 1 <= Bound(x, m)
                        /\ m > month => usage[<<x, m>>] = 0
      BY <1>4 DEF GetSubscription, tables, QuotaInv, Bound
    <3>1. ~unchecked'[<<x, m>>] => ~unchecked[<<x, m>>] /\ (m = month => x # u)
      BY <2>1, <2>4 DEF TypeOK
    <3>2. x # u => Cardinality(Gated(x)') = Cardinality(Gated(x))
      BY <1>0, <1>4, <2>4, GotoPcType, GatedGrows DEF GetSubscription
    <3> QED
      BY <3>1, <3>2 DEF QuotaInv
  <2> QED
    BY <1>4, <2>2, <2>3, <2>4 DEF GetSubscription
<1>5. ASSUME NEW w \in Workers, GetMonthlyUsage(w)
      PROVE  QuotaInv'
  <2> DEFINE u == requests[w].user
             limit == requests[w].limit
  <2>1. u \in Users /\ limit \in Nat \ {0}
    BY <1>0, <1>5, RequestShape DEF GetMonthlyUsage
  <2>2. CASE Return(w) /\ UNCHANGED ceiling
    <3>1. requests'[w].pc = "idle" /\ \A v \in Workers : v # w => requests'[v] = requests[v]
      BY <1>0, <1>i, <2>2, ReturnType
    <3> QED
      BY <1>5, <1>f, <2>2, <3>1 DEF GetMonthlyUsage, tables
  <2>3. CASE /\ usage[<<u, month>>] < limit
             /\ GotoPc(w, "work")
             /\ ceiling' = [ceiling EXCEPT ![<<u, month>>] = IF limit > @ THEN limit ELSE @]
    <3> DEFINE NewBound(x, m) == AtLeastOne(ceiling'[<<x, m>>]) + Cardinality(Workers)
    <3> SUFFICES ASSUME NEW x \in Users, NEW m \in Months
                 PROVE  /\ m = month /\ ~unchecked[<<x, m>>] =>
                             usage[<<x, m>>] + Cardinality(Gated(x)') + 1 <= NewBound(x, m)
                        /\ m < month /\ ~unchecked[<<x, m>>] => usage[<<x, m>>] + 1 <= NewBound(x, m)
                        /\ m > month => usage[<<x, m>>] = 0
      BY <1>5 DEF GetMonthlyUsage, tables, QuotaInv, Bound
    <3>1. Cardinality(Gated(x)') = IF x = u THEN Cardinality(Gated(x)) + 1 ELSE Cardinality(Gated(x))
      BY <1>0, <1>5, <2>3, GotoPcType, GatedGrows DEF GetMonthlyUsage
    <3>2. CASE x = u /\ m = month
      <4>1. ceiling'[<<x, m>>] \in Nat /\ ceiling'[<<x, m>>] >= limit
        BY <2>1, <2>3, <3>2 DEF TypeOK
      <4>2. NewBound(x, m) >= limit + Cardinality(Workers)
        BY <2>1, <4>1, AtLeastOneNat, WorkersNat
      <4>3. Cardinality(Gated(x)') \in Nat /\ Cardinality(Gated(x)') <= Cardinality(Workers)
        BY GatedSizeNext
      <4>4. usage[<<x, m>>] \in Nat /\ usage[<<x, m>>] + 1 <= limit
        BY <2>1, <2>3, <3>2 DEF TypeOK
      <4>5. NewBound(x, m) \in Nat
        BY <4>1, AtLeastOneNat, WorkersNat
      <4> HIDE DEF NewBound
      <4> QED
        BY <2>1, <3>2, <4>2, <4>3, <4>4, <4>5, WorkersNat DEF TypeOK, Months
    <3>3. CASE ~(x = u /\ m = month)
      <4>1. ceiling'[<<x, m>>] = ceiling[<<x, m>>]
        BY <2>1, <2>3, <3>3 DEF TypeOK
      <4>2. NewBound(x, m) = Bound(x, m)
        BY <4>1 DEF Bound
      <4>3. m = month => Cardinality(Gated(x)') = Cardinality(Gated(x))
        BY <3>1, <3>3
      <4> QED
        BY <4>2, <4>3 DEF QuotaInv
    <3> QED
      BY <3>2, <3>3
  <2> QED
    BY <1>5, <2>2, <2>3 DEF GetMonthlyUsage
<1>6. ASSUME NEW w \in Workers, Work(w)
      PROVE  QuotaInv'
  <2>1. CASE GotoPc(w, "increment")
    <3>1. /\ requests'[w] = [pc |-> "increment", user |-> requests[w].user]
          /\ \A v \in Workers : v # w => requests'[v] = requests[v]
      BY <1>0, <1>6, <2>1, GotoPcType DEF Work
    <3> QED
      BY <1>6, <1>f, <3>1 DEF Work, tables, history
  <2>2. CASE Return(w)
    <3>1. requests'[w].pc = "idle" /\ \A v \in Workers : v # w => requests'[v] = requests[v]
      BY <1>0, <1>i, <2>2, ReturnType
    <3> QED
      BY <1>6, <1>f, <3>1 DEF Work, tables, history
  <2> QED
    BY <1>6, <2>1, <2>2 DEF Work
<1>7. ASSUME NEW w \in Workers, IncrementMonthlyUsage(w)
      PROVE  QuotaInv'
  <2> DEFINE u == requests[w].user
  <2>1. u \in Users /\ month \in Months /\ <<u, month>> \in Users \X Months
    BY <1>0, <1>7, RequestShape DEF IncrementMonthlyUsage, TypeOK
  <2>2. PICK pc \in {"save", "respond"} : Counted(w, pc)
    BY <1>7 DEF IncrementMonthlyUsage
  <2>3. /\ requests'[w] = [pc |-> pc, user |-> u, counted |-> month]
        /\ \A v \in Workers : v # w => requests'[v] = requests[v]
    BY <1>0, <1>7, <2>1, <2>2, CountedType DEF IncrementMonthlyUsage
  <2>4. CASE UNCHANGED usage
    BY <1>7, <1>f, <2>3, <2>4 DEF IncrementMonthlyUsage
  <2>5. CASE usage' = Add(usage, <<u, month>>)
    <3> SUFFICES ASSUME NEW x \in Users, NEW m \in Months
                 PROVE  /\ m = month /\ ~unchecked[<<x, m>>] =>
                             usage'[<<x, m>>] + Cardinality(Gated(x)') + 1 <= Bound(x, m)
                        /\ m < month /\ ~unchecked[<<x, m>>] => usage'[<<x, m>>] + 1 <= Bound(x, m)
                        /\ m > month => usage'[<<x, m>>] = 0
      BY <1>7 DEF IncrementMonthlyUsage, QuotaInv, Bound
    <3>1. Cardinality(Gated(x)') = IF w \in Gated(x) THEN Cardinality(Gated(x)) - 1
                                   ELSE Cardinality(Gated(x))
      BY <1>0, <2>3, GatedShrinks
    <3>2. w \in Gated(x) <=> x = u
      BY <1>7 DEF IncrementMonthlyUsage, Gated
    <3>3. usage'[<<x, m>>] = IF x = u /\ m = month THEN usage[<<x, m>>] + 1 ELSE usage[<<x, m>>]
      <4>1. Add(usage, <<u, month>>)[<<x, m>>] = IF x = u /\ m = month THEN usage[<<x, m>>] + 1
                                                 ELSE usage[<<x, m>>]
        <5>1. usage \in [Users \X Months -> Nat]
          BY DEF TypeOK
        <5> HIDE DEF u
        <5> QED
          BY <2>1, <5>1, AddCell
      <4> QED
        BY <2>5, <4>1, Zenon
    <3>4. usage[<<x, m>>] \in Nat /\ Cardinality(Gated(x)) \in Nat /\ Bound(x, m) \in Nat
      BY GatedSize, WorkersNat, AtLeastOneNat DEF TypeOK, Bound
    <3>5. month \in Nat /\ m \in Nat
      BY <2>1 DEF Months
    <3>6. CASE m = month
      <4>1. ~unchecked[<<x, m>>] => usage[<<x, m>>] + Cardinality(Gated(x)) + 1 <= Bound(x, m)
        BY <3>6 DEF QuotaInv
      <4> QED
        BY <3>1, <3>2, <3>3, <3>4, <3>5, <3>6, <4>1
    <3>7. CASE m # month
      BY <3>3, <3>7 DEF QuotaInv
    <3> QED
      BY <3>6, <3>7
  <2> QED
    BY <1>7, <2>4, <2>5 DEF IncrementMonthlyUsage
<1>8. ASSUME NEW w \in Workers, CreateReport(w)
      PROVE  QuotaInv'
  <2>1. /\ requests'[w] = [pc |-> "respond", user |-> requests[w].user, counted |-> requests[w].counted]
        /\ \A v \in Workers : v # w => requests'[v] = requests[v]
    BY <1>0, <1>8, SavedType
  <2> QED
    BY <1>8, <1>f, <2>1 DEF CreateReport, history
<1>9. ASSUME NEW w \in Workers, Respond(w)
      PROVE  QuotaInv'
  <2>1. requests'[w].pc = "idle" /\ \A v \in Workers : v # w => requests'[v] = requests[v]
    BY <1>0, <1>9, <1>i, ReturnType DEF Respond
  <2> QED
    BY <1>9, <1>f, <2>1 DEF Respond, tables
<1>10. ASSUME NEW u \in Users, NEW p \in Plans, ChangePlan(u, p)
       PROVE  QuotaInv'
  BY <1>10, <1>f DEF ChangePlan, history
<1>11. ASSUME NEW u \in Users, DeleteAPIKey(u)
       PROVE  QuotaInv'
  BY <1>11, <1>f DEF DeleteAPIKey, history
<1>12. CASE NextMonth
  <2> SUFFICES ASSUME NEW x \in Users, NEW m \in Months
               PROVE  /\ m = month + 1 /\ ~unchecked[<<x, m>>] =>
                           usage[<<x, m>>] + Cardinality(Gated(x)) + 1 <= Bound(x, m)
                      /\ m < month + 1 /\ ~unchecked[<<x, m>>] => usage[<<x, m>>] + 1 <= Bound(x, m)
                      /\ m > month + 1 => usage[<<x, m>>] = 0
    BY <1>12 DEF NextMonth, tables, history, QuotaInv, Bound, Gated
  <2>1. usage[<<x, m>>] \in Nat /\ Bound(x, m) \in Nat /\ Bound(x, m) >= 1 + Cardinality(Workers)
    BY WorkersNat, AtLeastOneNat DEF TypeOK, Bound
  <2>2. Cardinality(Gated(x)) \in Nat /\ Cardinality(Gated(x)) <= Cardinality(Workers)
    BY GatedSize
  <2>3. month \in Nat /\ m \in Nat
    BY DEF TypeOK, Months
  <2>4. CASE m > month
    BY <2>1, <2>2, <2>3, <2>4, WorkersNat DEF QuotaInv
  <2>5. CASE m = month
    <3>1. ~unchecked[<<x, m>>] => usage[<<x, m>>] + Cardinality(Gated(x)) + 1 <= Bound(x, m)
      BY <2>5 DEF QuotaInv
    <3> QED
      BY <2>1, <2>2, <2>3, <2>5, <3>1
  <2>6. CASE m < month
    BY <2>3, <2>6 DEF QuotaInv
  <2> QED
    BY <2>3, <2>4, <2>5, <2>6
<1>13. CASE Crash
  <2>1. \A v \in Workers : requests'[v].pc = "idle"
    BY <1>13, <1>i DEF Crash
  <2> QED
    BY <1>13, <1>f, <2>1 DEF Crash, tables, history
<1>14. CASE UNCHANGED vars
  BY <1>14, <1>f DEF vars, tables, history
<1> QED
  BY <1>1, <1>2, <1>3, <1>4, <1>5, <1>6, <1>7, <1>8, <1>9, <1>10, <1>11, <1>12, <1>13, <1>14
  DEF Next, Step

LEMMA QuotaInvBounds == TypeOK /\ QuotaInv => OvershootBounded
<1> SUFFICES ASSUME TypeOK, QuotaInv, NEW u \in Users, NEW m \in Months, ~unchecked[<<u, m>>]
             PROVE  usage[<<u, m>>] + 1 <= Bound(u, m)
  BY DEF OvershootBounded, Bound
<1>1. usage[<<u, m>>] \in Nat /\ Bound(u, m) \in Nat /\ Bound(u, m) >= 1 + Cardinality(Workers)
  BY WorkersNat, AtLeastOneNat DEF TypeOK, Bound
<1>2. Cardinality(Gated(u)) \in Nat
  BY GatedSize
<1>3. month \in Nat /\ m \in Nat
  BY DEF TypeOK, Months
<1>4. m = month => usage[<<u, m>>] + Cardinality(Gated(u)) + 1 <= Bound(u, m)
  BY DEF QuotaInv
<1>5. m < month => usage[<<u, m>>] + 1 <= Bound(u, m)
  BY DEF QuotaInv
<1>6. m > month => usage[<<u, m>>] = 0
  BY DEF QuotaInv
<1> QED
  BY <1>1, <1>2, <1>3, <1>4, <1>5, <1>6, WorkersNat

\* In no month in which every call was checked does usage pass the highest
\* limit checked against by as many calls as the server has workers, however
\* gate, increment, plan change, crash and turn of the month interleave.
THEOREM OvershootSafe == Spec => []OvershootBounded
<1>1. TypeOK /\ QuotaInv /\ [Next]_vars => TypeOK' /\ QuotaInv'
  BY TypeNext, QuotaNext
<1>2. Init => TypeOK /\ QuotaInv
  BY TypeInit, QuotaInit
<1> QED
  BY <1>1, <1>2, QuotaInvBounds, PTL DEF Spec

-----------------------------------------------------------------------------
(* What is answered was counted.  Each call past its increment holds one   *)
(* unit of the count, which its answer and its saved report use up.        *)

\* The calls of u counted in month m that are not answered, or not saved, yet.
Unanswered(u, m) ==
  {w \in Workers : /\ requests[w].pc \in {"save", "respond"}
                   /\ requests[w].user = u /\ requests[w].counted = m}
Unsaved(u, m) ==
  {w \in Workers : /\ requests[w].pc = "save"
                   /\ requests[w].user = u /\ requests[w].counted = m}

CountInv ==
  \A u \in Users, m \in Months :
    /\ served[<<u, m>>] + Cardinality(Unanswered(u, m)) <= usage[<<u, m>>] + unmetered[<<u, m>>]
    /\ reports[<<u, m>>] + Cardinality(Unsaved(u, m)) <= usage[<<u, m>>] + unmetered[<<u, m>>]

LEMMA SizeType ==
  ASSUME NEW S \in SUBSET Workers
  PROVE  IsFiniteSet(S) /\ Cardinality(S) \in Nat
  BY QuotaAssumption, FS_Subset, FS_CardinalityType

LEMMA SizeShrinks ==
  ASSUME NEW S \in SUBSET Workers, NEW T \in SUBSET S
  PROVE  Cardinality(T) \in Nat /\ Cardinality(T) <= Cardinality(S)
  BY SizeType, FS_Subset

LEMMA SizeGrows ==
  ASSUME NEW S \in SUBSET Workers, NEW w \in Workers, NEW T \in SUBSET (S \cup {w})
  PROVE  Cardinality(T) \in Nat /\ Cardinality(T) <= Cardinality(S) + 1
<1>1. S \cup {w} \in SUBSET Workers
  OBVIOUS
<1>2. Cardinality(T) \in Nat /\ Cardinality(T) <= Cardinality(S \cup {w})
  BY <1>1, SizeShrinks
<1>3. Cardinality(S \cup {w}) = IF w \in S THEN Cardinality(S) ELSE Cardinality(S) + 1
  BY SizeType, FS_AddElement
<1> QED
  BY <1>2, <1>3, SizeType

LEMMA SizeDrops ==
  ASSUME NEW S \in SUBSET Workers, NEW w \in S
  PROVE  /\ Cardinality(S \ {w}) \in Nat /\ Cardinality(S) \in Nat
         /\ Cardinality(S \ {w}) + 1 = Cardinality(S)
<1>1. Cardinality(S \ {w}) = Cardinality(S) - 1
  BY SizeType, FS_RemoveElement
<1>2. S \ {w} \in SUBSET Workers
  OBVIOUS
<1> QED
  BY <1>1, <1>2, SizeType

LEMMA CountInit == Init => CountInv
<1> SUFFICES ASSUME Init, NEW u \in Users, NEW m \in Months
             PROVE  /\ served[<<u, m>>] + Cardinality(Unanswered(u, m)) <= usage[<<u, m>>] + unmetered[<<u, m>>]
                    /\ reports[<<u, m>>] + Cardinality(Unsaved(u, m)) <= usage[<<u, m>>] + unmetered[<<u, m>>]
  BY DEF CountInv
<1>1. Unanswered(u, m) = {} /\ Unsaved(u, m) = {}
  BY DEF Init, Unanswered, Unsaved, Idle
<1>2. Cardinality(Unanswered(u, m)) = 0 /\ Cardinality(Unsaved(u, m)) = 0
  BY <1>1, FS_EmptySet
<1> QED
  BY <1>2 DEF Init

\* A step that leaves the counts alone and brings no call past its increment.
LEMMA CountFrame ==
  ASSUME TypeOK, CountInv, UNCHANGED <<usage, unmetered, served, reports>>,
         \A v \in Workers : requests'[v].pc \in {"save", "respond"} => requests'[v] = requests[v]
  PROVE  CountInv'
<1> SUFFICES ASSUME NEW u \in Users, NEW m \in Months
             PROVE  /\ served[<<u, m>>] + Cardinality(Unanswered(u, m)') <= usage[<<u, m>>] + unmetered[<<u, m>>]
                    /\ reports[<<u, m>>] + Cardinality(Unsaved(u, m)') <= usage[<<u, m>>] + unmetered[<<u, m>>]
  BY DEF CountInv
<1>1. /\ Unanswered(u, m) \in SUBSET Workers /\ Unanswered(u, m)' \in SUBSET Unanswered(u, m)
      /\ Unsaved(u, m) \in SUBSET Workers /\ Unsaved(u, m)' \in SUBSET Unsaved(u, m)
  BY DEF Unanswered, Unsaved
<1>2. /\ Cardinality(Unanswered(u, m)') <= Cardinality(Unanswered(u, m))
      /\ Cardinality(Unsaved(u, m)') <= Cardinality(Unsaved(u, m))
      /\ Cardinality(Unanswered(u, m)') \in Nat /\ Cardinality(Unsaved(u, m)') \in Nat
  BY <1>1, SizeShrinks
<1>3. /\ Cardinality(Unanswered(u, m)) \in Nat /\ Cardinality(Unsaved(u, m)) \in Nat
      /\ served[<<u, m>>] \in Nat /\ reports[<<u, m>>] \in Nat
      /\ usage[<<u, m>>] \in Nat /\ unmetered[<<u, m>>] \in Nat
  BY <1>1, SizeType DEF TypeOK
<1>4. /\ served[<<u, m>>] + Cardinality(Unanswered(u, m)) <= usage[<<u, m>>] + unmetered[<<u, m>>]
      /\ reports[<<u, m>>] + Cardinality(Unsaved(u, m)) <= usage[<<u, m>>] + unmetered[<<u, m>>]
  BY DEF CountInv
<1> QED
  BY <1>2, <1>3, <1>4

\* The increment adds a unit, counted or failed, and one call that holds it.
LEMMA CountIncrement ==
  ASSUME TypeOK, CountInv, NEW w \in Workers, IncrementMonthlyUsage(w)
  PROVE  CountInv'
<1> DEFINE x == requests[w].user
<1>0. requests \in [Workers -> Requests] /\ month \in Months
  BY DEF TypeOK
<1>1. x \in Users /\ <<x, month>> \in Users \X Months
  BY <1>0, RequestShape DEF IncrementMonthlyUsage, At
<1>2. PICK pc \in {"save", "respond"} : Counted(w, pc)
  BY DEF IncrementMonthlyUsage
<1>3. /\ requests'[w] = [pc |-> pc, user |-> x, counted |-> month]
      /\ \A v \in Workers : v # w => requests'[v] = requests[v]
  BY <1>0, <1>2, CountedType DEF IncrementMonthlyUsage, At
<1> SUFFICES ASSUME NEW u \in Users, NEW m \in Months
             PROVE  /\ served[<<u, m>>] + Cardinality(Unanswered(u, m)') <= usage'[<<u, m>>] + unmetered'[<<u, m>>]
                    /\ reports[<<u, m>>] + Cardinality(Unsaved(u, m)') <= usage'[<<u, m>>] + unmetered'[<<u, m>>]
  BY DEF CountInv, IncrementMonthlyUsage
<1>t. <<u, m>> \in Users \X Months
  OBVIOUS
<1>4. /\ Unanswered(u, m) \in SUBSET Workers /\ Unanswered(u, m)' \in SUBSET (Unanswered(u, m) \cup {w})
      /\ Unsaved(u, m) \in SUBSET Workers /\ Unsaved(u, m)' \in SUBSET (Unsaved(u, m) \cup {w})
  BY <1>3 DEF Unanswered, Unsaved
<1>5. /\ Cardinality(Unanswered(u, m)) \in Nat /\ Cardinality(Unsaved(u, m)) \in Nat
      /\ served[<<u, m>>] \in Nat /\ reports[<<u, m>>] \in Nat
      /\ usage[<<u, m>>] \in Nat /\ unmetered[<<u, m>>] \in Nat
  BY <1>4, SizeType DEF TypeOK
<1>6. /\ served[<<u, m>>] + Cardinality(Unanswered(u, m)) <= usage[<<u, m>>] + unmetered[<<u, m>>]
      /\ reports[<<u, m>>] + Cardinality(Unsaved(u, m)) <= usage[<<u, m>>] + unmetered[<<u, m>>]
  BY DEF CountInv
<1>7. CASE u = x /\ m = month
  <2>1. usage'[<<u, m>>] + unmetered'[<<u, m>>] = usage[<<u, m>>] + unmetered[<<u, m>>] + 1
    <3>0. usage \in [Users \X Months -> Nat] /\ unmetered \in [Users \X Months -> Nat]
      BY DEF TypeOK
    <3>1. /\ Add(usage, <<u, m>>)[<<u, m>>] = usage[<<u, m>>] + 1
          /\ Add(unmetered, <<u, m>>)[<<u, m>>] = unmetered[<<u, m>>] + 1
      BY <1>t, <3>0 DEF Add
    <3>2. \/ usage' = Add(usage, <<u, m>>) /\ unmetered' = unmetered
          \/ usage' = usage /\ unmetered' = Add(unmetered, <<u, m>>)
      BY <1>7 DEF IncrementMonthlyUsage
    <3> QED
      BY <1>5, <3>1, <3>2
  <2>2. /\ Cardinality(Unanswered(u, m)') \in Nat
        /\ Cardinality(Unanswered(u, m)') <= Cardinality(Unanswered(u, m)) + 1
        /\ Cardinality(Unsaved(u, m)') \in Nat
        /\ Cardinality(Unsaved(u, m)') <= Cardinality(Unsaved(u, m)) + 1
    BY <1>4, SizeGrows
  <2> QED
    BY <1>5, <1>6, <2>1, <2>2
<1>8. CASE ~(u = x /\ m = month)
  <2>1. usage'[<<u, m>>] = usage[<<u, m>>] /\ unmetered'[<<u, m>>] = unmetered[<<u, m>>]
    <3>0. usage \in [Users \X Months -> Nat] /\ unmetered \in [Users \X Months -> Nat]
      BY DEF TypeOK
    <3>1. /\ Add(usage, <<x, month>>)[<<u, m>>] = usage[<<u, m>>]
          /\ Add(unmetered, <<x, month>>)[<<u, m>>] = unmetered[<<u, m>>]
      <4> HIDE DEF x
      <4> QED
        BY <1>0, <1>1, <1>8, <1>t, <3>0 DEF Add
    <3>2. \/ usage' = Add(usage, <<x, month>>) /\ unmetered' = unmetered
          \/ usage' = usage /\ unmetered' = Add(unmetered, <<x, month>>)
      BY DEF IncrementMonthlyUsage
    <3> QED
      BY <3>1, <3>2
  <2>2. Unanswered(u, m)' \in SUBSET Unanswered(u, m) /\ Unsaved(u, m)' \in SUBSET Unsaved(u, m)
    BY <1>3, <1>8 DEF Unanswered, Unsaved
  <2>3. /\ Cardinality(Unanswered(u, m)') \in Nat
        /\ Cardinality(Unanswered(u, m)') <= Cardinality(Unanswered(u, m))
        /\ Cardinality(Unsaved(u, m)') \in Nat
        /\ Cardinality(Unsaved(u, m)') <= Cardinality(Unsaved(u, m))
    BY <1>4, <2>2, SizeShrinks
  <2> QED
    BY <1>5, <1>6, <2>1, <2>3
<1> QED
  BY <1>7, <1>8

\* Saving a report uses the unit of the call that is saved.
LEMMA CountSave ==
  ASSUME TypeOK, CountInv, NEW w \in Workers, CreateReport(w)
  PROVE  CountInv'
<1> DEFINE x == requests[w].user
           c == requests[w].counted
<1>0. requests \in [Workers -> Requests]
  BY DEF TypeOK
<1>1. x \in Users /\ c \in Months
  BY <1>0, SavedType
<1>2. /\ requests'[w] = [pc |-> "respond", user |-> x, counted |-> c]
      /\ \A v \in Workers : v # w => requests'[v] = requests[v]
  BY <1>0, SavedType
<1>3. requests[w].pc = "save"
  BY DEF CreateReport, At
<1> SUFFICES ASSUME NEW u \in Users, NEW m \in Months
             PROVE  /\ served[<<u, m>>] + Cardinality(Unanswered(u, m)') <= usage[<<u, m>>] + unmetered[<<u, m>>]
                    /\ reports'[<<u, m>>] + Cardinality(Unsaved(u, m)') <= usage[<<u, m>>] + unmetered[<<u, m>>]
  BY DEF CountInv, CreateReport, history
<1>t. <<u, m>> \in Users \X Months
  OBVIOUS
<1>4. Unanswered(u, m)' \in SUBSET Unanswered(u, m)
  BY <1>2, <1>3 DEF Unanswered
<1>5. Unsaved(u, m)' = Unsaved(u, m) \ {w}
  BY <1>2 DEF Unsaved
<1>6. Unanswered(u, m) \in SUBSET Workers /\ Unsaved(u, m) \in SUBSET Workers
  BY DEF Unanswered, Unsaved
<1>7. /\ Cardinality(Unanswered(u, m)) \in Nat /\ Cardinality(Unsaved(u, m)) \in Nat
      /\ served[<<u, m>>] \in Nat /\ reports[<<u, m>>] \in Nat
      /\ usage[<<u, m>>] \in Nat /\ unmetered[<<u, m>>] \in Nat
  BY <1>6, SizeType DEF TypeOK
<1>8. /\ served[<<u, m>>] + Cardinality(Unanswered(u, m)) <= usage[<<u, m>>] + unmetered[<<u, m>>]
      /\ reports[<<u, m>>] + Cardinality(Unsaved(u, m)) <= usage[<<u, m>>] + unmetered[<<u, m>>]
  BY DEF CountInv
<1>9. served[<<u, m>>] + Cardinality(Unanswered(u, m)') <= usage[<<u, m>>] + unmetered[<<u, m>>]
  <2>1. /\ Cardinality(Unanswered(u, m)') \in Nat
        /\ Cardinality(Unanswered(u, m)') <= Cardinality(Unanswered(u, m))
    BY <1>4, <1>6, SizeShrinks
  <2> QED
    BY <1>7, <1>8, <2>1
<1>10. reports'[<<u, m>>] + Cardinality(Unsaved(u, m)') <= usage[<<u, m>>] + unmetered[<<u, m>>]
  <2>1. reports' = Add(reports, <<x, c>>) \/ reports' = reports
    BY DEF CreateReport
  <2>2. Add(reports, <<x, c>>)[<<u, m>>] = IF u = x /\ m = c THEN reports[<<u, m>>] + 1 ELSE reports[<<u, m>>]
    <3>1. reports \in [Users \X Months -> Nat]
      BY DEF TypeOK
    <3> HIDE DEF x, c
    <3> QED
      BY <1>1, <3>1, <1>t DEF Add
  <2>3. CASE u = x /\ m = c
    <3>1. w \in Unsaved(u, m)
      BY <1>3, <2>3 DEF Unsaved
    <3>2. /\ Cardinality(Unsaved(u, m) \ {w}) \in Nat
          /\ Cardinality(Unsaved(u, m) \ {w}) + 1 = Cardinality(Unsaved(u, m))
      BY <1>6, <3>1, SizeDrops
    <3>3. reports'[<<u, m>>] \in {reports[<<u, m>>], reports[<<u, m>>] + 1}
      BY <2>1, <2>2, <2>3
    <3> QED
      BY <1>5, <1>7, <1>8, <3>2, <3>3
  <2>4. CASE ~(u = x /\ m = c)
    <3>1. reports'[<<u, m>>] = reports[<<u, m>>]
      BY <2>1, <2>2, <2>4
    <3>2. Unsaved(u, m)' \in SUBSET Unsaved(u, m)
      BY <1>5
    <3>3. /\ Cardinality(Unsaved(u, m)') \in Nat
          /\ Cardinality(Unsaved(u, m)') <= Cardinality(Unsaved(u, m))
      BY <1>6, <3>2, SizeShrinks
    <3> QED
      BY <1>7, <1>8, <3>1, <3>3
  <2> QED
    BY <2>3, <2>4
<1> QED
  BY <1>9, <1>10

\* An answer uses the unit of the call that is answered.
LEMMA CountRespond ==
  ASSUME TypeOK, CountInv, NEW w \in Workers, Respond(w)
  PROVE  CountInv'
<1> DEFINE x == requests[w].user
           c == requests[w].counted
<1>0. requests \in [Workers -> Requests]
  BY DEF TypeOK
<1>1. x \in Users /\ c \in Months /\ requests[w].pc = "respond"
  BY <1>0, RequestShape DEF Respond, At
<1>2. requests'[w].pc = "idle" /\ \A v \in Workers : v # w => requests'[v] = requests[v]
  BY <1>0, ReturnType DEF Respond, Idle
<1> SUFFICES ASSUME NEW u \in Users, NEW m \in Months
             PROVE  /\ served'[<<u, m>>] + Cardinality(Unanswered(u, m)') <= usage[<<u, m>>] + unmetered[<<u, m>>]
                    /\ reports[<<u, m>>] + Cardinality(Unsaved(u, m)') <= usage[<<u, m>>] + unmetered[<<u, m>>]
  BY DEF CountInv, Respond, tables
<1>t. <<u, m>> \in Users \X Months
  OBVIOUS
<1>4. Unanswered(u, m)' = Unanswered(u, m) \ {w} /\ Unsaved(u, m)' \in SUBSET Unsaved(u, m)
  BY <1>2 DEF Unanswered, Unsaved
<1>6. Unanswered(u, m) \in SUBSET Workers /\ Unsaved(u, m) \in SUBSET Workers
  BY DEF Unanswered, Unsaved
<1>7. /\ Cardinality(Unanswered(u, m)) \in Nat /\ Cardinality(Unsaved(u, m)) \in Nat
      /\ served[<<u, m>>] \in Nat /\ reports[<<u, m>>] \in Nat
      /\ usage[<<u, m>>] \in Nat /\ unmetered[<<u, m>>] \in Nat
  BY <1>6, SizeType DEF TypeOK
<1>8. /\ served[<<u, m>>] + Cardinality(Unanswered(u, m)) <= usage[<<u, m>>] + unmetered[<<u, m>>]
      /\ reports[<<u, m>>] + Cardinality(Unsaved(u, m)) <= usage[<<u, m>>] + unmetered[<<u, m>>]
  BY DEF CountInv
<1>9. reports[<<u, m>>] + Cardinality(Unsaved(u, m)') <= usage[<<u, m>>] + unmetered[<<u, m>>]
  <2>1. /\ Cardinality(Unsaved(u, m)') \in Nat
        /\ Cardinality(Unsaved(u, m)') <= Cardinality(Unsaved(u, m))
    BY <1>4, <1>6, SizeShrinks
  <2> QED
    BY <1>7, <1>8, <2>1
<1>10. served'[<<u, m>>] + Cardinality(Unanswered(u, m)') <= usage[<<u, m>>] + unmetered[<<u, m>>]
  <2>1. served' = Add(served, <<x, c>>)
    BY DEF Respond
  <2>2. Add(served, <<x, c>>)[<<u, m>>] = IF u = x /\ m = c THEN served[<<u, m>>] + 1 ELSE served[<<u, m>>]
    <3>1. served \in [Users \X Months -> Nat]
      BY DEF TypeOK
    <3> HIDE DEF x, c
    <3> QED
      BY <1>1, <3>1, <1>t DEF Add
  <2>3. CASE u = x /\ m = c
    <3>1. w \in Unanswered(u, m)
      BY <1>1, <2>3 DEF Unanswered
    <3>2. /\ Cardinality(Unanswered(u, m) \ {w}) \in Nat
          /\ Cardinality(Unanswered(u, m) \ {w}) + 1 = Cardinality(Unanswered(u, m))
      BY <1>6, <3>1, SizeDrops
    <3>3. served'[<<u, m>>] = served[<<u, m>>] + 1
      BY <2>1, <2>2, <2>3
    <3> QED
      BY <1>4, <1>7, <1>8, <3>2, <3>3
  <2>4. CASE ~(u = x /\ m = c)
    <3>1. served'[<<u, m>>] = served[<<u, m>>]
      BY <2>1, <2>2, <2>4
    <3>2. Unanswered(u, m)' \in SUBSET Unanswered(u, m)
      BY <1>4
    <3>3. /\ Cardinality(Unanswered(u, m)') \in Nat
          /\ Cardinality(Unanswered(u, m)') <= Cardinality(Unanswered(u, m))
      BY <1>6, <3>2, SizeShrinks
    <3> QED
      BY <1>7, <1>8, <3>1, <3>3
  <2> QED
    BY <2>3, <2>4
<1> QED
  BY <1>9, <1>10

LEMMA CountNext == TypeOK /\ CountInv /\ [Next]_vars => CountInv'
<1> SUFFICES ASSUME TypeOK, CountInv, [Next]_vars
             PROVE  CountInv'
  OBVIOUS
<1>0. requests \in [Workers -> Requests]
  BY DEF TypeOK
<1>i. Idle.pc = "idle"
  BY DEF Idle
\* A step that moves w to a place before the increment, or out of the handler.
<1>f. ASSUME UNCHANGED <<usage, unmetered, served, reports>>, NEW w \in Workers,
             requests'[w].pc \notin {"save", "respond"},
             \A v \in Workers : v # w => requests'[v] = requests[v]
      PROVE  CountInv'
  BY <1>f, CountFrame
<1> USE DEF At
<1>1. ASSUME NEW w \in Workers, NEW u \in Users, NEW pc \in {"authenticate", "getSubscription"},
             Lint(w, u, pc)
      PROVE  CountInv'
  <2>1. [pc |-> pc, user |-> u] \in Requests
    BY DEF Requests
  <2>2. requests'[w].pc = pc /\ \A v \in Workers : v # w => requests'[v] = requests[v]
    BY <1>0, <1>1, <2>1, GotoType DEF Lint
  <2> QED
    BY <1>1, <1>f, <2>2 DEF Lint, tables, history
<1>2. ASSUME NEW w \in Workers, Authenticate(w)
      PROVE  CountInv'
  <2>1. PICK pc \in {"getSubscription", "anonymous"} : GotoPc(w, pc)
    BY <1>2 DEF Authenticate
  <2>2. requests'[w].pc = pc /\ \A v \in Workers : v # w => requests'[v] = requests[v]
    <3>1. /\ requests'[w] = [pc |-> pc, user |-> requests[w].user]
          /\ \A v \in Workers : v # w => requests'[v] = requests[v]
      BY <1>0, <1>2, <2>1, GotoPcType DEF Authenticate
    <3> QED
      BY <3>1
  <2> QED
    BY <1>2, <1>f, <2>2 DEF Authenticate, tables, history
<1>3. ASSUME NEW w \in Workers, ServeAnonymous(w)
      PROVE  CountInv'
  <2>1. requests'[w].pc = "idle" /\ \A v \in Workers : v # w => requests'[v] = requests[v]
    BY <1>0, <1>3, <1>i, ReturnType DEF ServeAnonymous
  <2> QED
    BY <1>3, <1>f, <2>1 DEF ServeAnonymous, tables, history
<1>4. ASSUME NEW w \in Workers, GetSubscription(w)
      PROVE  CountInv'
  <2> DEFINE u == requests[w].user
             limit == planMonthlyLimit(plan[u])
  <2>1. u \in Users /\ limit \in Nat
    BY <1>0, <1>4, RequestShape, LimitType DEF GetSubscription, TypeOK
  <2>2. /\ requests'[w].pc \in {"getUsage", "work", "idle"}
        /\ \A v \in Workers : v # w => requests'[v] = requests[v]
    <3>1. CASE limit > 0 /\ Goto(w, [pc |-> "getUsage", user |-> u, limit |-> limit])
      <4>1. [pc |-> "getUsage", user |-> u, limit |-> limit] \in Requests
        BY <2>1, <3>1 DEF Requests
      <4> QED
        BY <1>0, <3>1, <4>1, GotoType
    <3>2. CASE GotoPc(w, "work")
      <4>1. /\ requests'[w] = [pc |-> "work", user |-> requests[w].user]
            /\ \A v \in Workers : v # w => requests'[v] = requests[v]
        BY <1>0, <1>4, <3>2, GotoPcType DEF GetSubscription
      <4> QED
        BY <4>1
    <3>3. CASE Return(w)
      BY <1>0, <1>i, <3>3, ReturnType
    <3> QED
      BY <1>4, <3>1, <3>2, <3>3 DEF GetSubscription
  <2> QED
    BY <1>4, <1>f, <2>2 DEF GetSubscription, tables
<1>5. ASSUME NEW w \in Workers, GetMonthlyUsage(w)
      PROVE  CountInv'
  <2>1. /\ requests'[w].pc \in {"work", "idle"}
        /\ \A v \in Workers : v # w => requests'[v] = requests[v]
    <3>1. CASE GotoPc(w, "work")
      <4>1. /\ requests'[w] = [pc |-> "work", user |-> requests[w].user]
            /\ \A v \in Workers : v # w => requests'[v] = requests[v]
        BY <1>0, <1>5, <3>1, GotoPcType DEF GetMonthlyUsage
      <4> QED
        BY <4>1
    <3>2. CASE Return(w)
      BY <1>0, <1>i, <3>2, ReturnType
    <3> QED
      BY <1>5, <3>1, <3>2 DEF GetMonthlyUsage
  <2> QED
    BY <1>5, <1>f, <2>1 DEF GetMonthlyUsage, tables
<1>6. ASSUME NEW w \in Workers, Work(w)
      PROVE  CountInv'
  <2>1. /\ requests'[w].pc \in {"increment", "idle"}
        /\ \A v \in Workers : v # w => requests'[v] = requests[v]
    <3>1. CASE GotoPc(w, "increment")
      <4>1. /\ requests'[w] = [pc |-> "increment", user |-> requests[w].user]
            /\ \A v \in Workers : v # w => requests'[v] = requests[v]
        BY <1>0, <1>6, <3>1, GotoPcType DEF Work
      <4> QED
        BY <4>1
    <3>2. CASE Return(w)
      BY <1>0, <1>i, <3>2, ReturnType
    <3> QED
      BY <1>6, <3>1, <3>2 DEF Work
  <2> QED
    BY <1>6, <1>f, <2>1 DEF Work, tables, history
<1>7. ASSUME NEW w \in Workers, IncrementMonthlyUsage(w)
      PROVE  CountInv'
  BY <1>7, CountIncrement
<1>8. ASSUME NEW w \in Workers, CreateReport(w)
      PROVE  CountInv'
  BY <1>8, CountSave
<1>9. ASSUME NEW w \in Workers, Respond(w)
      PROVE  CountInv'
  BY <1>9, CountRespond
<1>10. ASSUME NEW u \in Users, NEW p \in Plans, ChangePlan(u, p)
       PROVE  CountInv'
  BY <1>10, CountFrame DEF ChangePlan, history
<1>11. ASSUME NEW u \in Users, DeleteAPIKey(u)
       PROVE  CountInv'
  BY <1>11, CountFrame DEF DeleteAPIKey, history
<1>12. CASE NextMonth
  BY <1>12, CountFrame DEF NextMonth, tables, history
<1>13. CASE Crash
  <2>1. \A v \in Workers : requests'[v].pc = "idle"
    BY <1>13, <1>i DEF Crash
  <2> QED
    BY <1>13, <2>1, CountFrame DEF Crash, tables, history
<1>14. CASE UNCHANGED vars
  BY <1>14, CountFrame DEF vars, tables, history
<1> QED
  BY <1>1, <1>2, <1>3, <1>4, <1>5, <1>6, <1>7, <1>8, <1>9, <1>10, <1>11, <1>12, <1>13, <1>14
  DEF Next, Step

LEMMA CountInvCounts == TypeOK /\ CountInv => ServedIsCounted
<1> SUFFICES ASSUME TypeOK, CountInv, NEW u \in Users, NEW m \in Months
             PROVE  /\ served[<<u, m>>] <= usage[<<u, m>>] + unmetered[<<u, m>>]
                    /\ reports[<<u, m>>] <= usage[<<u, m>>] + unmetered[<<u, m>>]
  BY DEF ServedIsCounted
<1>1. Unanswered(u, m) \in SUBSET Workers /\ Unsaved(u, m) \in SUBSET Workers
  BY DEF Unanswered, Unsaved
<1>2. /\ Cardinality(Unanswered(u, m)) \in Nat /\ Cardinality(Unsaved(u, m)) \in Nat
      /\ served[<<u, m>>] \in Nat /\ reports[<<u, m>>] \in Nat
      /\ usage[<<u, m>>] \in Nat /\ unmetered[<<u, m>>] \in Nat
  BY <1>1, SizeType DEF TypeOK
<1>3. /\ served[<<u, m>>] + Cardinality(Unanswered(u, m)) <= usage[<<u, m>>] + unmetered[<<u, m>>]
      /\ reports[<<u, m>>] + Cardinality(Unsaved(u, m)) <= usage[<<u, m>>] + unmetered[<<u, m>>]
  BY DEF CountInv
<1> QED
  BY <1>2, <1>3

\* Every answered and every saved report was counted for itself, in its month,
\* unless its increment failed, for any number of users, workers and calls.
THEOREM CountSafe == Spec => []ServedIsCounted
<1>1. TypeOK /\ CountInv /\ [Next]_vars => TypeOK' /\ CountInv'
  BY TypeNext, CountNext
<1>2. Init => TypeOK /\ CountInv
  BY TypeInit, CountInit
<1> QED
  BY <1>1, <1>2, CountInvCounts, PTL DEF Spec
=============================================================================
