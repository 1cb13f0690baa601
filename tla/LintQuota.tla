------------------------------ MODULE LintQuota ------------------------------
(***************************************************************************)
(* The monthly quota of POST /v1/lint: handleLint reads the caller's plan  *)
(* and usage, does the work, and only then counts the call, while other    *)
(* calls of the same user, plan changes and the turn of the month happen   *)
(* in between.                                                             *)
(***************************************************************************)
EXTENDS Naturals, FiniteSets

CONSTANTS
  Users,              \* accounts
  Workers,            \* request goroutines of the server
  MonthlyCheckLimit,  \* limits.go: calls per month by plan, 0 is unlimited
  LastMonth,          \* bound: months 0..LastMonth
  MaxCalls,           \* bound: calls that send a bearer token
  UnreliableSteps,    \* the statements that may fail, by the pc they run at
  MaxFaults           \* bound: crashes and failed statements

Plans == {"free", "team", "pro"}
Months == 0..LastMonth

ASSUME QuotaAssumption ==
  /\ MonthlyCheckLimit \in [Plans -> Nat]
  /\ LastMonth \in Nat /\ MaxCalls \in Nat /\ MaxFaults \in Nat
  /\ IsFiniteSet(Workers)

VARIABLES
  plan,      \* table subscriptions: the plan of each user, "free" without a row
  keyValid,  \* table api_keys: does the user's key still exist
  usage,     \* table monthly_usage: count by user and month
  reports,   \* table reports: number of rows by user and month they were counted in
  month,     \* the calendar month
  requests,  \* the handler each worker runs, with its local variables
  served,    \* history: reports answered, by user and month they were counted in
  unmetered, \* history: increments that failed, by user and month
  ceiling,   \* history: highest limit a call was checked against that month
  unchecked, \* history: did a call pass without a limit that month
  calls, faults  \* bounds

tables == <<plan, keyValid, usage, reports>>
history == <<served, unmetered, ceiling, unchecked>>
vars == <<tables, month, requests, history, calls, faults>>

Idle == [pc |-> "idle"]
Requests ==
  {Idle} \cup
  [pc: {"authenticate", "anonymous", "getSubscription", "work", "increment"}, user: Users] \cup
  [pc: {"getUsage"}, user: Users, limit: Nat \ {0}] \cup
  [pc: {"save", "respond"}, user: Users, counted: Months]

TypeOK ==
  /\ plan \in [Users -> Plans]
  /\ keyValid \in [Users -> BOOLEAN]
  /\ usage \in [Users \X Months -> Nat]
  /\ reports \in [Users \X Months -> Nat]
  /\ month \in Months
  /\ requests \in [Workers -> Requests]
  /\ served \in [Users \X Months -> Nat]
  /\ unmetered \in [Users \X Months -> Nat]
  /\ ceiling \in [Users \X Months -> Nat]
  /\ unchecked \in [Users \X Months -> BOOLEAN]
  /\ calls \in 0..MaxCalls
  /\ faults \in 0..MaxFaults

Init ==
  /\ plan = [u \in Users |-> "free"]
  /\ keyValid = [u \in Users |-> TRUE]
  /\ usage = [c \in Users \X Months |-> 0]
  /\ reports = [c \in Users \X Months |-> 0]
  /\ month = 0
  /\ requests = [w \in Workers |-> Idle]
  /\ served = [c \in Users \X Months |-> 0]
  /\ unmetered = [c \in Users \X Months |-> 0]
  /\ ceiling = [c \in Users \X Months |-> 0]
  /\ unchecked = [c \in Users \X Months |-> FALSE]
  /\ calls = 0 /\ faults = 0

At(w, pc) == requests[w].pc = pc
Goto(w, r) == requests' = [requests EXCEPT ![w] = r]
GotoPc(w, pc) == Goto(w, [pc |-> pc, user |-> requests[w].user])
Counted(w, pc) == Goto(w, [pc |-> pc, user |-> requests[w].user, counted |-> month])
Return(w) == Goto(w, Idle)
Fails(pc) == pc \in UnreliableSteps /\ faults < MaxFaults /\ faults' = faults + 1
Add(f, x) == [f EXCEPT ![x] = @ + 1]

-----------------------------------------------------------------------------
\* planMonthlyLimit: a plan nobody knows is limited like "free".
planMonthlyLimit(p) ==
  IF p \in DOMAIN MonthlyCheckLimit THEN MonthlyCheckLimit[p] ELSE MonthlyCheckLimit["free"]

\* A call arrives with an API key, looked up in api_keys, or with a session
\* token, verified without a statement.  An empty or malformed body returns
\* 400 before anything happens.
Lint(w, u, pc) ==
  /\ At(w, "idle")
  /\ calls < MaxCalls
  /\ calls' = calls + 1
  /\ Goto(w, [pc |-> pc, user |-> u])
  /\ UNCHANGED <<tables, month, history, faults>>

\* bearerUserID: any error of the lookup makes the call anonymous.  The update
\* of last_used_at is best effort and read by nobody here.
Authenticate(w) ==
  LET u == requests[w].user
  IN /\ At(w, "authenticate")
     /\ UNCHANGED <<tables, month, history, calls>>
     /\ \/ keyValid[u] /\ GotoPc(w, "getSubscription") /\ UNCHANGED faults
        \/ ~keyValid[u] /\ GotoPc(w, "anonymous") /\ UNCHANGED faults
        \/ Fails("authenticate") /\ GotoPc(w, "anonymous")

\* An anonymous call meets no quota and counts nowhere.
ServeAnonymous(w) ==
  /\ At(w, "anonymous")
  /\ Return(w)
  /\ UNCHANGED <<tables, month, history, calls, faults>>

\* A bug: an unlimited plan (0) is taken through the gate as well.
GetSubscriptionLimitingAll(w) ==
  LET u == requests[w].user
  IN /\ At(w, "getSubscription")
     /\ Goto(w, [pc |-> "getUsage", user |-> u, limit |-> planMonthlyLimit(plan[u])])
     /\ UNCHANGED <<tables, month, history, calls, faults>>

\* The plan's limit is read here and used when the usage has been read.
GetSubscription(w) ==
  LET u == requests[w].user
      limit == planMonthlyLimit(plan[u])
  IN /\ At(w, "getSubscription")
     /\ UNCHANGED <<tables, month, served, unmetered, ceiling, calls>>
     /\ \/ /\ limit > 0
           /\ Goto(w, [pc |-> "getUsage", user |-> u, limit |-> limit])
           /\ UNCHANGED <<unchecked, faults>>
        \/ /\ limit = 0
           /\ GotoPc(w, "work")
           /\ unchecked' = [unchecked EXCEPT ![<<u, month>>] = TRUE]
           /\ UNCHANGED faults
        \/ Fails("getSubscription") /\ Return(w) /\ UNCHANGED unchecked

\* A bug: the gate off by one.
GetMonthlyUsageOffByOne(w) ==
  LET u == requests[w].user
      limit == requests[w].limit
  IN /\ At(w, "getUsage")
     /\ UNCHANGED <<tables, month, served, unmetered, unchecked, calls, faults>>
     /\ \/ /\ usage[<<u, month>>] <= limit
           /\ GotoPc(w, "work")
           /\ ceiling' = [ceiling EXCEPT ![<<u, month>>] = IF limit > @ THEN limit ELSE @]
        \/ usage[<<u, month>>] > limit /\ Return(w) /\ UNCHANGED ceiling

\* The gate: 429 when used >= limit.
GetMonthlyUsage(w) ==
  LET u == requests[w].user
      limit == requests[w].limit
  IN /\ At(w, "getUsage")
     /\ UNCHANGED <<tables, month, served, unmetered, unchecked, calls>>
     /\ \/ /\ usage[<<u, month>>] < limit
           /\ GotoPc(w, "work")
           /\ ceiling' = [ceiling EXCEPT ![<<u, month>>] = IF limit > @ THEN limit ELSE @]
           /\ UNCHANGED faults
        \/ usage[<<u, month>>] >= limit /\ Return(w) /\ UNCHANGED <<ceiling, faults>>
        \/ Fails("getUsage") /\ Return(w) /\ UNCHANGED ceiling

\* A bug: the report is saved and answered without counting the call.
WorkUncounted(w) ==
  /\ At(w, "work")
  /\ Counted(w, "save") \/ Return(w)
  /\ UNCHANGED <<tables, month, history, calls, faults>>

\* Parse, RunAll and EstimateManifest: a bad manifest or cloud answers 400 and
\* is not counted.
Work(w) ==
  /\ At(w, "work")
  /\ GotoPc(w, "increment") \/ Return(w)
  /\ UNCHANGED <<tables, month, history, calls, faults>>

\* One atomic upsert in the month of the moment it runs, its error discarded;
\* then the report is saved if the call asked for it.
IncrementMonthlyUsage(w) ==
  LET cell == <<requests[w].user, month>>
  IN /\ At(w, "increment")
     /\ Counted(w, "save") \/ Counted(w, "respond")
     /\ UNCHANGED <<plan, keyValid, reports, month, served, ceiling, unchecked, calls>>
     /\ \/ usage' = Add(usage, cell) /\ UNCHANGED <<unmetered, faults>>
        \/ Fails("increment") /\ unmetered' = Add(unmetered, cell) /\ UNCHANGED usage

\* CreateReport, its error discarded.
CreateReport(w) ==
  LET r == requests[w]
  IN /\ At(w, "save")
     /\ Goto(w, [pc |-> "respond", user |-> r.user, counted |-> r.counted])
     /\ UNCHANGED <<plan, keyValid, usage, month, history, calls>>
     /\ \/ reports' = Add(reports, <<r.user, r.counted>>) /\ UNCHANGED faults
        \/ Fails("save") /\ UNCHANGED reports

Respond(w) ==
  /\ At(w, "respond")
  /\ Return(w)
  /\ served' = Add(served, <<requests[w].user, requests[w].counted>>)
  /\ UNCHANGED <<tables, month, unmetered, ceiling, unchecked, calls, faults>>

-----------------------------------------------------------------------------
\* UpsertSubscription by a payment webhook (module Billing): it never writes "free".
ChangePlan(u, p) ==
  /\ p # "free" /\ p # plan[u]
  /\ plan' = [plan EXCEPT ![u] = p]
  /\ UNCHANGED <<keyValid, usage, reports, month, requests, history, calls, faults>>

\* DeleteAPIKey from the panel.
DeleteAPIKey(u) ==
  /\ keyValid[u]
  /\ keyValid' = [keyValid EXCEPT ![u] = FALSE]
  /\ UNCHANGED <<plan, usage, reports, month, requests, history, calls, faults>>

\* yearMonth(time.Now()) moves on.
NextMonth ==
  /\ month < LastMonth
  /\ month' = month + 1
  /\ UNCHANGED <<tables, requests, history, calls, faults>>

Crash ==
  /\ Fails("crash")
  /\ requests' = [w \in Workers |-> Idle]
  /\ UNCHANGED <<tables, month, history, calls>>

Step(w) ==
  \/ \E u \in Users, pc \in {"authenticate", "getSubscription"} : Lint(w, u, pc)
  \/ Authenticate(w)
  \/ ServeAnonymous(w)
  \/ GetSubscription(w)
  \/ GetMonthlyUsage(w)
  \/ Work(w)
  \/ IncrementMonthlyUsage(w)
  \/ CreateReport(w)
  \/ Respond(w)

Next ==
  \/ \E w \in Workers : Step(w)
  \/ \E u \in Users, p \in Plans : ChangePlan(u, p)
  \/ \E u \in Users : DeleteAPIKey(u)
  \/ NextMonth
  \/ Crash

Spec == Init /\ [][Next]_vars

-----------------------------------------------------------------------------
(* Properties.                                                             *)

\* The calls of a user that passed the gate and are not counted yet.
Gated(u) == {w \in Workers : requests[w].pc \in {"work", "increment"} /\ requests[w].user = u}

AtLeastOne(n) == IF n > 1 THEN n ELSE 1

\* However calls, plan changes and the turn of the month interleave, a month in
\* which every call was checked ends at most one call per other worker above
\* the highest limit it was checked against (handleLint, IncrementMonthlyUsage).
OvershootBounded ==
  \A u \in Users, m \in Months : ~unchecked[<<u, m>>] =>
    usage[<<u, m>>] + 1 <= AtLeastOne(ceiling[<<u, m>>]) + Cardinality(Workers)

\* Every report answered in a user's name, and every report saved to the account,
\* was counted first and for itself in the month it was due, unless that very
\* increment failed: no two share a count, whatever crash, retry or turn of the
\* month comes between (handleLint).
ServedIsCounted ==
  \A u \in Users, m \in Months :
    /\ served[<<u, m>>] <= usage[<<u, m>>] + unmetered[<<u, m>>]
    /\ reports[<<u, m>>] <= usage[<<u, m>>] + unmetered[<<u, m>>]

\* "So plan quotas can be enforced without a read-then-write race"
\* (0002_billing_usage.sql:17): usage stays within the plan's limit.
QuotaEnforced ==
  \A u \in Users :
    LET limit == planMonthlyLimit(plan[u])
    IN limit > 0 /\ ~unchecked[<<u, month>>] => usage[<<u, month>>] <= limit
=============================================================================
