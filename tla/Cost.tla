--------------------------------- MODULE Cost ---------------------------------
(***************************************************************************)
(* The estimate of internal/cost for a directory of manifests.  Money is   *)
(* counted in a unit Cent of which make one cent, so that rates, products  *)
(* and rounding are exact integers; cpu and memory in the smallest         *)
(* quantities a manifest uses.                                             *)
(***************************************************************************)
EXTENDS Manifest

CONSTANTS
  Cent,     \* units of money in a cent
  Pricing   \* the pricing tables, by cloud

Clouds == DOMAIN Pricing

ASSUME CostAssumption ==
  /\ Cent \in Nat \ {0}
  /\ \A cloud \in Clouds :
       /\ {Pricing[cloud].vcpuHour, Pricing[cloud].gibHour, Pricing[cloud].hoursPerMonth}
            \subseteq Nat \ {0}
       /\ "default" \in DOMAIN Pricing[cloud].storage
       /\ Range(Pricing[cloud].storage) \subseteq Nat

Amount(list, resource) == IF resource \in DOMAIN list THEN list[resource] ELSE 0

\* A bug: the limit, set or not.
HighEndOfLimits(c, resource) == Amount(c.limits, resource)

\* The high end uses the limit where there is a positive one, else the request.
HighEnd(c, resource) ==
  IF Amount(c.limits, resource) > 0
  THEN Amount(c.limits, resource) ELSE Amount(c.requests, resource)

Total(r, Of(_)) ==
  LET cs == AllContainers(r) IN SumFunction([i \in DOMAIN cs |-> Of(cs[i])])

Requested(r, resource) == Total(r, LAMBDA c : Amount(c.requests, resource))
Limited(r, resource) == Total(r, LAMBDA c : HighEnd(c, resource))

MonthlyPrice(p, cpu, memory, replicas) ==
  (cpu * p.vcpuHour + memory * p.gibHour) * p.hoursPerMonth * replicas

\* A bug: int64() of a positive value without the half.
Truncated(v) == v \div Cent

\* round2, in cents: int64() cuts towards zero, after half a cent is added.
Round2(v) ==
  LET x == 2 * v + Cent
  IN IF x >= 0 THEN x \div (2 * Cent) ELSE -((-x) \div (2 * Cent))

\* One line of the estimate; exactLow and exactHigh are the figures before rounding.
Line(pos, low, high, note) ==
  [pos |-> pos, exactLow |-> low, exactHigh |-> high,
   low |-> Round2(low), high |-> Round2(high), note |-> note]

\* A workload's note: nothing requested and nothing limited.
EstimateWorkload(dir, pos, p) ==
  LET r == At(dir, pos)
      nothing == \A x \in {"cpu", "memory"} : Requested(r, x) = 0 /\ Limited(r, x) = 0
  IN Line(pos,
          MonthlyPrice(p, Requested(r, "cpu"), Requested(r, "memory"), Replicas(r)),
          MonthlyPrice(p, Limited(r, "cpu"), Limited(r, "memory"), Replicas(r)),
          nothing)

\* The rate of the class, or the cloud's default if it is unset or unknown.
StorageRate(p, class) == IF class \in DOMAIN p.storage THEN p.storage[class] ELSE p.storage["default"]

EstimateStorage(dir, pos, p) ==
  LET price == At(dir, pos).size * StorageRate(p, At(dir, pos).storageClassName)
  IN Line(pos, price, price, FALSE)

\* Workloads and claims have a line each; the totals add the rounded figures
\* and are rounded once more.
EstimateManifest(dir, cloud) ==
  LET p == Pricing[cloud]
      priced == {pos \in Parse(dir) : IsWorkload(At(dir, pos))
                                        \/ At(dir, pos).kind = "PersistentVolumeClaim"}
      line == [pos \in priced |->
                IF IsWorkload(At(dir, pos)) THEN EstimateWorkload(dir, pos, p)
                                            ELSE EstimateStorage(dir, pos, p)]
  IN [lines |-> {line[pos] : pos \in priced},
      low |-> Round2(Cent * SumFunction([pos \in priced |-> line[pos].low])),
      high |-> Round2(Cent * SumFunction([pos \in priced |-> line[pos].high]))]
=============================================================================
