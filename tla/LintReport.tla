------------------------------ MODULE LintReport ------------------------------
(***************************************************************************)
(* A directory of manifests under edit, checked by mflint [path]: the      *)
(* client joins the files, the server parses them, runs the rules and      *)
(* estimates the cost, and the client prints the report and exits with a   *)
(* status that gates a CI pipeline.                                        *)
(***************************************************************************)
EXTENDS Cost

CONSTANTS
  Paths,             \* numbers of the files, in the order of their paths
  Documents,         \* the documents files are made of
  MaxManifestBytes,  \* the server reads no more of a request
  MaxDocuments,      \* bound: documents in the directory
  Guesses            \* bound: amounts a reader may suppose where none is written

ASSUME LintReportAssumption ==
  /\ Paths \subseteq Nat /\ MaxManifestBytes \in Nat /\ MaxDocuments \in Nat
  /\ Guesses \subseteq Int
  /\ \A d \in Documents : d.bytes \in Nat /\ (Decodes(d) => Typed(d))

VARIABLES
  dir,  \* the files there are, each with its documents
  run   \* the last run of mflint since the directory was edited

vars == <<dir, run>>

NoRun == [exit |-> "none"]

Init ==
  /\ dir = [p \in {} |-> <<>>]
  /\ run = NoRun

-----------------------------------------------------------------------------
(* The author's edits. *)

Edit(d) == dir' = d /\ run' = NoRun

Create(p) ==
  /\ p \in Paths \ DOMAIN dir
  /\ Edit([q \in DOMAIN dir \cup {p} |-> IF q = p THEN <<>> ELSE dir[q]])

Add(p, d) ==
  /\ Cardinality(Positions(dir)) < MaxDocuments
  /\ Edit([dir EXCEPT ![p] = Append(@, d)])

Remove(p, i) ==
  Edit([dir EXCEPT ![p] = SubSeq(@, 1, i - 1) \o SubSeq(@, i + 1, Len(@))])

-----------------------------------------------------------------------------
(* mflint [path] *)

\* readManifest: the joined text is blank only if there is nothing to separate.
BlankManifest(files) ==
  \/ DOMAIN files = {}
  \/ /\ Cardinality(DOMAIN files) = 1
     /\ \A pos \in Positions(files) : At(files, pos).yaml = "blank"
     /\ Cardinality(Positions(files)) <= 1

Bytes(files) == SumFunction([pos \in Positions(files) |-> At(files, pos).bytes])

\* The requests handleLint answers with 400: a blank manifest, a JSON body that
\* was cut off, a document that cannot be decoded, or an unknown cloud.
Refused(files, cloud, noCost) ==
  \/ BlankManifest(files)
  \/ Bytes(files) > MaxManifestBytes
  \/ ParseFails(files)
  \/ ~noCost /\ cloud \notin Clouds

\* report.New: how many rows of the table have a severity.
Count(rows, rank) == Cardinality({n \in DOMAIN rows : rows[n][1] = rank})

\* The report, and the exit status by HasCritical.
Answer(files, cloud, noCost) ==
  LET rows == RunAll(files)
  IN [exit |-> IF Count(rows, 0) > 0 THEN "1" ELSE "0", rows |-> rows,
      critical |-> Count(rows, 0), warning |-> Count(rows, 1), info |-> Count(rows, 2),
      cost |-> IF noCost THEN Unset ELSE EstimateManifest(files, cloud)]

\* Whatever goes wrong ends in status 2: a refusal, or the server out of reach
\* or out of quota.
RunLint(cloud, noCost) ==
  /\ UNCHANGED dir
  /\ \/ run' = [exit |-> "2"]
     \/ /\ ~Refused(dir, cloud, noCost)
        /\ run' = Answer(dir, cloud, noCost)

Next ==
  \/ \E p \in Paths : Create(p)
  \/ \E p \in DOMAIN dir, d \in Documents : Add(p, d)
  \/ \E p \in DOMAIN dir : \E i \in DOMAIN dir[p] : Remove(p, i)
  \/ \E cloud \in Clouds \cup {"other"}, noCost \in BOOLEAN : RunLint(cloud, noCost)

Spec == Init /\ [][Next]_vars

-----------------------------------------------------------------------------
(* Properties *)

Answered == run.exit \in {"0", "1"}
Estimated == Answered /\ run.cost # Unset

\* A directory fails the pipeline exactly if one of its documents would on its
\* own: no document hides another's critical violation, neither by being decoded
\* before it nor by filling the request (readManifest, Parse, RunAll, HasCritical).
FailsLikeItsDocuments ==
  Answered =>
    ((run.exit = "1") <=>
       \E pos \in Positions(dir) :
         LET alone == [p \in {1} |-> <<At(dir, pos)>>]
         IN ~ParseFails(alone) /\ Answer(alone, "other", TRUE).exit = "1")

\* The rows of the table are grouped: first the critical ones, then the warnings,
\* then the rest, each group by rule and name (RunAll, WriteTable), and the counts
\* under the table are the sizes of the groups.
TableGrouped ==
  Answered =>
    /\ Len(run.rows) = run.critical + run.warning + run.info
    /\ \A n \in DOMAIN run.rows :
         /\ (run.rows[n][1] = 0) <=> (n <= run.critical)
         /\ (run.rows[n][1] = 2) <=> (n > run.critical + run.warning)
         /\ \A m \in 1 .. n - 1 :
              \/ run.rows[m][2] < run.rows[n][2]
              \/ run.rows[m][2] = run.rows[n][2] /\ run.rows[m][3] <= run.rows[n][3]

\* x answers for rule of r: a budget that selects its pods, or a policy of its
\* namespace.
Settles(x, rule, r) ==
  /\ x.ns = r.ns
  /\ \/ rule = 7 /\ x.kind = "PodDisruptionBudget" /\ x.selector \subseteq r.podLabels
     \/ rule = 10 /\ x.kind = "NetworkPolicy"

\* The findings of r that are gone in after are settled by a document that is new there.
Settled(r, before, after) ==
  \A v \in Check(r, before) \ Check(r, after) : \E x \in after \ before : Settles(x, v[1], r)

\* An edit changes what is found in the resources it leaves alone only through
\* budgets that select a workload and policies of its namespace, and never finds
\* more for having them (k8s_007_missing_pdb.go, k8s_010_no_network_policy.go).
KeepsFindings ==
  \A r \in Resources(dir) \cap Resources(dir)' :
    /\ Settled(r, Resources(dir), Resources(dir)')
    /\ Settled(r, Resources(dir)', Resources(dir))
OthersKeepFindings == [][KeepsFindings]_vars

\* A row of the table is K8S-005's, of container i of the document at pos.
Named(pos, i) ==
  \E n \in DOMAIN run.rows :
    LET row == run.rows[n] IN row[2] = 5 /\ <<row[4], row[5]>> = pos /\ row[6] = i

\* What c would write if it meant n where it leaves an amount out.
Filled(c, n) ==
  LET Fill(list) == [x \in {"cpu", "memory"} |-> IF x \in DOMAIN list THEN list[x] ELSE n]
  IN [requests |-> Fill(c.requests), limits |-> Fill(c.limits)]

\* The total over the containers of the document at pos, those without such a row filled.
Meant(pos, n, Of(_)) ==
  LET cs == AllContainers(At(dir, pos))
  IN SumFunction([i \in DOMAIN cs |-> Of(IF Named(pos, i) THEN cs[i] ELSE Filled(cs[i], n))])

\* No amount is below zero, which the API server refuses; zero it accepts.
NoneNegative(r) ==
  \A c \in Range(AllContainers(r)) : \A x \in {"cpu", "memory"} :
    Amount(c.requests, x) >= 0 /\ Amount(c.limits, x) >= 0

WritesZeros(c) ==
  \A list \in {c.requests, c.limits} : \A x \in {"cpu", "memory"} : x \in DOMAIN list /\ list[x] = 0

\* An amount left out is priced as nothing, or as the request, and the estimate says
\* so only if all are zero: so K8S-005 must name each container whose amounts left out
\* the price depends on, and under the note each container it was printed for.  The
\* estimator asks for values and the rule for presence: the note, with its "see rule
\* K8S-005", stands without a row where every container writes zeros or there is none,
\* but nowhere else in what the API server accepts (estimator.go:90-125,
\* k8s_005_missing_resources.go).
MissingAmountsFlagged ==
  Estimated =>
    \E cloud \in Clouds : \A l \in run.cost.lines :
      LET r == At(dir, l.pos)
      IN IsWorkload(r) =>
           /\ \A n \in Guesses :
                /\ l.exactLow = MonthlyPrice(Pricing[cloud],
                                  Meant(l.pos, n, LAMBDA c : Amount(c.requests, "cpu")),
                                  Meant(l.pos, n, LAMBDA c : Amount(c.requests, "memory")), Replicas(r))
                /\ l.exactHigh = MonthlyPrice(Pricing[cloud],
                                   Meant(l.pos, n, LAMBDA c : HighEnd(c, "cpu")),
                                   Meant(l.pos, n, LAMBDA c : HighEnd(c, "memory")), Replicas(r))
           /\ l.note /\ NoneNegative(r) =>
                \A i \in DOMAIN AllContainers(r) :
                  Named(l.pos, i) \/ WritesZeros(AllContainers(r)[i])

\* What the API server would accept of r: no request above its limit.
Admissible(r) ==
  /\ Replicas(r) >= 0
  /\ \A c \in Range(AllContainers(r)) : \A x \in DOMAIN c.limits :
       Amount(c.requests, x) <= c.limits[x]

\* The estimate is a range, line by line and in total, for what a cluster would
\* accept, whichever requests and limits are set (estimateWorkload).
RangeOrdered ==
  Estimated =>
    /\ \A l \in run.cost.lines : Admissible(At(dir, l.pos)) => l.low <= l.high
    /\ (\A l \in run.cost.lines : Admissible(At(dir, l.pos))) => run.cost.low <= run.cost.high

Exact(lines, Figure(_)) == SumFunction([l \in lines |-> Figure(l)])
Abs(n) == IF n < 0 THEN -n ELSE n

\* Rounding every line and the total again costs at most half a cent a line, in an
\* estimate of no negative figure: what a cluster would accept has none, and round2
\* cuts a negative one the other way (round2, EstimateManifest).
RoundingBounded ==
  Estimated /\ (\A l \in run.cost.lines : l.exactLow >= 0 /\ l.exactHigh >= 0) =>
    LET lines == run.cost.lines
    IN /\ 2 * Abs(Cent * run.cost.low - Exact(lines, LAMBDA l : l.exactLow)) <= Cent * Cardinality(lines)
       /\ 2 * Abs(Cent * run.cost.high - Exact(lines, LAMBDA l : l.exactHigh)) <= Cent * Cardinality(lines)
=============================================================================
