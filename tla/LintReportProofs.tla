--------------------------- MODULE LintReportProofs ---------------------------
(***************************************************************************)
(* What a report of mflint says, for directories of any size, documents of *)
(* any kind and any rates: the exit status, the table, the estimate, and   *)
(* what an edit changes of it.  All rest on one invariant, that the report *)
(* is the answer to the files as they are, and on what ManifestProofs says *)
(* of the answer.                                                          *)
(***************************************************************************)
EXTENDS LintReport, ManifestProofs

-------------------------------------------------------------------------------
(* The inductive invariant: what the author's files are, and that an answer is *)
(* still the one to the files as they are.                                     *)

FilesTyped(files) ==
  /\ IsFiniteSet(DOMAIN files) /\ DOMAIN files \subseteq Nat
  /\ files \in [DOMAIN files -> Seq(Documents)]

AnswerIsCurrent ==
  Answered =>
    \E cloud \in Clouds \cup {"other"}, noCost \in BOOLEAN :
      ~Refused(dir, cloud, noCost) /\ run = Answer(dir, cloud, noCost)

IInv == FilesTyped(dir) /\ DOMAIN dir \subseteq Paths /\ AnswerIsCurrent

LEMMA Initially == Init => IInv
<1> SUFFICES ASSUME Init PROVE IInv
  OBVIOUS
<1>1. DOMAIN dir = {} /\ dir \in [{} -> Seq(Documents)]
  BY DEF Init
<1>2. ~Answered
  BY DEF Init, NoRun, Answered
<1> QED
  BY <1>1, <1>2, FS_EmptySet DEF IInv, FilesTyped, AnswerIsCurrent

LEMMA EditKeeps ==
  ASSUME NEW d, Edit(d), FilesTyped(d), DOMAIN d \subseteq Paths
  PROVE  IInv'
<1>1. dir' = d /\ ~Answered'
  BY DEF Edit, NoRun, Answered
<1> QED
  BY <1>1 DEF IInv, AnswerIsCurrent, FilesTyped

LEMMA Inductive == IInv /\ [Next]_vars => IInv'
<1> SUFFICES ASSUME IInv, [Next]_vars PROVE IInv'
  OBVIOUS
<1>1. FilesTyped(dir) /\ DOMAIN dir \subseteq Paths
  BY DEF IInv
<1>2. ASSUME NEW p \in Paths, Create(p) PROVE IInv'
  <2> DEFINE d == [q \in DOMAIN dir \cup {p} |-> IF q = p THEN <<>> ELSE dir[q]]
  <2>1. Edit(d)
    BY <1>2 DEF Create
  <2>2. IsFiniteSet(DOMAIN d) /\ DOMAIN d \subseteq Paths /\ DOMAIN d \subseteq Nat
    BY <1>1, FS_AddElement, LintReportAssumption DEF FilesTyped
  <2>3. d \in [DOMAIN d -> Seq(Documents)]
    BY <1>1 DEF FilesTyped
  <2> HIDE DEF d
  <2> QED
    BY <2>1, <2>2, <2>3, EditKeeps DEF FilesTyped
<1>3. ASSUME NEW p \in DOMAIN dir, NEW x \in Documents, Add(p, x) PROVE IInv'
  <2> DEFINE d == [dir EXCEPT ![p] = Append(@, x)]
  <2>1. Edit(d)
    BY <1>3 DEF Add
  <2>2. DOMAIN d = DOMAIN dir
    OBVIOUS
  <2>3. d \in [DOMAIN dir -> Seq(Documents)]
    BY <1>1 DEF FilesTyped
  <2> HIDE DEF d
  <2> QED
    BY <1>1, <2>1, <2>2, <2>3, EditKeeps DEF FilesTyped
<1>4. ASSUME NEW p \in DOMAIN dir, NEW i \in DOMAIN dir[p], Remove(p, i) PROVE IInv'
  <2> DEFINE left == SubSeq(dir[p], 1, i - 1) \o SubSeq(dir[p], i + 1, Len(dir[p]))
             d == [dir EXCEPT ![p] = left]
  <2>1. Edit(d)
    BY <1>4 DEF Remove
  <2>2. left \in Seq(Documents)
    <3>1. dir[p] \in Seq(Documents)
      BY <1>1 DEF FilesTyped
    <3>2. i \in 1 .. Len(dir[p])
      BY <3>1
    <3> QED
      BY <3>1, <3>2
  <2> HIDE DEF left
  <2>3. DOMAIN d = DOMAIN dir /\ d \in [DOMAIN dir -> Seq(Documents)]
    BY <1>1, <2>2 DEF FilesTyped
  <2> HIDE DEF d
  <2> QED
    BY <1>1, <2>1, <2>3, EditKeeps DEF FilesTyped
<1>5. ASSUME NEW cloud \in Clouds \cup {"other"}, NEW noCost \in BOOLEAN, RunLint(cloud, noCost)
      PROVE  IInv'
  <2>1. dir' = dir
    BY <1>5 DEF RunLint
  <2>2. CASE run' = [exit |-> "2"]
    BY <1>1, <2>1, <2>2 DEF IInv, AnswerIsCurrent, Answered, FilesTyped
  <2>3. CASE ~Refused(dir, cloud, noCost) /\ run' = Answer(dir, cloud, noCost)
    BY <1>1, <2>1, <2>3 DEF IInv, AnswerIsCurrent, FilesTyped
  <2> QED
    BY <1>5, <2>2, <2>3 DEF RunLint
<1>6. CASE UNCHANGED vars
  BY <1>6 DEF vars, IInv, FilesTyped, AnswerIsCurrent, Answered
<1> QED
  BY <1>2, <1>3, <1>4, <1>5, <1>6 DEF Next

(* A report of mflint answers for the files as they are, until they are edited *)
(* (cmd/mflint: readManifest and the run are one call of the client).          *)
THEOREM ReportIsCurrent == Spec => []IInv
BY Initially, Inductive, PTL DEF Spec

-------------------------------------------------------------------------------
(* What the invariant gives the properties: an answer, to readable files. *)

LEMMA TypedFilesReadable ==
  ASSUME NEW files, FilesTyped(files)
  PROVE  Readable(files) /\ \A pos \in Positions(files) : At(files, pos) \in Documents
<1>1. ASSUME NEW p \in DOMAIN files
      PROVE  /\ Len(files[p]) \in Nat /\ DOMAIN files[p] = 1 .. Len(files[p])
             /\ \A i \in DOMAIN files[p] : files[p][i] \in Documents
  <2>1. files[p] \in Seq(Documents)
    BY DEF FilesTyped
  <2> QED
    BY <2>1, ListFacts
<1>2. \A pos \in Positions(files) : At(files, pos) \in Documents
  BY <1>1 DEF Positions, At
<1>3. \A pos \in Parse(files) : Typed(At(files, pos))
  BY <1>2, LintReportAssumption DEF Parse
<1> QED
  BY <1>1, <1>2, <1>3 DEF Readable, FilesTyped

LEMMA AnswerOf ==
  ASSUME IInv, Answered
  PROVE  /\ Readable(dir) /\ ~ParseFails(dir)
         /\ \E cloud, noCost : run = Answer(dir, cloud, noCost)
<1>1. Readable(dir)
  BY TypedFilesReadable DEF IInv
<1>2. \E cloud, noCost : ~Refused(dir, cloud, noCost) /\ run = Answer(dir, cloud, noCost)
  BY DEF IInv, AnswerIsCurrent
<1> QED
  BY <1>1, <1>2 DEF Refused

LEMMA EstimateOf ==
  ASSUME IInv, Estimated
  PROVE  /\ Readable(dir) /\ run.rows = RunAll(dir)
         /\ \E cloud \in Clouds : run.cost = EstimateManifest(dir, cloud)
<1>1. Readable(dir)
  BY TypedFilesReadable DEF IInv
<1>2. PICK cloud \in Clouds \cup {"other"}, noCost \in BOOLEAN :
        ~Refused(dir, cloud, noCost) /\ run = Answer(dir, cloud, noCost)
  BY DEF IInv, AnswerIsCurrent, Estimated
<1>3. run.rows = RunAll(dir) /\ run.cost = IF noCost THEN Unset ELSE EstimateManifest(dir, cloud)
  BY <1>2 DEF Answer
<1>4. ~noCost
  BY <1>3 DEF Estimated
<1>5. cloud \in Clouds
  BY <1>2, <1>4 DEF Refused
<1> QED
  BY <1>1, <1>3, <1>4, <1>5

-------------------------------------------------------------------------------
(* The exit status *)

LEMMA ExitStatus ==
  ASSUME NEW files, Readable(files), NEW cloud, NEW noCost
  PROVE  (Answer(files, cloud, noCost).exit = "1")
           <=> \E pos \in Parse(files) : Critical(At(files, pos))
<1> DEFINE rows == RunAll(files)
           critical == {n \in DOMAIN rows : rows[n][1] = 0}
<1>1. Cardinality(Keys(files)) \in Nat /\ DOMAIN rows = 1 .. Cardinality(Keys(files))
  BY RunAllRows
<1>2. IsFiniteSet(critical)
  <2>1. IsFiniteSet(DOMAIN rows)
    BY <1>1, IntervalFinite
  <2> QED
    BY <2>1, FS_Subset
<1>3. Count(rows, 0) = Cardinality(critical)
  BY DEF Count
<1>4. Count(rows, 0) > 0 <=> critical # {}
  <2> HIDE DEF critical, rows
  <2>1. Cardinality(critical) \in Nat
    BY <1>2, FS_CardinalityType
  <2>2. Cardinality(critical) = 0 <=> critical = {}
    BY <1>2, FS_EmptySet
  <2> QED
    BY <1>3, <2>1, <2>2
<1>5. (Answer(files, cloud, noCost).exit = "1") <=> Count(rows, 0) > 0
  BY DEF Answer
<1>6. critical # {} <=> \E pos \in Parse(files) : Critical(At(files, pos))
  BY CriticalRows
<1> QED
  BY <1>4, <1>5, <1>6

(* A directory of one document. *)
LEMMA OneDocument ==
  ASSUME NEW d \in Documents
  PROVE  LET alone == [p \in {1} |-> <<d>>]
         IN /\ FilesTyped(alone)
            /\ ParseFails(alone) <=> Fails(d)
            /\ Parse(alone) = IF Decodes(d) THEN {<<1, 1>>} ELSE {}
            /\ At(alone, <<1, 1>>) = d
<1> DEFINE alone == [p \in {1} |-> <<d>>]
<1>1. FilesTyped(alone)
  <2>1. IsFiniteSet({1})
    BY FS_Singleton
  <2> QED
    BY <2>1 DEF FilesTyped
<1>2. DOMAIN alone = {1} /\ alone[1] = <<d>> /\ DOMAIN <<d>> = {1} /\ <<d>>[1] = d
  OBVIOUS
<1> HIDE DEF alone
<1>3. Positions(alone) = {<<1, 1>>} /\ At(alone, <<1, 1>>) = d
  BY <1>2 DEF Positions, At
<1>4. ParseFails(alone) <=> Fails(d)
  BY <1>3 DEF ParseFails
<1>5. Parse(alone) = IF Decodes(d) THEN {<<1, 1>>} ELSE {}
  BY <1>3 DEF Parse
<1> QED
  BY <1>1, <1>3, <1>4, <1>5 DEF alone

LEMMA ExitIsThatOfSomeDocument ==
  ASSUME IInv
  PROVE  FailsLikeItsDocuments
<1> DEFINE Alone(pos) == [p \in {1} |-> <<At(dir, pos)>>]
<1> SUFFICES ASSUME Answered
             PROVE  (run.exit = "1") <=>
                      \E pos \in Positions(dir) :
                        ~ParseFails(Alone(pos)) /\ Answer(Alone(pos), "other", TRUE).exit = "1"
  BY DEF FailsLikeItsDocuments
<1>1. Readable(dir) /\ ~ParseFails(dir)
  BY AnswerOf
<1>2. (run.exit = "1") <=> \E pos \in Parse(dir) : Critical(At(dir, pos))
  <2>1. PICK cloud, noCost : run = Answer(dir, cloud, noCost)
    BY AnswerOf
  <2> QED
    BY <1>1, <2>1, ExitStatus
<1>3. ASSUME NEW pos \in Positions(dir)
      PROVE  (~ParseFails(Alone(pos)) /\ Answer(Alone(pos), "other", TRUE).exit = "1")
               <=> (pos \in Parse(dir) /\ Critical(At(dir, pos)))
  <2> DEFINE d == At(dir, pos)
             alone == [p \in {1} |-> <<d>>]
  <2>1. d \in Documents
    BY TypedFilesReadable DEF IInv
  <2>2. /\ FilesTyped(alone)
        /\ ParseFails(alone) <=> Fails(d)
        /\ Parse(alone) = IF Decodes(d) THEN {<<1, 1>>} ELSE {}
        /\ At(alone, <<1, 1>>) = d
    <3> HIDE DEF d
    <3> QED
      BY <2>1, OneDocument
  <2>3. Readable(alone)
    <3> HIDE DEF alone
    <3> QED
      BY <2>2, TypedFilesReadable
  <2>4. (Answer(alone, "other", TRUE).exit = "1") <=> \E x \in Parse(alone) : Critical(At(alone, x))
    <3> HIDE DEF alone
    <3> QED
      BY <2>3, ExitStatus
  <2>5. pos \in Parse(dir) <=> Decodes(d)
    BY DEF Parse
  <2>6. ~Fails(d)
    BY <1>1 DEF ParseFails
  <2> HIDE DEF d, alone
  <2>7. (~ParseFails(alone) /\ Answer(alone, "other", TRUE).exit = "1")
          <=> (pos \in Parse(dir) /\ Critical(d))
    BY <2>2, <2>4, <2>5, <2>6
  <2> QED
    BY <2>7 DEF d, alone
<1>4. Parse(dir) \subseteq Positions(dir)
  BY <1>1, PositionsFinite
<1> HIDE DEF Alone
<1> QED
  BY <1>2, <1>3, <1>4

(* The exit status of mflint is 1 exactly if one of the documents would make it 1 *)
(* on its own, for any number of documents: neither Parse nor RunAll lets one     *)
(* document hide a critical violation of another (HasCritical, runLint).          *)
THEOREM ExitStatusIsThatOfSomeDocument == Spec => []FailsLikeItsDocuments
BY ReportIsCurrent, ExitIsThatOfSomeDocument, PTL

-------------------------------------------------------------------------------
(* The table *)

LEMMA Grouped ==
  ASSUME IInv
  PROVE  TableGrouped
<1> DEFINE rows == RunAll(dir)
           N == Cardinality(Keys(dir))
           rank == [n \in 1 .. N |-> rows[n][1]]
           size == [k \in 0 .. 2 |-> Cardinality({n \in 1 .. N : rank[n] = k})]
<1> SUFFICES ASSUME Answered
             PROVE  /\ Len(run.rows) = run.critical + run.warning + run.info
                    /\ \A n \in DOMAIN run.rows :
                         /\ (run.rows[n][1] = 0) <=> (n <= run.critical)
                         /\ (run.rows[n][1] = 2) <=> (n > run.critical + run.warning)
                         /\ \A m \in 1 .. n - 1 :
                              \/ run.rows[m][2] < run.rows[n][2]
                              \/ run.rows[m][2] = run.rows[n][2] /\ run.rows[m][3] <= run.rows[n][3]
  BY DEF TableGrouped
<1>1. Readable(dir)
  BY AnswerOf
<1>2. /\ N \in Nat
      /\ rows \in [1 .. N -> Keys(dir)]
      /\ \A n \in 1 .. N : \A m \in 1 .. n - 1 : Before(rows[m], rows[n])
  BY <1>1, RunAllRows
<1>3. \A n \in 1 .. N : rows[n] \in [1 .. 7 -> Int] /\ rows[n][1] = SeverityRank(rows[n][2])
  <2> HIDE DEF rows, N
  <2> QED
    BY <1>1, <1>2, RowOfFinding
<1>4. \A n \in 1 .. N : \A m \in 1 .. n - 1 :
        /\ rows[m][1] <= rows[n][1]
        /\ rows[m][2] < rows[n][2] \/ (rows[m][2] = rows[n][2] /\ rows[m][3] <= rows[n][3])
  <2> HIDE DEF rows, N
  <2> SUFFICES ASSUME NEW n \in 1 .. N, NEW m \in 1 .. n - 1
               PROVE  /\ rows[m][1] <= rows[n][1]
                      /\ rows[m][2] < rows[n][2] \/ (rows[m][2] = rows[n][2] /\ rows[m][3] <= rows[n][3])
    OBVIOUS
  <2>1. m \in 1 .. N
    BY <1>2
  <2> QED
    BY <1>2, <1>3, <2>1, RowsByRuleAndName
<1>5. rank \in [1 .. N -> 0 .. 2]
  <2> HIDE DEF rows, N
  <2>1. \A n \in 1 .. N : rows[n][1] \in 0 .. 2
    BY <1>3 DEF SeverityRank
  <2> QED
    BY <2>1
<1>6. \A n \in 1 .. N : \A m \in 1 .. n - 1 : rank[m] <= rank[n]
  <2> HIDE DEF rows, N
  <2> QED
    BY <1>2, <1>4
<1>7. /\ size[0] \in Nat /\ size[1] \in Nat /\ size[2] \in Nat
      /\ N = size[0] + size[1] + size[2]
      /\ \A n \in 1 .. N : /\ rank[n] = 0 <=> n <= size[0]
                           /\ rank[n] = 2 <=> n > size[0] + size[1]
  <2> HIDE DEF rank, N
  <2> QED
    BY <1>2, <1>5, <1>6, Groups
<1>8. ASSUME NEW k \in 0 .. 2
      PROVE  Count(rows, k) = size[k]
  <2>1. Count(rows, k) = Cardinality({n \in DOMAIN rows : rows[n][1] = k})
    BY DEF Count
  <2> HIDE DEF rows, N
  <2>2. {n \in DOMAIN rows : rows[n][1] = k} = {n \in 1 .. N : rank[n] = k}
    BY <1>2
  <2> HIDE DEF rank
  <2> QED
    BY <2>1, <2>2
<1>9. /\ run.rows = rows
      /\ run.critical = Count(rows, 0) /\ run.warning = Count(rows, 1) /\ run.info = Count(rows, 2)
  <2>1. PICK cloud, noCost : run = Answer(dir, cloud, noCost)
    BY AnswerOf
  <2> QED
    BY <2>1 DEF Answer
<1>10. /\ run.critical = size[0] /\ run.warning = size[1] /\ run.info = size[2]
  <2> HIDE DEF rows, size
  <2> QED
    BY <1>8, <1>9
<1>11. DOMAIN rows = 1 .. N /\ Len(rows) = N
  <2> HIDE DEF rows, N
  <2>1. rows \in Seq(Keys(dir))
    BY <1>2
  <2> QED
    BY <1>2, <2>1
<1>12. \A n \in 1 .. N : rank[n] = rows[n][1]
  OBVIOUS
<1> HIDE DEF rows, N, rank, size
<1>13. Len(rows) = run.critical + run.warning + run.info
  BY <1>7, <1>10, <1>11
<1>14. ASSUME NEW n \in 1 .. N
       PROVE  /\ rows[n][1] = 0 <=> n <= run.critical
              /\ rows[n][1] = 2 <=> n > run.critical + run.warning
  BY <1>7, <1>10, <1>12
<1> QED
  BY <1>4, <1>9, <1>11, <1>13, <1>14

(* The table of a report of any length is grouped by severity, rule and name, and *)
(* the counts under it are the sizes of its groups (RunAll, report.New).          *)
THEOREM TablesAreGrouped == Spec => []TableGrouped
BY ReportIsCurrent, Grouped, PTL

-------------------------------------------------------------------------------
(* The estimate *)

LEMMA PricedIsParsed ==
  ASSUME NEW files, Readable(files), NEW pos \in Priced(files)
  PROVE  pos \in Parse(files) /\ Typed(At(files, pos)) /\ pos \in Int \X Int
BY PositionsFinite DEF Priced, Readable

(* K8S-005 finds nothing in a container only if it requests and limits both. *)
LEMMA ResourcesSet ==
  ASSUME NEW r, Typed(r), NEW i \in DOMAIN AllContainers(r), <<i, 0>> \notin MissingResources(r)
  PROVE  LET c == AllContainers(r)[i]
         IN DOMAIN c.requests = {"cpu", "memory"} /\ DOMAIN c.limits = {"cpu", "memory"}
<1> DEFINE cs == AllContainers(r)
           c == cs[i]
           bad == {j \in DOMAIN cs : DOMAIN cs[j].requests \cap DOMAIN cs[j].limits # {"cpu", "memory"}}
<1>1. MissingResources(r) = {<<j, 0>> : j \in bad}
  BY DEF MissingResources, Those
<1>2. i \notin bad
  <2> HIDE DEF bad
  <2> QED
    BY <1>1
<1>3. DOMAIN c.requests \cap DOMAIN c.limits = {"cpu", "memory"}
  BY <1>2
<1>4. DOMAIN c.requests \subseteq {"cpu", "memory"} /\ DOMAIN c.limits \subseteq {"cpu", "memory"}
  BY ContainersTyped DEF Amounts
<1> QED
  BY <1>3, <1>4

(* A container that no row of K8S-005 names writes all its amounts. *)
LEMMA UnnamedWritesAll ==
  ASSUME Readable(dir), run.rows = RunAll(dir), NEW pos \in Parse(dir), pos \in Int \X Int,
         NEW i \in DOMAIN AllContainers(At(dir, pos)), ~Named(pos, i)
  PROVE  LET c == AllContainers(At(dir, pos))[i]
         IN DOMAIN c.requests = {"cpu", "memory"} /\ DOMAIN c.limits = {"cpu", "memory"}
<1> DEFINE r == At(dir, pos)
           v == <<5, <<i, 0>>>>
<1>1. ASSUME <<i, 0>> \in MissingResources(r) PROVE FALSE
  <2>1. v \in Check(r, Resources(dir))
    BY <1>1 DEF Check, OwnChecks
  <2>2. v[1] = 5 /\ v[2][1] = i
    OBVIOUS
  <2> HIDE DEF v, r
  <2>3. PICK n \in DOMAIN RunAll(dir) : RunAll(dir)[n] = SortKey(dir, pos, v)
    BY <2>1, FindingHasRow DEF r
  <2>4. LET row == SortKey(dir, pos, v) IN row[2] = 5 /\ <<row[4], row[5]>> = pos /\ row[6] = i
    BY <2>2 DEF SortKey
  <2> QED
    BY <2>3, <2>4 DEF Named
<1>2. Typed(r)
  BY DEF Readable
<1> HIDE DEF r
<1> QED
  BY <1>1, <1>2, ResourcesSet DEF r

(* There is nothing to fill in what writes all its amounts. *)
LEMMA FilledIsWritten ==
  ASSUME NEW c, NEW n, NEW x \in {"cpu", "memory"},
         DOMAIN c.requests = {"cpu", "memory"}, DOMAIN c.limits = {"cpu", "memory"}
  PROVE  /\ Amount(Filled(c, n).requests, x) = Amount(c.requests, x)
         /\ HighEnd(Filled(c, n), x) = HighEnd(c, x)
<1> DEFINE d == Filled(c, n)
<1>1. /\ DOMAIN d.requests = {"cpu", "memory"} /\ d.requests[x] = c.requests[x]
      /\ DOMAIN d.limits = {"cpu", "memory"} /\ d.limits[x] = c.limits[x]
  BY DEF Filled
<1> HIDE DEF d
<1>2. Amount(d.requests, x) = Amount(c.requests, x) /\ Amount(d.limits, x) = Amount(c.limits, x)
  BY <1>1 DEF Amount
<1> QED
  BY <1>2 DEF HighEnd, d

(* So the totals do not depend on what is filled in. *)
LEMMA MeantIsWritten ==
  ASSUME Readable(dir), run.rows = RunAll(dir), NEW pos \in Parse(dir), pos \in Int \X Int,
         NEW n, NEW x \in {"cpu", "memory"}
  PROVE  /\ Meant(pos, n, LAMBDA c : Amount(c.requests, x)) = Requested(At(dir, pos), x)
         /\ Meant(pos, n, LAMBDA c : HighEnd(c, x)) = Limited(At(dir, pos), x)
<1> DEFINE cs == AllContainers(At(dir, pos))
           meant(i) == IF Named(pos, i) THEN cs[i] ELSE Filled(cs[i], n)
<1>1. ASSUME NEW i \in DOMAIN cs
      PROVE  /\ Amount(meant(i).requests, x) = Amount(cs[i].requests, x)
             /\ HighEnd(meant(i), x) = HighEnd(cs[i], x)
  <2>1. CASE Named(pos, i)
    BY <2>1
  <2>2. CASE ~Named(pos, i)
    <3>1. DOMAIN cs[i].requests = {"cpu", "memory"} /\ DOMAIN cs[i].limits = {"cpu", "memory"}
      BY <2>2, UnnamedWritesAll
    <3>2. meant(i) = Filled(cs[i], n)
      BY <2>2
    <3> HIDE DEF cs, meant
    <3> QED
      BY <3>1, <3>2, FilledIsWritten
  <2> QED
    BY <2>1, <2>2
<1>2. /\ [i \in DOMAIN cs |-> Amount(meant(i).requests, x)] = [i \in DOMAIN cs |-> Amount(cs[i].requests, x)]
      /\ [i \in DOMAIN cs |-> HighEnd(meant(i), x)] = [i \in DOMAIN cs |-> HighEnd(cs[i], x)]
  <2> HIDE DEF cs, meant
  <2> QED
    BY <1>1
<1> QED
  BY <1>2 DEF Meant, Requested, Limited, Total

(* Amounts of zero in total, none of them negative, are zero in each container. *)
LEMMA NothingInTotal ==
  ASSUME NEW r, Typed(r), NoneNegative(r), NEW x \in {"cpu", "memory"},
         Requested(r, x) = 0, Limited(r, x) = 0, NEW i \in DOMAIN AllContainers(r)
  PROVE  Amount(AllContainers(r)[i].requests, x) = 0 /\ Amount(AllContainers(r)[i].limits, x) = 0
<1> DEFINE cs == AllContainers(r)
           f == [j \in DOMAIN cs |-> Amount(cs[j].requests, x)]
           g == [j \in DOMAIN cs |-> HighEnd(cs[j], x)]
<1>1. ASSUME NEW j \in DOMAIN cs
      PROVE  /\ f[j] \in Nat /\ g[j] \in Nat
             /\ g[j] = 0 => Amount(cs[j].limits, x) = 0
  <2> DEFINE c == cs[j]
  <2>1. c \in Range(cs)
    BY DEF Range
  <2>2. Amounts(c.requests) /\ Amounts(c.limits)
    BY ContainersTyped
  <2> HIDE DEF c, cs
  <2>3. Amount(c.requests, x) >= 0 /\ Amount(c.limits, x) >= 0
    BY <2>1 DEF NoneNegative, cs
  <2>4. Amount(c.requests, x) \in Int /\ Amount(c.limits, x) \in Int
    BY <2>2, AmountTyped
  <2>5. HighEnd(c, x) \in Nat /\ (HighEnd(c, x) = 0 => Amount(c.limits, x) = 0)
    BY <2>3, <2>4 DEF HighEnd
  <2> QED
    BY <2>3, <2>4, <2>5 DEF c
<1>2. Sum(f, DOMAIN cs) = 0 /\ Sum(g, DOMAIN cs) = 0
  BY TotalsAreSums
<1>3. IsFiniteSet(DOMAIN cs)
  BY ContainersFinite
<1>4. f[i] = Amount(cs[i].requests, x)
  OBVIOUS
<1> HIDE DEF f, g, cs
<1>5. i \in DOMAIN cs
  BY DEF cs
<1>6. 0 >= f[i] /\ 0 >= g[i]
  BY <1>1, <1>2, <1>3, <1>5, SumCovers
<1>7. f[i] = 0 /\ g[i] = 0
  BY <1>1, <1>5, <1>6
<1> QED
  BY <1>1, <1>4, <1>5, <1>7 DEF cs

LEMMA AmountsFlagged ==
  ASSUME IInv
  PROVE  MissingAmountsFlagged
<1> DEFINE Low(cloud, pos, n) ==
             MonthlyPrice(Pricing[cloud],
               Meant(pos, n, LAMBDA c : Amount(c.requests, "cpu")),
               Meant(pos, n, LAMBDA c : Amount(c.requests, "memory")), Replicas(At(dir, pos)))
           High(cloud, pos, n) ==
             MonthlyPrice(Pricing[cloud],
               Meant(pos, n, LAMBDA c : HighEnd(c, "cpu")),
               Meant(pos, n, LAMBDA c : HighEnd(c, "memory")), Replicas(At(dir, pos)))
           Explained(pos) ==
             \A i \in DOMAIN AllContainers(At(dir, pos)) :
               Named(pos, i) \/ WritesZeros(AllContainers(At(dir, pos))[i])
<1> SUFFICES ASSUME Estimated
             PROVE  \E cloud \in Clouds : \A l \in run.cost.lines :
                      IsWorkload(At(dir, l.pos)) =>
                        /\ \A n \in Guesses : /\ l.exactLow = Low(cloud, l.pos, n)
                                              /\ l.exactHigh = High(cloud, l.pos, n)
                        /\ l.note /\ NoneNegative(At(dir, l.pos)) => Explained(l.pos)
  BY DEF MissingAmountsFlagged
<1>1. PICK cloud \in Clouds : run.cost = EstimateManifest(dir, cloud)
  BY EstimateOf
<1>2. Readable(dir) /\ run.rows = RunAll(dir)
  BY EstimateOf
<1> SUFFICES ASSUME NEW l \in run.cost.lines, IsWorkload(At(dir, l.pos))
             PROVE  /\ \A n \in Guesses : /\ l.exactLow = Low(cloud, l.pos, n)
                                          /\ l.exactHigh = High(cloud, l.pos, n)
                    /\ l.note /\ NoneNegative(At(dir, l.pos)) => Explained(l.pos)
  BY <1>1
<1>3. PICK pos \in Priced(dir) : l = LineOf(dir, cloud)[pos]
  BY <1>1, EstimateParts DEF Lines
<1>4. l.pos = pos
  BY <1>2, <1>3, LineTyped
<1>5. pos \in Parse(dir) /\ Typed(At(dir, pos)) /\ pos \in Int \X Int
  BY <1>2, PricedIsParsed
<1>6. LET r == At(dir, pos)
      IN /\ l.exactLow = MonthlyPrice(Pricing[cloud], Requested(r, "cpu"), Requested(r, "memory"), Replicas(r))
         /\ l.exactHigh = MonthlyPrice(Pricing[cloud], Limited(r, "cpu"), Limited(r, "memory"), Replicas(r))
         /\ l.note <=> \A x \in {"cpu", "memory"} : Requested(r, x) = 0 /\ Limited(r, x) = 0
  BY <1>3, <1>4, LineOfWorkload
<1>7. ASSUME NEW n \in Guesses
      PROVE  l.exactLow = Low(cloud, pos, n) /\ l.exactHigh = High(cloud, pos, n)
  <2>1. /\ Meant(pos, n, LAMBDA c : Amount(c.requests, "cpu")) = Requested(At(dir, pos), "cpu")
        /\ Meant(pos, n, LAMBDA c : Amount(c.requests, "memory")) = Requested(At(dir, pos), "memory")
        /\ Meant(pos, n, LAMBDA c : HighEnd(c, "cpu")) = Limited(At(dir, pos), "cpu")
        /\ Meant(pos, n, LAMBDA c : HighEnd(c, "memory")) = Limited(At(dir, pos), "memory")
    BY <1>2, <1>5, MeantIsWritten
  <2> QED
    BY <1>6, <2>1
<1>8. ASSUME l.note, NoneNegative(At(dir, pos)), NEW i \in DOMAIN AllContainers(At(dir, pos)),
             ~Named(pos, i)
      PROVE  WritesZeros(AllContainers(At(dir, pos))[i])
  <2> DEFINE r == At(dir, pos)
             c == AllContainers(r)[i]
  <2>1. DOMAIN c.requests = {"cpu", "memory"} /\ DOMAIN c.limits = {"cpu", "memory"}
    BY <1>2, <1>5, <1>8, UnnamedWritesAll
  <2>2. ASSUME NEW x \in {"cpu", "memory"}
        PROVE  Amount(c.requests, x) = 0 /\ Amount(c.limits, x) = 0
    <3>1. Requested(r, x) = 0 /\ Limited(r, x) = 0
      BY <1>6, <1>8
    <3>2. Typed(r) /\ NoneNegative(r) /\ i \in DOMAIN AllContainers(r)
      BY <1>5, <1>8
    <3> HIDE DEF r
    <3> QED
      BY <3>1, <3>2, NothingInTotal
  <2> HIDE DEF c
  <2> QED
    BY <2>1, <2>2 DEF WritesZeros, Amount, c
<1> HIDE DEF Low, High
<1> QED
  BY <1>4, <1>7, <1>8

(* What an estimate takes for amounts that a manifest leaves out never goes unsaid, *)
(* for any rates, any number of containers and whatever the author may have meant:  *)
(* a line depends on no amount left out but in containers that rows of K8S-005      *)
(* name, and a note without such a row is that of written zeros (estimateWorkload,  *)
(* k8s_005_missing_resources.go, RunAll).                                           *)
THEOREM MissingAmountsAreFlagged == Spec => []MissingAmountsFlagged
BY ReportIsCurrent, AmountsFlagged, PTL

LEMMA LineOrdered ==
  ASSUME NEW files, Readable(files), NEW cloud \in Clouds, NEW pos \in Priced(files),
         IsWorkload(At(files, pos)) => Admissible(At(files, pos))
  PROVE  LineOf(files, cloud)[pos].low <= LineOf(files, cloud)[pos].high
<1> DEFINE r == At(files, pos)
           l == LineOf(files, cloud)[pos]
           cs == AllContainers(r)
<1>1. Typed(r)
  BY PricedIsParsed
<1>2. /\ l.exactLow \in Int /\ l.exactHigh \in Int
      /\ l.low = Round2(l.exactLow) /\ l.high = Round2(l.exactHigh)
  BY LineTyped
<1>3. CASE IsWorkload(r)
  <2>1. ASSUME NEW x, NEW i \in DOMAIN cs
        PROVE  Amount(cs[i].requests, x) <= HighEnd(cs[i], x)
    <3> DEFINE c == cs[i]
    <3>1. c \in Range(cs)
      BY DEF Range
    <3>2. Amounts(c.requests) /\ Amounts(c.limits)
      BY <1>1, ContainersTyped
    <3> HIDE DEF c, cs
    <3>3. \A y \in DOMAIN c.limits : Amount(c.requests, y) <= c.limits[y]
      BY <1>3, <3>1 DEF Admissible, cs
    <3>4. Amount(c.requests, x) \in Int /\ Amount(c.limits, x) \in Int
      BY <3>2, AmountTyped
    <3>5. Amount(c.limits, x) > 0 => Amount(c.requests, x) <= Amount(c.limits, x)
      BY <3>3 DEF Amount
    <3>6. Amount(c.requests, x) <= HighEnd(c, x)
      BY <3>4, <3>5 DEF HighEnd
    <3> QED
      BY <3>6 DEF c
  <2>2. /\ Requested(r, "cpu") <= Limited(r, "cpu")
        /\ Requested(r, "memory") <= Limited(r, "memory")
    <3> HIDE DEF r
    <3> QED
      BY <1>1, <2>1, RequestedBelowLimited
  <2>3. /\ Requested(r, "cpu") \in Int /\ Requested(r, "memory") \in Int
        /\ Limited(r, "cpu") \in Int /\ Limited(r, "memory") \in Int
    <3> HIDE DEF r
    <3> QED
      BY <1>1, TotalsTyped
  <2>4. Replicas(r) \in Nat
    <3>1. Replicas(r) \in Int /\ Replicas(r) >= 0
      BY <1>1, <1>3, ReplicasTyped DEF Admissible
    <3> QED
      BY <3>1
  <2>5. /\ l.exactLow = MonthlyPrice(Pricing[cloud], Requested(r, "cpu"), Requested(r, "memory"), Replicas(r))
        /\ l.exactHigh = MonthlyPrice(Pricing[cloud], Limited(r, "cpu"), Limited(r, "memory"), Replicas(r))
    BY <1>3, LineOfWorkload
  <2> HIDE DEF r, l
  <2>6. l.exactLow <= l.exactHigh
    BY <2>2, <2>3, <2>4, <2>5, PriceMonotone
  <2> QED
    BY <1>2, <2>6, RoundMonotone DEF l
<1>4. CASE ~IsWorkload(r)
  <2>1. l.high = l.low
    BY <1>4, LineOfClaim
  <2>2. l.low \in Int
    BY LineTyped
  <2> QED
    BY <2>1, <2>2
<1> QED
  BY <1>3, <1>4

LEMMA Ordered ==
  ASSUME IInv
  PROVE  RangeOrdered
<1> SUFFICES ASSUME Estimated
             PROVE  /\ \A l \in run.cost.lines : Admissible(At(dir, l.pos)) => l.low <= l.high
                    /\ (\A l \in run.cost.lines : Admissible(At(dir, l.pos))) => run.cost.low <= run.cost.high
  BY DEF RangeOrdered
<1>1. PICK cloud \in Clouds : run.cost = EstimateManifest(dir, cloud)
  BY EstimateOf
<1>2. Readable(dir)
  BY EstimateOf
<1>3. /\ run.cost.lines = Lines(dir, cloud)
      /\ run.cost.low = Round2(Cent * Sum(LowOf(dir, cloud), Priced(dir)))
      /\ run.cost.high = Round2(Cent * Sum(HighOf(dir, cloud), Priced(dir)))
  BY <1>1, EstimateParts
<1>4. ASSUME NEW l \in run.cost.lines, Admissible(At(dir, l.pos))
      PROVE  l.low <= l.high
  <2>1. PICK pos \in Priced(dir) : l = LineOf(dir, cloud)[pos]
    BY <1>3 DEF Lines
  <2>2. l.pos = pos
    BY <1>2, <2>1, LineTyped
  <2> QED
    BY <1>2, <1>4, <2>1, <2>2, LineOrdered
<1>5. ASSUME \A l \in run.cost.lines : Admissible(At(dir, l.pos))
      PROVE  run.cost.low <= run.cost.high
  <2> DEFINE P == Priced(dir)  f == LowOf(dir, cloud)  g == HighOf(dir, cloud)
  <2>1. ASSUME NEW pos \in P
        PROVE  f[pos] \in Int /\ g[pos] \in Int /\ f[pos] <= g[pos]
    <3> DEFINE l == LineOf(dir, cloud)[pos]
    <3>1. l \in run.cost.lines
      BY <1>3 DEF Lines
    <3>2. l.low <= l.high
      BY <1>4, <1>5, <3>1
    <3>3. l.low \in Int /\ l.high \in Int
      BY <1>2, LineTyped
    <3>4. f[pos] = l.low /\ g[pos] = l.high
      BY DEF LowOf, HighOf
    <3> QED
      BY <3>2, <3>3, <3>4
  <2>2. IsFiniteSet(P)
    BY <1>2, PricedFinite
  <2> DEFINE a == Sum(f, P)  b == Sum(g, P)
  <2>3. a \in Int /\ b \in Int /\ a <= b
    <3> HIDE DEF P, f, g
    <3> QED
      BY <2>1, <2>2, SumType, SumMonotone
  <2>4. run.cost.low = Round2(Cent * a) /\ run.cost.high = Round2(Cent * b)
    BY <1>3
  <2> HIDE DEF a, b
  <2>5. Cent * a \in Int /\ Cent * b \in Int /\ Cent * a <= Cent * b
    <3>1. a * Cent <= b * Cent
      BY <2>3, CentFact, ProductMonotone
    <3> QED
      BY <2>3, <3>1, CentFact
  <2> QED
    BY <2>4, <2>5, RoundMonotone
<1> QED
  BY <1>4, <1>5

(* The estimate is a range for what a cluster would accept, for any number of *)
(* resources and containers (estimateWorkload, EstimateManifest).             *)
THEOREM EstimatesAreRanges == Spec => []RangeOrdered
BY ReportIsCurrent, Ordered, PTL

LEMMA AbsBound ==
  ASSUME NEW a \in Int, NEW bound \in Int, -bound <= 2 * a, 2 * a <= bound
  PROVE  2 * Abs(a) <= bound
BY DEF Abs

LEMMA Rounded ==
  ASSUME IInv
  PROVE  RoundingBounded
<1> DEFINE lines == run.cost.lines
           low == [l \in lines |-> l.exactLow]
           high == [l \in lines |-> l.exactHigh]
<1> SUFFICES ASSUME Estimated, \A l \in lines : l.exactLow >= 0 /\ l.exactHigh >= 0
             PROVE  /\ 2 * Abs(Cent * run.cost.low - Sum(low, lines)) <= Cent * Cardinality(lines)
                    /\ 2 * Abs(Cent * run.cost.high - Sum(high, lines)) <= Cent * Cardinality(lines)
  BY DEF RoundingBounded, Exact, SumFunction, Sum
<1>1. PICK cloud \in Clouds : run.cost = EstimateManifest(dir, cloud)
  BY EstimateOf
<1>2. Readable(dir)
  BY EstimateOf
<1> DEFINE P == Priced(dir)
           f == LineOf(dir, cloud)
           lowOf == [pos \in P |-> f[pos].exactLow]
           highOf == [pos \in P |-> f[pos].exactHigh]
<1>3. /\ lines = Lines(dir, cloud)
      /\ run.cost.low = Round2(Cent * Sum(LowOf(dir, cloud), P))
      /\ run.cost.high = Round2(Cent * Sum(HighOf(dir, cloud), P))
  BY <1>1, EstimateParts
<1>4. ASSUME NEW pos \in P
      PROVE  /\ f[pos] \in lines
             /\ lowOf[pos] = f[pos].exactLow /\ highOf[pos] = f[pos].exactHigh
             /\ lowOf[pos] \in Nat /\ highOf[pos] \in Nat
             /\ LowOf(dir, cloud)[pos] = Round2(lowOf[pos])
             /\ HighOf(dir, cloud)[pos] = Round2(highOf[pos])
  <2>1. f[pos] \in lines
    BY <1>3 DEF Lines
  <2>2. f[pos].exactLow \in Nat /\ f[pos].exactHigh \in Nat
    <3>1. f[pos].exactLow \in Int /\ f[pos].exactHigh \in Int
      BY <1>2, LineTyped
    <3>2. f[pos].exactLow >= 0 /\ f[pos].exactHigh >= 0
      BY <2>1
    <3> HIDE DEF f
    <3> QED
      BY <3>1, <3>2
  <2>3. f[pos].low = Round2(f[pos].exactLow) /\ f[pos].high = Round2(f[pos].exactHigh)
    BY <1>2, LineTyped
  <2>4. LowOf(dir, cloud)[pos] = f[pos].low /\ HighOf(dir, cloud)[pos] = f[pos].high
    BY DEF LowOf, HighOf
  <2> HIDE DEF f
  <2> QED
    BY <2>1, <2>2, <2>3, <2>4
<1>5. IsFiniteSet(P) /\ Cardinality(lines) = Cardinality(P) /\ Cardinality(P) \in Nat
  BY <1>2, <1>3, PricedFinite, LinesAreDistinct, FS_CardinalityType
<1>6. Sum(low, lines) = Sum(lowOf, P) /\ Sum(high, lines) = Sum(highOf, P)
  <2>1. \A pos \in P : /\ lowOf[pos] \in Int /\ low[f[pos]] = lowOf[pos]
                       /\ highOf[pos] \in Int /\ high[f[pos]] = highOf[pos]
    BY <1>4
  <2> HIDE DEF low, high, lowOf, highOf, lines
  <2> QED
    BY <1>2, <1>3, <2>1, SumOverLines
<1>7. /\ run.cost.low \in Int /\ Sum(lowOf, P) \in Int
      /\ -(Cent * Cardinality(P)) <= 2 * (Cent * run.cost.low - Sum(lowOf, P))
      /\ 2 * (Cent * run.cost.low - Sum(lowOf, P)) <= Cent * Cardinality(P)
  <2> HIDE DEF lowOf, P
  <2> QED
    BY <1>3, <1>4, <1>5, RoundedTotal
<1>8. /\ run.cost.high \in Int /\ Sum(highOf, P) \in Int
      /\ -(Cent * Cardinality(P)) <= 2 * (Cent * run.cost.high - Sum(highOf, P))
      /\ 2 * (Cent * run.cost.high - Sum(highOf, P)) <= Cent * Cardinality(P)
  <2> HIDE DEF highOf, P
  <2> QED
    BY <1>3, <1>4, <1>5, RoundedTotal
<1> HIDE DEF low, high, lines, lowOf, highOf, P
<1>9. Cent \in Nat /\ Cent * Cardinality(P) \in Int
  BY <1>5, CentFact
<1>10. 2 * Abs(Cent * run.cost.low - Sum(lowOf, P)) <= Cent * Cardinality(P)
  BY <1>7, <1>9, AbsBound
<1>11. 2 * Abs(Cent * run.cost.high - Sum(highOf, P)) <= Cent * Cardinality(P)
  BY <1>8, <1>9, AbsBound
<1> QED
  BY <1>5, <1>6, <1>10, <1>11

(* Rounding to cents moves a total by half a cent a line at most, for any number *)
(* of lines and any rates (round2, EstimateManifest).                            *)
THEOREM RoundingIsBounded == Spec => []RoundingBounded
BY ReportIsCurrent, Rounded, PTL

-------------------------------------------------------------------------------
(* Findings and edits.  This needs no invariant: of the thirteen rules only two *)
(* look at other resources, and both ask whether there is one of some kind.     *)

(* A finding of the set before that is none of the set after is one of the two *)
(* rules that look around, and only its resource settles it.                   *)
LEMMA GoneIsLookedUp ==
  ASSUME NEW r, NEW before, NEW after,
         NEW v \in Check(r, before), v \notin Check(r, after)
  PROVE  \/ /\ v \in {7} \X MissingPDB(r, before)
            /\ \E x \in after : Selects(x, r)
         \/ /\ v \in {10} \X NoNetworkPolicy(r, before)
            /\ \E x \in after : Restricts(x, r)
<1>1. CASE v \in {7} \X MissingPDB(r, before)
  <2>1. ~(v \in {7} \X MissingPDB(r, after))
    BY DEF Check
  <2>2. MissingPDB(r, after) # MissingPDB(r, before)
    BY <1>1, <2>1
  <2> QED
    BY <1>1, <2>1, <2>2 DEF MissingPDB, WholeIf
<1>2. CASE v \in {10} \X NoNetworkPolicy(r, before)
  <2>1. ~(v \in {10} \X NoNetworkPolicy(r, after))
    BY DEF Check
  <2>2. NoNetworkPolicy(r, after) # NoNetworkPolicy(r, before)
    BY <1>2, <2>1
  <2> QED
    BY <1>2, <2>1, <2>2 DEF NoNetworkPolicy, WholeIf
<1> QED
  BY <1>1, <1>2 DEF Check

(* A place found by a rule of the lookup means that nothing of the set settles it. *)
LEMMA MissingMeansNone ==
  ASSUME NEW r, NEW all
  PROVE  /\ MissingPDB(r, all) # {} => \A x \in all : ~Selects(x, r)
         /\ NoNetworkPolicy(r, all) # {} => \A x \in all : ~Restricts(x, r)
BY DEF MissingPDB, NoNetworkPolicy, WholeIf

LEMMA AlwaysSettled ==
  ASSUME NEW r, NEW before, NEW after
  PROVE  Settled(r, before, after)
<1> SUFFICES ASSUME NEW v \in Check(r, before), v \notin Check(r, after)
             PROVE  \E x \in after \ before : Settles(x, v[1], r)
  BY DEF Settled
<1>1. CASE v \in {7} \X MissingPDB(r, before) /\ \E x \in after : Selects(x, r)
  <2>1. PICK x \in after : Selects(x, r)
    BY <1>1
  <2>2. x \notin before
    BY <1>1, <2>1, MissingMeansNone
  <2>3. v[1] = 7
    BY <1>1
  <2>4. Settles(x, v[1], r)
    BY <2>1, <2>3 DEF Settles, Selects
  <2> QED
    BY <2>2, <2>4
<1>2. CASE v \in {10} \X NoNetworkPolicy(r, before) /\ \E x \in after : Restricts(x, r)
  <2>1. PICK x \in after : Restricts(x, r)
    BY <1>2
  <2>2. x \notin before
    BY <1>2, <2>1, MissingMeansNone
  <2>3. v[1] = 10
    BY <1>2
  <2>4. Settles(x, v[1], r)
    BY <2>1, <2>3 DEF Settles, Restricts
  <2> QED
    BY <2>2, <2>4
<1> QED
  BY <1>1, <1>2, GoneIsLookedUp

(* The findings of a resource that an edit leaves alone change only through      *)
(* budgets that select its pods and policies of its namespace: there is no other *)
(* way from one manifest to the finding of another (RunAll and the 13 rules).    *)
THEOREM FindingsStayWithTheirResource == Spec => OthersKeepFindings
<1>1. KeepsFindings
  BY AlwaysSettled DEF KeepsFindings
<1> QED
  BY <1>1, PTL DEF OthersKeepFindings
=============================================================================
