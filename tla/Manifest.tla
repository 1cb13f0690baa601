------------------------------- MODULE Manifest -------------------------------
(***************************************************************************)
(* What internal/parser makes of a directory of manifests, and what        *)
(* internal/rules finds in it.  A directory maps its files, numbered in    *)
(* the order of their paths, to the sequence of their documents; a         *)
(* document is named by its position, a pair of file and index, and the    *)
(* positions in lexicographic order are the manifest the client sends.     *)
(* Text is abstracted to what the rules tell apart: a label, an            *)
(* environment variable or an image is described by the answers the string *)
(* functions of the code would give.                                       *)
(***************************************************************************)
EXTENDS Integers, Sequences, FiniteSets, Functions

CONSTANT Unset  \* an optional field left out

WorkloadKinds == {"Deployment", "StatefulSet", "DaemonSet", "Pod"}

SupportedKinds ==
  WorkloadKinds \cup {"Service", "PersistentVolumeClaim", "ConfigMap", "Secret",
                      "Ingress", "NetworkPolicy", "PodDisruptionBudget"}

Positions(dir) == UNION {{p} \X DOMAIN dir[p] : p \in DOMAIN dir}
At(dir, pos) == dir[pos[1]][pos[2]]

\* The header is decoded first, the object only if its kind is supported.
Fails(d) == d.yaml = "unreadable" \/ (d.yaml = "mistyped" /\ d.kind \in SupportedKinds)

\* Parse: one bad document fails them all.
ParseFails(dir) == \E pos \in Positions(dir) : Fails(At(dir, pos))

Decodes(d) == d.kind \in SupportedKinds /\ ~Fails(d)

\* A bug: the first document that is skipped ends the loop.
ParseUntilSkipped(dir) ==
  {pos \in Positions(dir) :
     \A x \in Positions(dir) :
       (x[1] < pos[1] \/ (x[1] = pos[1] /\ x[2] <= pos[2])) => Decodes(At(dir, x))}

\* Blank documents, those without a kind (kind "") and unsupported kinds are skipped.
Parse(dir) == {pos \in Positions(dir) : Decodes(At(dir, pos))}
Resources(dir) == {At(dir, pos) : pos \in Parse(dir)}

-----------------------------------------------------------------------------
(* workload.go *)

IsWorkload(r) == r.kind \in WorkloadKinds

\* The replicas AsWorkload reports.
Replicas(r) ==
  IF r.kind \in {"Deployment", "StatefulSet"} /\ r.replicas # Unset THEN r.replicas ELSE 1

\* Init containers first; none if r is no workload.
AllContainers(r) == IF IsWorkload(r) THEN r.init \o r.containers ELSE <<>>

\* cpu and memory, as quantities.
Amounts(list) == DOMAIN list \subseteq {"cpu", "memory"} /\ \A x \in DOMAIN list : list[x] \in Int

\* What decoding an object into its Kubernetes type leaves of its fields.
Typed(d) ==
  /\ d.name \in Int
  /\ d.kind = "PersistentVolumeClaim" => d.size \in Int
  /\ IsWorkload(d) =>
       LET cs == Range(d.init) \cup Range(d.containers)
       IN /\ {d.init, d.containers} \subseteq Seq(cs)
          /\ \A c \in cs : c.env \in Seq(Range(c.env)) /\ Amounts(c.requests) /\ Amounts(c.limits)
          /\ d.replicas \in Int \cup {Unset}

-----------------------------------------------------------------------------
(* The rules.  Each returns the places of r it finds fault with: <<c, e>> is  *)
(* environment variable e of container c, <<c, 0>> the container and <<0, 0>> *)
(* the resource as a whole.                                                   *)

Whole == <<0, 0>>
WholeIf(found) == IF found THEN {Whole} ELSE {}
Those(cs, Bad(_)) == {<<c, 0>> : c \in {c \in DOMAIN cs : Bad(cs[c])}}

\* K8S-001: runAsNonRoot of the container, or else of the pod.
RootUser(r) ==
  Those(AllContainers(r),
        LAMBDA c : ~(c.nonRoot = TRUE) /\ (c.nonRoot = Unset => ~(r.nonRoot = TRUE)))

\* K8S-002
Privileged(r) == Those(AllContainers(r), LAMBDA c : c.privileged)

\* K8S-003: a literal value under a name like that of a secret.
HardcodedSecret(r) ==
  LET cs == AllContainers(r)
  IN UNION {{<<c, e>> : e \in {e \in DOMAIN cs[c].env :
               cs[c].env[e].literal /\ ~cs[c].env[e].valueFrom /\ cs[c].env[e].looksLikeSecretName}}
            : c \in DOMAIN cs}

\* K8S-004: hostNetwork, hostPID or hostIPC.
HostNamespaces(r) == WholeIf(IsWorkload(r) /\ r.hostNamespaces # {})

\* A bug: the limits only.
MissingLimits(r) == Those(AllContainers(r), LAMBDA c : DOMAIN c.limits # {"cpu", "memory"})

\* K8S-005: cpu and memory, as a request and as a limit.
MissingResources(r) ==
  Those(AllContainers(r), LAMBDA c : DOMAIN c.requests \cap DOMAIN c.limits # {"cpu", "memory"})

\* K8S-006: of the containers that are not init containers.
MissingProbes(r) ==
  IF IsWorkload(r) THEN Those(r.containers, LAMBDA c : ~(c.liveness /\ c.readiness)) ELSE {}

\* A bug: a budget of any namespace will do.
SelectsAnywhere(pdb, r) ==
  /\ pdb.kind = "PodDisruptionBudget"
  /\ pdb.selector # {} /\ pdb.selector \subseteq r.podLabels

\* A budget without a selector, or with an invalid one, has selector {} here.
\* Namespaces are compared as written: none is not "default".
Selects(pdb, r) ==
  /\ pdb.kind = "PodDisruptionBudget" /\ pdb.ns = r.ns
  /\ pdb.selector # {} /\ pdb.selector \subseteq r.podLabels

\* K8S-007
MissingPDB(r, all) ==
  WholeIf(/\ r.kind \in {"Deployment", "StatefulSet"}
          /\ Replicas(r) > 1
          /\ \A x \in all : ~Selects(x, r))

\* K8S-008: no digest, and no tag or the tag "latest".
UnpinnedImage(r) ==
  Those(AllContainers(r), LAMBDA c : ~c.image.digest /\ c.image.tag \in {"", "latest"})

\* K8S-009
NoReplicaCount(r) == WholeIf(r.kind = "Deployment" /\ r.replicas = Unset)

Restricts(policy, r) == policy.kind = "NetworkPolicy" /\ policy.ns = r.ns

\* K8S-010
NoNetworkPolicy(r, all) == WholeIf(IsWorkload(r) /\ \A x \in all : ~Restricts(x, r))

\* K8S-011: of the object's own labels, not of the pod template's.
MissingCostLabels(r) == WholeIf(IsWorkload(r) /\ ~r.costLabel)

\* K8S-012
PVCWithoutStorageClass(r) ==
  WholeIf(r.kind = "PersistentVolumeClaim" /\ r.storageClassName = Unset)

\* K8S-013
NoGracePeriod(r) == WholeIf(IsWorkload(r) /\ ~r.gracePeriod)

\* The rules that look at one resource only.
OwnChecks(r) ==
  ({1} \X RootUser(r)) \cup ({2} \X Privileged(r)) \cup ({3} \X HardcodedSecret(r))
    \cup ({4} \X HostNamespaces(r)) \cup ({5} \X MissingResources(r))
    \cup ({6} \X MissingProbes(r)) \cup ({8} \X UnpinnedImage(r))
    \cup ({9} \X NoReplicaCount(r)) \cup ({11} \X MissingCostLabels(r))
    \cup ({12} \X PVCWithoutStorageClass(r)) \cup ({13} \X NoGracePeriod(r))

\* What the registered rules find in r: pairs of a rule and a place.
Check(r, all) ==
  OwnChecks(r) \cup ({7} \X MissingPDB(r, all)) \cup ({10} \X NoNetworkPolicy(r, all))

SeverityRank(rule) == IF rule <= 4 THEN 0 ELSE IF rule <= 10 THEN 1 ELSE 2

\* Pairs of a position and what is found there.
Violations(dir) == UNION {{pos} \X Check(At(dir, pos), Resources(dir)) : pos \in Parse(dir)}

\* The keys of the stable sort: severity, rule and name, then the order of
\* generation, which is that of documents and places.  Names are numbers here.
SortKey(dir, pos, v) ==
  <<SeverityRank(v[1]), v[1], At(dir, pos).name, pos[1], pos[2], v[2][1], v[2][2]>>

\* A bug: by name first.
BeforeByName(a, b) ==
  LET x == <<a[3]>> \o a  y == <<b[3]>> \o b
  IN \E n \in DOMAIN x : x[n] < y[n] /\ \A m \in 1 .. n - 1 : x[m] = y[m]

Before(a, b) == \E n \in DOMAIN a : a[n] < b[n] /\ \A m \in 1 .. n - 1 : a[m] = b[m]

\* RunAll, as the sequence of sort keys: each tells its violation.
RunAll(dir) ==
  LET keys == {SortKey(dir, x[1], x[2]) : x \in Violations(dir)}
      rank == [k \in keys |-> 1 + Cardinality({j \in keys : Before(j, k)})]
  IN [n \in 1 .. Cardinality(keys) |-> CHOOSE k \in keys : rank[k] = n]
=============================================================================
