---------------------------- MODULE MCLintReport ----------------------------
(* A small instance of LintReport for TLC. *)
EXTENDS LintReport, TLC

Doc(kind, name, ns, fields) == [kind |-> kind, name |-> name, ns |-> ns, yaml |-> "ok", bytes |-> 1] @@ fields

Image(tag, digest) == [tag |-> tag, digest |-> digest]

Container(nonRoot, privileged, env, requests, limits, probes, image) ==
  [nonRoot |-> nonRoot, privileged |-> privileged, env |-> env, requests |-> requests,
   limits |-> limits, liveness |-> TRUE, readiness |-> probes, image |-> image]

Both(cpu, memory) == [cpu |-> cpu, memory |-> memory]
Nothing == [x \in {} |-> 0]

Sound == Container(Unset, FALSE, <<>>, Both(1, 2), Both(3, 2), TRUE, Image("1.25", FALSE))
Pinned == Container(TRUE, FALSE, <<[literal |-> FALSE, valueFrom |-> TRUE, looksLikeSecretName |-> TRUE]>>,
                    Both(1, 1), [cpu |-> 1], FALSE, Image("latest", TRUE))
Rooted == Container(FALSE, FALSE, <<>>, Nothing, Nothing, TRUE, Image("latest", FALSE))
Careless == Container(Unset, TRUE, <<[literal |-> TRUE, valueFrom |-> FALSE, looksLikeSecretName |-> TRUE]>>,
                      Nothing, Both(2, 1), FALSE, Image("", FALSE))
Zeros == Container(TRUE, FALSE, <<>>, Both(0, 0), Both(0, 0), TRUE, Image("1", FALSE))
Inverted == Container(TRUE, FALSE, <<>>, Both(3, 3), Both(1, 1), TRUE, Image("1", FALSE))

Pods(nonRoot, init, containers, hosts, replicas) ==
  [nonRoot |-> nonRoot, init |-> init, containers |-> containers, hostNamespaces |-> hosts,
   replicas |-> replicas, podLabels |-> {"app", "tier"}, costLabel |-> hosts = {},
   gracePeriod |-> hosts = {}]

\* Workloads: a sound one, one whose init container runs as root, one without any
\* care, of another namespace, and one no cluster would accept; two that are noted
\* as unpriced, one of which writes zeros and has nothing to show under K8S-005, and
\* one without containers; then what the rules look at besides, and documents that
\* are not resources.
SmallDocuments ==
  { Doc("Deployment", 2, "", Pods(TRUE, <<>>, <<Sound>>, {}, 2)),
    Doc("StatefulSet", 1, "", Pods(TRUE, <<Rooted>>, <<Pinned>>, {}, 3)),
    [Doc("Deployment", 1, "default", Pods(Unset, <<>>, <<Careless>>, {"hostPID"}, Unset)) EXCEPT !.bytes = 3],
    Doc("StatefulSet", 3, "", Pods(TRUE, <<>>, <<Inverted>>, {}, -1)),
    Doc("DaemonSet", 1, "", Pods(TRUE, <<Rooted>>, <<Zeros>>, {}, Unset)),
    Doc("Pod", 2, "", Pods(TRUE, <<>>, <<Zeros>>, {}, Unset)),
    Doc("Pod", 3, "", Pods(TRUE, <<>>, <<>>, {}, Unset)),
    Doc("PodDisruptionBudget", 1, "", [selector |-> {"app"}]),
    Doc("PodDisruptionBudget", 2, "", [selector |-> {}]),
    Doc("PodDisruptionBudget", 1, "default", [selector |-> {"app"}]),
    Doc("NetworkPolicy", 1, "default", <<>>),
    Doc("PersistentVolumeClaim", 1, "", [storageClassName |-> Unset, size |-> 3]),
    Doc("PersistentVolumeClaim", 2, "", [storageClassName |-> "fast", size |-> 1]),
    [Doc("Pod", 1, "", <<>>) EXCEPT !.yaml = "mistyped"],
    [Doc("List", 1, "", <<>>) EXCEPT !.yaml = "mistyped"],
    [Doc("", 1, "", <<>>) EXCEPT !.yaml = "blank"] }

SmallPricing ==
  "aws" :> [vcpuHour |-> 3, gibHour |-> 1, hoursPerMonth |-> 7,
            storage |-> [default |-> 7, fast |-> 13]]
=============================================================================
