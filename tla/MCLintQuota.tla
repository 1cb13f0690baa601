----------------------------- MODULE MCLintQuota -----------------------------
(* Small instances of LintQuota for TLC. *)
EXTENDS LintQuota, TLC

\* The limits of limits.go scaled down, in the same order.
SmallLimits == [free |-> 1, team |-> 2, pro |-> 0]

AllSteps == {"authenticate", "getSubscription", "getUsage", "increment", "save", "crash"}

Sym == Permutations(Users) \cup Permutations(Workers)
=============================================================================
