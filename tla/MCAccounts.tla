------------------------------ MODULE MCAccounts ------------------------------
(* Small instances of Accounts for TLC. *)
EXTENDS Accounts, TLC

CONSTANTS e1, e2

\* An account that shows its address, and accounts that hide it behind a verified
\* or an unverified primary one.
SmallProfiles ==
  {[email |-> e2, primary |-> e2, verified |-> TRUE]}
    \cup {[email |-> None, primary |-> e1, verified |-> v] : v \in BOOLEAN}

\* A hidden address, so that a callback makes every call it can.
OneProfile == {[email |-> None, primary |-> e1, verified |-> TRUE]}

Sym == Permutations(Browsers) \cup Permutations(GoogleIds) \cup Permutations(Workers)
===============================================================================
