--------------------------- MODULE MigrationsProofs ---------------------------
(***************************************************************************)
(* Proofs about Migrations, for any servers, releases, number of           *)
(* migrations and failures.                                                *)
(***************************************************************************)
EXTENDS Migrations, TLAPS

\* A server past the loop head is at a migration of its release, and everything
\* before the migration it is at is committed.
LoopInv ==
  \A s \in Servers :
    /\ pc[s] \in {"apply", "record", "commit"} => next[s] <= release[s]
    /\ pc[s] = "serving" => next[s] > release[s]
    /\ pc[s] # "down" => \A m \in Migrations : m < next[s] => m \in recorded

\* The committed migrations are the first ones.
PrefixInv == \A m \in recorded, k \in Migrations : k < m => k \in recorded

\* The primary key: an uncommitted row is the only one for its migration.
KeyInv ==
  /\ \A s \in Servers : pc[s] = "commit" => next[s] \notin recorded
  /\ \A s, t \in Servers : pc[s] = "commit" /\ pc[t] = "commit" /\ next[s] = next[t] => s = t

CommitsInv == \A m \in Migrations : commits[m] = IF m \in recorded THEN 1 ELSE 0

IInv == TypeOK /\ LoopInv /\ PrefixInv /\ KeyInv /\ CommitsInv

LEMMA Bounds ==
  ASSUME TypeOK
  PROVE  /\ LastMigration \in Nat
         /\ \A s \in Servers : /\ release[s] \in Nat /\ release[s] <= LastMigration
                               /\ next[s] \in Nat /\ next[s] >= 1
                               /\ next[s] <= release[s] => next[s] \in Migrations
<1>1. LastMigration \in Nat /\ Releases \subseteq 0..LastMigration
  BY MigrationsAssumption
<1> SUFFICES ASSUME NEW s \in Servers
             PROVE  /\ release[s] \in Nat /\ release[s] <= LastMigration
                    /\ next[s] \in Nat /\ next[s] >= 1
                    /\ next[s] <= release[s] => next[s] \in Migrations
  BY <1>1
<1>2. release[s] \in 0..LastMigration /\ next[s] \in 1..(LastMigration + 1)
  BY <1>1 DEF TypeOK
<1> QED
  BY <1>1, <1>2 DEF Migrations

LEMMA FaultType == faults \in 0..MaxFaults /\ Fails => faults' \in 0..MaxFaults
  BY MigrationsAssumption DEF Fails

LEMMA InitInv == Init => IInv
<1> SUFFICES ASSUME Init
             PROVE  IInv
  OBVIOUS
<1>1. LastMigration \in Nat /\ MaxFaults \in Nat
  BY MigrationsAssumption
<1>2. next \in [Servers -> 1..(LastMigration + 1)] /\ faults \in 0..MaxFaults
  BY <1>1 DEF Init
<1>3. commits \in [Migrations -> Nat]
  BY DEF Init
<1>4. hasTable \in BOOLEAN /\ recorded \subseteq Migrations
  BY DEF Init
<1>5. pc \in [Servers -> {"down", "createTable", "check", "apply", "record", "commit", "serving"}]
  BY DEF Init
<1>6. TypeOK
  BY <1>2, <1>3, <1>4, <1>5 DEF Init, TypeOK
<1> QED
  BY <1>1, <1>6 DEF Init, IInv, LoopInv, PrefixInv, KeyInv, CommitsInv

\* A step that commits nothing and changes one server's pc, and perhaps its
\* next migration and release.
LEMMA QuietStep ==
  ASSUME IInv, NEW s \in Servers, NEW there, Goto(s, there),
         there \in {"down", "createTable", "check", "apply", "record", "commit", "serving"},
         hasTable' \in BOOLEAN, recorded' = recorded, commits' = commits, faults' \in 0..MaxFaults,
         next' \in [Servers -> 1..(LastMigration + 1)], release' \in [Servers -> Releases],
         \A t \in Servers : t # s => next'[t] = next[t] /\ release'[t] = release[t],
         there \in {"apply", "record", "commit"} => next'[s] <= release'[s],
         there = "serving" => next'[s] > release'[s],
         there # "down" => \A m \in Migrations : m < next'[s] => m \in recorded,
         there = "commit" => next'[s] \notin recorded /\
           \A t \in Servers : t # s => ~(pc[t] = "commit" /\ next[t] = next'[s])
  PROVE  IInv'
<1>1. /\ pc' \in [Servers -> {"down", "createTable", "check", "apply", "record", "commit", "serving"}]
      /\ pc'[s] = there
      /\ \A t \in Servers : t # s => pc'[t] = pc[t]
  BY DEF Goto, IInv, TypeOK
<1>2. TypeOK'
  BY <1>1 DEF IInv, TypeOK
<1>3. LoopInv'
  BY <1>1 DEF IInv, LoopInv
<1>4. PrefixInv' /\ CommitsInv'
  BY DEF IInv, PrefixInv, CommitsInv
<1>5. KeyInv'
  BY <1>1 DEF IInv, KeyInv
<1> QED
  BY <1>2, <1>3, <1>4, <1>5 DEF IInv

\* A server that exits leaves nothing behind but its next migration.
LEMMA ExitStep ==
  ASSUME IInv, NEW s \in Servers, Goto(s, "down"), hasTable' = hasTable, recorded' = recorded,
         commits' = commits, next' = next, release' = release, faults' \in 0..MaxFaults
  PROVE  IInv'
<1>1. hasTable' \in BOOLEAN /\ next' \in [Servers -> 1..(LastMigration + 1)]
      /\ release' \in [Servers -> Releases]
  BY DEF IInv, TypeOK
<1> QED
  BY <1>1, QuietStep

\* The step that commits: what the primary key and the loop say of it.
LEMMA CommitStep ==
  ASSUME IInv, NEW s \in Servers, pc[s] = "commit"
  PROVE  /\ next[s] \in Migrations /\ next[s] \notin recorded
         /\ commits[next[s]] = 0
         /\ \A m \in Migrations : m < next[s] <=> m \in recorded
<1>1. next[s] \in Migrations
  BY Bounds DEF IInv, LoopInv
<1>2. next[s] \notin recorded
  BY DEF IInv, KeyInv
<1>3. commits[next[s]] = 0
  BY <1>1, <1>2 DEF IInv, CommitsInv
<1>4. \A m \in Migrations : m < next[s] => m \in recorded
  BY DEF IInv, LoopInv
<1>5. ASSUME NEW m \in Migrations, m \in recorded
      PROVE  m < next[s]
  <2>1. m # next[s] /\ ~(next[s] < m)
    BY <1>1, <1>2, <1>5 DEF IInv, PrefixInv
  <2> QED
    BY <1>1, <2>1 DEF Migrations
<1> QED
  BY <1>1, <1>2, <1>3, <1>4, <1>5

LEMMA CommittedStep ==
  ASSUME IInv, NEW s \in Servers, pc[s] = "commit",
         recorded' = recorded \cup {next[s]}, commits' = [commits EXCEPT ![next[s]] = @ + 1],
         hasTable' = hasTable, release' = release, faults' \in 0..MaxFaults,
         \/ Goto(s, "check") /\ next' = [next EXCEPT ![s] = @ + 1]
         \/ Goto(s, "down") /\ next' = next
  PROVE  IInv'
<1> DEFINE m == next[s]
<1>1. /\ m \in Migrations /\ m \notin recorded /\ commits[m] = 0
      /\ \A k \in Migrations : k < m <=> k \in recorded
  BY CommitStep
<1>2. PICK there \in {"check", "down"} :
        /\ Goto(s, there)
        /\ there = "check" => next' = [next EXCEPT ![s] = @ + 1]
        /\ there = "down" => next' = next
  OBVIOUS
<1>3. /\ pc' \in [Servers -> {"down", "createTable", "check", "apply", "record", "commit", "serving"}]
      /\ pc'[s] = there
      /\ \A t \in Servers : t # s => pc'[t] = pc[t]
  BY <1>2 DEF Goto, IInv, TypeOK
<1>4. LastMigration \in Nat /\ m \in Nat /\ m + 1 \in 1..(LastMigration + 1)
  BY <1>1, MigrationsAssumption DEF Migrations
<1>5. /\ next' \in [Servers -> 1..(LastMigration + 1)]
      /\ \A t \in Servers : t # s => next'[t] = next[t]
      /\ there = "check" => next'[s] = m + 1
  BY <1>2, <1>4 DEF IInv, TypeOK
<1>6. /\ commits' \in [Migrations -> Nat]
      /\ commits'[m] = 1
      /\ \A k \in Migrations : k # m => commits'[k] = commits[k]
  BY <1>1 DEF IInv, TypeOK
<1>7. TypeOK'
  BY <1>1, <1>3, <1>5, <1>6 DEF IInv, TypeOK
<1>8. LoopInv'
  <2> SUFFICES ASSUME NEW t \in Servers
               PROVE  /\ pc'[t] \in {"apply", "record", "commit"} => next'[t] <= release[t]
                      /\ pc'[t] = "serving" => next'[t] > release[t]
                      /\ pc'[t] # "down" => \A k \in Migrations : k < next'[t] => k \in recorded'
    BY DEF LoopInv
  <2>1. CASE t = s
    <3>1. \A k \in Migrations : k < m + 1 => k = m \/ k < m
      BY <1>4 DEF Migrations
    <3> QED
      BY <1>1, <1>3, <1>5, <2>1, <3>1
  <2>2. CASE t # s
    BY <1>3, <1>5, <2>2 DEF IInv, LoopInv
  <2> QED
    BY <2>1, <2>2
<1>9. PrefixInv'
  <2> SUFFICES ASSUME NEW j \in recorded', NEW k \in Migrations, k < j
               PROVE  k \in recorded
    BY DEF PrefixInv
  <2>1. CASE j = m
    BY <1>1, <2>1
  <2>2. CASE j # m
    BY <2>2 DEF IInv, PrefixInv
  <2> QED
    BY <2>1, <2>2
<1>10. KeyInv'
  <2>1. ASSUME NEW t \in Servers, pc'[t] = "commit"
        PROVE  t # s /\ pc[t] = "commit" /\ next'[t] = next[t]
    BY <1>3, <1>5, <2>1
  <2>2. ASSUME NEW t \in Servers, pc'[t] = "commit"
        PROVE  next'[t] \notin recorded'
    <3>1. next[t] \notin recorded /\ next[t] # m
      BY <2>1, <2>2 DEF IInv, KeyInv
    <3> QED
      BY <2>1, <2>2, <3>1
  <2>3. ASSUME NEW t \in Servers, NEW u \in Servers, pc'[t] = "commit", pc'[u] = "commit",
               next'[t] = next'[u]
        PROVE  t = u
    BY <2>1, <2>3 DEF IInv, KeyInv
  <2> QED
    BY <2>2, <2>3 DEF KeyInv
<1>11. CommitsInv'
  BY <1>1, <1>6 DEF IInv, CommitsInv
<1> QED
  BY <1>7, <1>8, <1>9, <1>10, <1>11 DEF IInv

LEMMA InvNext == IInv /\ [Next]_vars => IInv'
<1> SUFFICES ASSUME IInv, [Next]_vars
             PROVE  IInv'
  OBVIOUS
<1>0. /\ faults \in 0..MaxFaults /\ hasTable \in BOOLEAN
      /\ next \in [Servers -> 1..(LastMigration + 1)] /\ release \in [Servers -> Releases]
  BY DEF IInv, TypeOK
<1>b. /\ LastMigration \in Nat
      /\ \A s \in Servers : /\ release[s] \in Nat /\ release[s] <= LastMigration
                            /\ next[s] \in Nat /\ next[s] >= 1
  BY Bounds DEF IInv
<1>l. \A s \in Servers : pc[s] # "down" => \A m \in Migrations : m < next[s] => m \in recorded
  BY DEF IInv, LoopInv
<1>1. ASSUME NEW s \in Servers, NEW r \in Releases, Start(s, r)
      PROVE  IInv'
  <2>1. Goto(s, "createTable") /\ UNCHANGED <<database, faults>>
    BY <1>1 DEF Start
  <2>2. /\ next' \in [Servers -> 1..(LastMigration + 1)] /\ next'[s] = 1
        /\ release' \in [Servers -> Releases]
        /\ \A t \in Servers : t # s => next'[t] = next[t] /\ release'[t] = release[t]
    BY <1>0, <1>1, <1>b DEF Start
  <2>3. \A m \in Migrations : ~(m < next'[s])
    BY <2>2 DEF Migrations
  <2> QED
    BY <1>0, <2>1, <2>2, <2>3, QuietStep DEF database
<1>2. ASSUME NEW s \in Servers, CreateTable(s)
      PROVE  IInv'
  <2>1. faults' \in 0..MaxFaults
    BY <1>0, <1>2, FaultType DEF CreateTable
  <2>2. CASE Goto(s, "check") /\ hasTable' = TRUE
    BY <1>0, <1>2, <1>l, <2>1, <2>2, QuietStep DEF CreateTable
  <2>3. CASE Goto(s, "down") /\ hasTable' = hasTable
    BY <1>2, <2>1, <2>3, ExitStep DEF CreateTable
  <2> QED
    BY <1>2, <2>2, <2>3 DEF CreateTable
<1>3. ASSUME NEW s \in Servers, Check(s)
      PROVE  IInv'
  <2>1. faults' \in 0..MaxFaults /\ UNCHANGED <<hasTable, recorded, commits, release>>
    BY <1>0, <1>3, FaultType DEF Check, database
  <2>2. CASE next[s] > release[s] /\ Goto(s, "serving") /\ UNCHANGED next
    BY <1>0, <1>3, <1>l, <2>1, <2>2, QuietStep DEF Check
  <2>3. CASE next[s] <= release[s] /\ next[s] \in recorded /\ next' = [next EXCEPT ![s] = @ + 1]
             /\ UNCHANGED pc
    <3>1. next[s] + 1 \in 1..(LastMigration + 1)
      BY <1>b, <2>3
    <3>2. /\ next' \in [Servers -> 1..(LastMigration + 1)] /\ next'[s] = next[s] + 1
          /\ \A t \in Servers : t # s => next'[t] = next[t]
      BY <1>0, <2>3, <3>1
    <3>3. \A m \in Migrations : m < next[s] + 1 => m \in recorded
      <4>1. \A m \in Migrations : m < next[s] + 1 => m < next[s] \/ m = next[s]
        BY <1>b DEF Migrations
      <4> QED
        BY <1>3, <1>l, <2>3, <4>1 DEF Check
    <3>4. Goto(s, "check")
      BY <1>3, <2>3 DEF Goto, Check, IInv, TypeOK
    <3> QED
      BY <1>0, <2>1, <3>2, <3>3, <3>4, QuietStep
  <2>4. CASE next[s] <= release[s] /\ Goto(s, "apply") /\ UNCHANGED next
    BY <1>0, <1>3, <1>l, <2>1, <2>4, QuietStep DEF Check
  <2>5. CASE Goto(s, "down") /\ UNCHANGED next
    BY <2>1, <2>5, ExitStep
  <2> QED
    BY <1>3, <2>2, <2>3, <2>4, <2>5 DEF Check
<1>4. ASSUME NEW s \in Servers, Apply(s)
      PROVE  IInv'
  <2>1. faults' \in 0..MaxFaults /\ UNCHANGED <<hasTable, recorded, commits, next, release>>
    BY <1>0, <1>4, FaultType DEF Apply, database
  <2>2. CASE Goto(s, "record")
    <3>1. next[s] <= release[s]
      BY <1>4 DEF Apply, IInv, LoopInv
    <3> QED
      BY <1>0, <1>4, <1>l, <2>1, <2>2, <3>1, QuietStep DEF Apply
  <2>3. CASE Goto(s, "down")
    BY <2>1, <2>3, ExitStep
  <2> QED
    BY <1>4, <2>2, <2>3 DEF Apply
<1>5. ASSUME NEW s \in Servers, Record(s)
      PROVE  IInv'
  <2>1. faults' \in 0..MaxFaults /\ UNCHANGED <<hasTable, recorded, commits, next, release>>
    BY <1>0, <1>5, FaultType DEF Record, database
  <2>2. CASE next[s] \notin recorded /\ Goto(s, "commit")
    <3>1. next[s] <= release[s]
      BY <1>5 DEF Record, IInv, LoopInv
    <3> QED
      BY <1>0, <1>5, <1>l, <2>1, <2>2, <3>1, QuietStep DEF Record
  <2>3. CASE Goto(s, "down")
    BY <2>1, <2>3, ExitStep
  <2> QED
    BY <1>5, <2>2, <2>3 DEF Record
<1>6. ASSUME NEW s \in Servers, Commit(s)
      PROVE  IInv'
  <2>1. faults' \in 0..MaxFaults /\ UNCHANGED <<hasTable, release>>
    BY <1>0, <1>6, FaultType DEF Commit
  <2>2. CASE recorded' = recorded \cup {next[s]} /\ commits' = [commits EXCEPT ![next[s]] = @ + 1]
    BY <1>6, <2>1, <2>2, CommittedStep DEF Commit
  <2>3. CASE Goto(s, "down") /\ UNCHANGED <<recorded, commits, next>>
    BY <2>1, <2>3, ExitStep
  <2> QED
    BY <1>6, <2>2, <2>3 DEF Commit
<1>7. ASSUME NEW s \in Servers, Crash(s)
      PROVE  IInv'
  BY <1>0, <1>7, FaultType, ExitStep DEF Crash, Exit, database
<1>8. ASSUME NEW s \in Servers, Stop(s)
      PROVE  IInv'
  BY <1>0, <1>8, ExitStep DEF Stop, Exit, database
<1>9. CASE UNCHANGED vars
  BY <1>9 DEF vars, database, server, IInv, TypeOK, LoopInv, PrefixInv, KeyInv, CommitsInv
<1> QED
  BY <1>1, <1>2, <1>3, <1>4, <1>5, <1>6, <1>7, <1>8, <1>9 DEF Next, Boot

\* Only a commit moves recorded, and it adds the migration after the last.
LEMMA OrderNext == IInv /\ [Next]_vars => CommitsTheNext
<1> SUFFICES ASSUME IInv, [Next]_vars, recorded' # recorded
             PROVE  \E m \in Migrations : recorded = 1..(m - 1) /\ recorded' = 1..m
  BY DEF CommitsTheNext
<1>1. PICK s \in Servers : Commit(s)
  BY DEF Next, Boot, Start, CreateTable, Check, Apply, Record, Crash, Stop, vars, database
<1>2. pc[s] = "commit" /\ recorded' = recorded \cup {next[s]}
  BY <1>1 DEF Commit
<1>3. /\ next[s] \in Migrations
      /\ \A k \in Migrations : k < next[s] <=> k \in recorded
  BY <1>2, CommitStep
<1>4. recorded \subseteq Migrations /\ LastMigration \in Nat
  BY Bounds DEF IInv, TypeOK
<1>5. recorded = 1..(next[s] - 1)
  <2>1. next[s] \in Nat /\ 1 <= next[s] /\ next[s] <= LastMigration
    BY <1>3, <1>4 DEF Migrations
  <2>2. ASSUME NEW k, k \in recorded
        PROVE  k \in 1..(next[s] - 1)
    <3>1. k \in Migrations /\ k < next[s]
      BY <1>3, <1>4, <2>2
    <3> QED
      BY <2>1, <3>1 DEF Migrations
  <2>3. ASSUME NEW k \in 1..(next[s] - 1)
        PROVE  k \in recorded
    <3>1. k \in Migrations /\ k < next[s]
      BY <1>4, <2>1 DEF Migrations
    <3> QED
      BY <1>3, <3>1
  <2> QED
    BY <2>2, <2>3
<1>6. recorded' = 1..next[s]
  BY <1>2, <1>3, <1>5 DEF Migrations
<1> QED
  BY <1>3, <1>5, <1>6

-----------------------------------------------------------------------------
(* The theorems.                                                           *)

\* The strengthened invariant holds in every reachable state.
THEOREM Inductive == Spec => []IInv
  BY InitInv, InvNext, PTL DEF Spec

\* Every reachable state is well typed.
THEOREM TypeCorrect == Spec => []TypeOK
<1>1. IInv => TypeOK
  BY DEF IInv
<1> QED
  BY <1>1, Inductive, PTL

\* No server of any release listens before all its migrations are committed,
\* however many servers start together and wherever they crash.
THEOREM ServingSafe == Spec => []ServingHasSchema
<1>1. IInv => ServingHasSchema
  <2> SUFFICES ASSUME IInv, NEW s \in Servers, pc[s] = "serving", NEW m \in 1..release[s]
               PROVE  m \in recorded
    BY DEF ServingHasSchema
  <2>1. release[s] \in Nat /\ release[s] <= LastMigration /\ next[s] \in Nat /\ LastMigration \in Nat
    BY Bounds DEF IInv
  <2>2. next[s] > release[s] /\ \A k \in Migrations : k < next[s] => k \in recorded
    BY DEF IInv, LoopInv
  <2>3. m \in Migrations /\ m < next[s]
    BY <2>1, <2>2 DEF Migrations
  <2> QED
    BY <2>2, <2>3
<1> QED
  BY <1>1, Inductive, PTL

\* No migration is committed twice, although its check is outside the transaction.
THEOREM CommittedOnceSafe == Spec => []CommittedOnce
<1>1. IInv => CommittedOnce
  BY DEF IInv, CommitsInv, CommittedOnce
<1> QED
  BY <1>1, Inductive, PTL

\* Migrations are committed one by one in order, and never undone.
THEOREM OrderSafe == Spec => AppliedInOrder
<1>1. IInv /\ [Next]_vars => [CommitsTheNext]_vars
  BY OrderNext
<1> QED
  BY <1>1, Inductive, PTL DEF Spec, AppliedInOrder
=============================================================================
