---------------------------- MODULE RateLimitProofs ----------------------------
(***************************************************************************)
(* Proofs about RateLimit for any numbers of addresses and callers, any    *)
(* burst and any grain of time.                                            *)
(***************************************************************************)
EXTENDS RateLimit, FiniteSetTheorems, SequenceTheorems, TLAPS

USE RateAssumption

LEMMA CapacityNat == Capacity \in Nat
BY DEF Capacity

-------------------------------------------------------------------------------
(* A caller holds the limiter of its address, and no two addresses share one. *)
HeldOK ==
  \A c \in Callers : callers[c] # None =>
    /\ callers[c].address \in DOMAIN limiters
    /\ callers[c].lim = limiters[callers[c].address]

(* What an address has spent and what it has left were granted. *)
SpentOK == \A a \in Addresses : spent[a] + Left(a) <= granted

IInv == TypeOK /\ HeldOK /\ OneLimiterEach /\ SpentOK

LEMMA LeftBounded ==
  ASSUME TypeOK, NEW a \in Addresses
  PROVE  Left(a) \in 0 .. Capacity
BY CapacityNat DEF TypeOK, Left

LEMMA InitOK == Init => IInv
<1> SUFFICES ASSUME Init PROVE IInv
  OBVIOUS
<1> USE CapacityNat
<1>1. DOMAIN limiters = {} /\ DOMAIN tokens = {} /\ Len(tokens) = 0
  BY DEF Init, NoLimiters
<1>2. TypeOK
  <2>1. limiters \in [DOMAIN limiters -> DOMAIN tokens]
    BY DEF Init, NoLimiters
  <2>2. tokens \in Seq(0 .. Capacity)
    BY DEF Init
  <2> QED
    BY <1>1, <2>1, <2>2 DEF Init, TypeOK
<1>3. HeldOK
  BY DEF Init, HeldOK
<1>4. OneLimiterEach
  BY <1>1, FS_EmptySet DEF OneLimiterEach
<1>5. SpentOK
  BY <1>1 DEF Init, SpentOK, Left
<1> QED
  BY <1>2, <1>3, <1>4, <1>5 DEF IInv

(* A caller whose address is known: only that caller changes. *)
LEMMA LookupKnownOK ==
  ASSUME IInv, NEW c \in Callers, NEW a \in Addresses, a \in DOMAIN limiters,
         callers' = [callers EXCEPT ![c] = [address |-> a, lim |-> limiters[a]]],
         UNCHANGED <<memory, answer, window>>
  PROVE  IInv'
<1> USE DEF IInv, memory, window
<1>1. TypeOK'
  <2>1. limiters[a] \in DOMAIN tokens /\ limiters[a] \in Nat
    BY DEF TypeOK
  <2>2. [address |-> a, lim |-> limiters[a]] \in Calls
    BY <2>1 DEF Calls
  <2> QED
    BY <2>1, <2>2 DEF TypeOK
<1>2. HeldOK'
  BY DEF HeldOK, TypeOK
<1>3. OneLimiterEach' /\ SpentOK'
  BY DEF OneLimiterEach, SpentOK, Left
<1> QED
  BY <1>1, <1>2, <1>3

(* A caller whose address is new: a full limiter is added, and what the address *)
(* has left is a full bucket before and after.                                  *)
LEMMA LookupNewOK ==
  ASSUME IInv, NEW c \in Callers, NEW a \in Addresses, a \notin DOMAIN limiters,
         tokens' = Append(tokens, Capacity),
         limiters' = [b \in DOMAIN limiters \cup {a} |->
                        IF b = a THEN Len(tokens) + 1 ELSE limiters[b]],
         callers' = [callers EXCEPT ![c] = [address |-> a, lim |-> Len(tokens) + 1]],
         UNCHANGED <<answer, window>>
  PROVE  IInv' /\ \A b \in Addresses : Left(b)' = Left(b)
<1> USE CapacityNat DEF IInv, window
<1>1. /\ Len(tokens) \in Nat /\ DOMAIN tokens = 1 .. Len(tokens)
      /\ DOMAIN tokens' = 1 .. Len(tokens) + 1 /\ Len(tokens') = Len(tokens) + 1
      /\ tokens' \in Seq(0 .. Capacity)
      /\ \A l \in DOMAIN tokens : tokens'[l] = tokens[l]
      /\ tokens'[Len(tokens) + 1] = Capacity
  BY DEF TypeOK
<1>2. /\ DOMAIN limiters' = DOMAIN limiters \cup {a}
      /\ limiters'[a] = Len(tokens) + 1
      /\ \A b \in DOMAIN limiters : limiters'[b] = limiters[b] /\ limiters[b] \in DOMAIN tokens
  BY DEF TypeOK
<1>3. TypeOK'
  <2>1. limiters' \in [DOMAIN limiters' -> DOMAIN tokens']
    BY <1>1, <1>2
  <2>2. [address |-> a, lim |-> Len(tokens) + 1] \in Calls
    BY <1>1 DEF Calls
  <2>3. callers' \in [Callers -> Calls \cup {None}]
    BY <2>2 DEF TypeOK
  <2>4. \A d \in Callers : callers'[d] # None => callers'[d].lim \in DOMAIN tokens'
    BY <1>1 DEF TypeOK
  <2> QED
    BY <1>1, <1>2, <2>1, <2>3, <2>4 DEF TypeOK
<1>4. HeldOK'
  BY <1>2 DEF HeldOK, TypeOK
<1>5. OneLimiterEach'
  <2>1. IsFiniteSet(DOMAIN limiters)
    BY FS_Subset DEF TypeOK
  <2>2. Cardinality(DOMAIN limiters') = Cardinality(DOMAIN limiters) + 1
    BY <1>2, <2>1, FS_AddElement
  <2> QED
    BY <1>1, <1>2, <2>2 DEF OneLimiterEach
<1>6. \A b \in Addresses : Left(b)' = Left(b)
  BY <1>1, <1>2 DEF Left
<1>7. SpentOK'
  BY <1>6 DEF SpentOK
<1> QED
  BY <1>3, <1>4, <1>5, <1>6, <1>7

(* An admitted call takes from the bucket of its own address what it spends. *)
LEMMA AdmitOK ==
  ASSUME IInv, NEW c \in Callers, callers[c] # None,
         NEW a \in Addresses, NEW l \in Nat, a = callers[c].address, l = callers[c].lim,
         tokens[l] >= Unit,
         tokens' = [tokens EXCEPT ![l] = @ - Unit],
         spent' = [spent EXCEPT ![a] = @ + Unit],
         callers' = [callers EXCEPT ![c] = None],
         answer' = <<a, TRUE>>,
         UNCHANGED <<limiters, granted>>
  PROVE  /\ IInv'
         /\ Left(a) >= Unit
         /\ Left(a)' = Left(a) - Unit
         /\ \A b \in Addresses \ {a} : Left(b)' = Left(b)
<1> USE CapacityNat DEF IInv
<1>1. /\ a \in Addresses /\ a \in DOMAIN limiters /\ l = limiters[a] /\ l \in DOMAIN tokens
      /\ tokens[l] \in 0 .. Capacity
  BY DEF TypeOK, HeldOK, Calls
<1>2. /\ DOMAIN tokens' = DOMAIN tokens /\ Len(tokens') = Len(tokens)
      /\ tokens' \in Seq(0 .. Capacity)
      /\ tokens'[l] = tokens[l] - Unit
      /\ \A k \in DOMAIN tokens \ {l} : tokens'[k] = tokens[k]
  <2>1. l \in 1 .. Len(tokens) /\ tokens \in Seq(0 .. Capacity) /\ tokens[l] - Unit \in 0 .. Capacity
    <3>1. tokens \in Seq(0 .. Capacity)
      BY DEF TypeOK
    <3>2. l \in 1 .. Len(tokens)
      BY <1>1, <3>1
    <3>3. tokens[l] - Unit \in 0 .. Capacity
      BY <1>1
    <3> QED
      BY <3>1, <3>2, <3>3
  <2>2. tokens' \in Seq(0 .. Capacity) /\ Len(tokens') = Len(tokens)
    BY <2>1, ExceptSeq
  <2>3. DOMAIN tokens' = DOMAIN tokens
    OBVIOUS
  <2> QED
    BY <1>1, <2>2, <2>3
<1>3. TypeOK'
  <2>1. callers' \in [Callers -> Calls \cup {None}]
    BY DEF TypeOK
  <2>2. \A d \in Callers : callers'[d] # None => callers'[d].lim \in DOMAIN tokens'
    BY <1>2 DEF TypeOK
  <2>3. answer' \in Addresses \X BOOLEAN
    OBVIOUS
  <2>4. spent' \in [Addresses -> Nat]
    BY DEF TypeOK
  <2>5. limiters' \in [DOMAIN limiters' -> DOMAIN tokens']
    BY <1>2 DEF TypeOK
  <2> QED
    BY <1>2, <2>1, <2>2, <2>3, <2>4, <2>5 DEF TypeOK
<1>4. HeldOK' /\ OneLimiterEach'
  BY <1>2 DEF HeldOK, OneLimiterEach, TypeOK
<1>5. Left(a) = tokens[l] /\ Left(a)' = tokens[l] - Unit
  BY <1>1, <1>2 DEF Left
<1>6. ASSUME NEW b \in Addresses \ {a} PROVE Left(b)' = Left(b)
  <2>1. CASE b \in DOMAIN limiters
    <3>1. limiters[b] # l /\ limiters[b] \in DOMAIN tokens
      BY <1>1, <2>1 DEF OneLimiterEach, TypeOK
    <3> QED
      BY <1>2, <2>1, <3>1 DEF Left
  <2>2. CASE b \notin DOMAIN limiters
    BY <2>2 DEF Left
  <2> QED
    BY <2>1, <2>2
<1>7. SpentOK'
  <2> SUFFICES ASSUME NEW b \in Addresses PROVE (spent[b] + Left(b) <= granted)'
    BY DEF SpentOK
  <2>1. /\ spent[b] \in Nat /\ Left(b) \in 0 .. Capacity /\ granted \in Nat
        /\ spent[b] + Left(b) <= granted
    BY LeftBounded DEF TypeOK, SpentOK
  <2>2. CASE b = a
    <3>1. spent'[b] = spent[b] + Unit /\ Left(b)' = Left(b) - Unit
      BY <1>5, <2>2 DEF TypeOK
    <3> QED
      BY <2>1, <3>1
  <2>3. CASE b # a
    <3>1. spent'[b] = spent[b] /\ Left(b)' = Left(b)
      BY <1>6, <2>3 DEF TypeOK
    <3> QED
      BY <2>1, <3>1
  <2> QED
    BY <2>2, <2>3
<1> QED
  BY <1>1, <1>3, <1>4, <1>5, <1>6, <1>7

(* A refused call leaves everything as it is. *)
LEMMA RefuseOK ==
  ASSUME IInv, NEW c \in Callers, callers[c] # None,
         NEW a \in Addresses, NEW l \in Nat, a = callers[c].address, l = callers[c].lim,
         tokens[l] < Unit,
         answer' = <<a, FALSE>>,
         callers' = [callers EXCEPT ![c] = None],
         UNCHANGED <<limiters, tokens, spent, granted>>
  PROVE  /\ IInv'
         /\ Left(a) < Unit
         /\ \A b \in Addresses : Left(b)' = Left(b)
<1> USE DEF IInv
<1>1. a \in Addresses /\ Left(a) < Unit
  BY DEF TypeOK, HeldOK, Calls, Left
<1>2. TypeOK' /\ HeldOK' /\ OneLimiterEach' /\ SpentOK'
  BY <1>1 DEF TypeOK, HeldOK, OneLimiterEach, SpentOK, Left
<1> QED
  BY <1>1, <1>2 DEF Left

LEMMA TickOK ==
  ASSUME IInv, Tick
  PROVE  /\ IInv'
         /\ \A a \in Addresses : Left(a)' = IF Left(a) < Capacity THEN Left(a) + 1 ELSE Capacity
<1> USE CapacityNat DEF IInv, Tick
<1>1. /\ DOMAIN tokens' = DOMAIN tokens /\ Len(tokens') = Len(tokens)
      /\ tokens' \in Seq(0 .. Capacity)
      /\ \A l \in DOMAIN tokens :
           tokens'[l] = IF tokens[l] < Capacity THEN tokens[l] + 1 ELSE Capacity
  BY DEF TypeOK
<1>2. TypeOK'
  BY <1>1 DEF TypeOK
<1>3. HeldOK' /\ OneLimiterEach'
  BY <1>1 DEF HeldOK, OneLimiterEach
<1>4. \A a \in Addresses : Left(a)' = IF Left(a) < Capacity THEN Left(a) + 1 ELSE Capacity
  BY <1>1 DEF Left, TypeOK
<1>5. SpentOK'
  <2> SUFFICES ASSUME NEW a \in Addresses PROVE (spent[a] + Left(a) <= granted)'
    BY DEF SpentOK
  <2>1. /\ spent[a] \in Nat /\ Left(a) \in 0 .. Capacity /\ granted \in Nat
        /\ spent[a] + Left(a) <= granted
    BY LeftBounded DEF TypeOK, SpentOK
  <2> QED
    BY <1>4, <2>1
<1> QED
  BY <1>2, <1>3, <1>4, <1>5

LEMMA RestartOK ==
  ASSUME IInv, Restart
  PROVE  IInv' /\ \A a \in Addresses : Left(a)' = Capacity
<1> USE CapacityNat DEF IInv, Restart
<1>1. DOMAIN limiters' = {} /\ DOMAIN tokens' = {} /\ Len(tokens') = 0
  BY DEF NoLimiters
<1>2. TypeOK'
  <2>1. limiters' \in [DOMAIN limiters' -> DOMAIN tokens']
    BY <1>1 DEF NoLimiters
  <2>2. tokens' \in Seq(0 .. Capacity)
    OBVIOUS
  <2> QED
    BY <1>1, <2>1, <2>2 DEF TypeOK
<1>3. HeldOK'
  BY DEF HeldOK
<1>4. OneLimiterEach'
  BY <1>1, FS_EmptySet DEF OneLimiterEach
<1>5. \A a \in Addresses : Left(a)' = Capacity
  BY <1>1 DEF Left
<1>6. SpentOK'
  <2>1. \A a \in Addresses : spent[a] \in Nat /\ Left(a) \in Nat
    BY LeftBounded DEF TypeOK
  <2> QED
    BY <1>5, <2>1 DEF SpentOK, TypeOK
<1> QED
  BY <1>2, <1>3, <1>4, <1>5, <1>6

LEMMA OpenWindowOK ==
  ASSUME IInv, OpenWindow
  PROVE  IInv' /\ \A a \in Addresses : Left(a)' = Left(a)
<1> USE CapacityNat DEF IInv, OpenWindow, memory
<1>1. TypeOK' /\ HeldOK' /\ OneLimiterEach'
  BY DEF TypeOK, HeldOK, OneLimiterEach
<1>2. \A a \in Addresses : Left(a)' = Left(a) /\ Left(a) \in 0 .. Capacity
  BY LeftBounded DEF Left
<1>3. SpentOK'
  BY <1>2 DEF SpentOK
<1> QED
  BY <1>1, <1>2, <1>3

-------------------------------------------------------------------------------
(* Each step maps to one of TokenBucket, on what the addresses have left. *)

left == [a \in Addresses |-> Left(a)]

LEMMA SameLeft ==
  ASSUME \A a \in Addresses : Left(a)' = Left(a)
  PROVE  left' = left
BY DEF left

LEMMA StepOK ==
  ASSUME IInv, [Next]_vars
  PROVE  IInv' /\ [Bucket!Next]_<<left, answer>>
<1> USE CapacityNat
<1>1. ASSUME NEW c \in Callers, NEW a \in Addresses, Lookup(c, a)
      PROVE  IInv' /\ \A b \in Addresses : Left(b)' = Left(b)
  <2>1. CASE a \in DOMAIN limiters
    <3>1. IInv'
      BY <1>1, <2>1, LookupKnownOK DEF Lookup
    <3> QED
      BY <1>1, <2>1, <3>1 DEF Lookup, memory, Left
  <2>2. CASE a \notin DOMAIN limiters
    BY <1>1, <2>2, LookupNewOK DEF Lookup
  <2> QED
    BY <2>1, <2>2
<1>2. ASSUME NEW c \in Callers, Allow(c)
      PROVE  IInv' /\ Bucket!Next
  <2>0. callers[c] # None /\ callers[c].address \in Addresses /\ callers[c].lim \in Nat
    BY <1>2 DEF Allow, IInv, TypeOK, Calls
  <2> PICK a \in Addresses, l \in Nat : a = callers[c].address /\ l = callers[c].lim
    BY <2>0
  <2>1. CASE tokens[l] >= Unit /\ tokens' = [tokens EXCEPT ![l] = @ - Unit]
               /\ spent' = [spent EXCEPT ![a] = @ + Unit] /\ answer' = <<a, TRUE>>
    <3>1. /\ IInv'
          /\ Left(a) >= Unit
          /\ Left(a)' = Left(a) - Unit
          /\ \A b \in Addresses \ {a} : Left(b)' = Left(b)
      BY <1>2, <2>0, <2>1, AdmitOK DEF Allow
    <3>2. left' = [left EXCEPT ![a] = left[a] - Unit]
      BY <3>1 DEF left
    <3>3. Bucket!Admit(a)
      BY <2>1, <3>1, <3>2 DEF Bucket!Admit, left
    <3> QED
      BY <3>1, <3>3 DEF Bucket!Next
  <2>2. CASE tokens[l] < Unit /\ answer' = <<a, FALSE>> /\ UNCHANGED <<tokens, spent>>
    <3>1. /\ IInv'
          /\ Left(a) < Unit
          /\ \A b \in Addresses : Left(b)' = Left(b)
      BY <1>2, <2>0, <2>2, RefuseOK DEF Allow
    <3>2. Bucket!Refuse(a)
      BY <2>2, <3>1, SameLeft DEF Bucket!Refuse, left
    <3> QED
      BY <3>1, <3>2 DEF Bucket!Next
  <2> QED
    BY <1>2, <2>1, <2>2 DEF Allow
<1>3. CASE Tick
  <2>1. /\ IInv'
        /\ \A a \in Addresses : Left(a)' = IF Left(a) < Capacity THEN Left(a) + 1 ELSE Capacity
    BY <1>3, TickOK
  <2>2. left' = [a \in Addresses |-> IF left[a] < Capacity THEN left[a] + 1 ELSE Capacity]
    BY <2>1 DEF left
  <2>3. Bucket!Wait
    BY <1>3, <2>2 DEF Tick, Bucket!Wait, left
  <2> QED
    BY <2>1, <2>3 DEF Bucket!Next
<1>4. CASE Restart
  <2>1. IInv' /\ left' = [a \in Addresses |-> Capacity]
    BY <1>4, RestartOK DEF left
  <2>2. Bucket!Restart
    BY <1>4, <2>1 DEF Restart, Bucket!Restart, Bucket!Full, left
  <2> QED
    BY <2>1, <2>2 DEF Bucket!Next
<1>5. CASE OpenWindow
  BY <1>5, OpenWindowOK, SameLeft DEF OpenWindow
<1>6. CASE UNCHANGED vars
  <2>1. IInv'
    BY <1>6 DEF vars, memory, window, IInv, TypeOK, HeldOK, OneLimiterEach, SpentOK, Left
  <2>2. left' = left /\ answer' = answer
    BY <1>6 DEF vars, memory, left, Left
  <2> QED
    BY <2>1, <2>2
<1>7. ASSUME NEW c \in Callers, NEW a \in Addresses, Lookup(c, a)
      PROVE  left' = left /\ answer' = answer
  BY <1>1, <1>7, SameLeft DEF Lookup
<1> QED
  BY <1>1, <1>2, <1>3, <1>4, <1>5, <1>6, <1>7 DEF Next

-------------------------------------------------------------------------------
(* The limiter's memory is well typed and what it grants adds up, in every  *)
(* reachable state.                                                         *)
THEOREM Inductive == Spec => []IInv
<1>1. Init => IInv
  BY InitOK
<1>2. IInv /\ [Next]_vars => IInv'
  BY StepOK
<1> QED
  BY <1>1, <1>2, PTL DEF Spec

(* Every variable stays in its range. *)
THEOREM TypeCorrect == Spec => []TypeOK
<1>1. IInv => TypeOK
  BY DEF IInv
<1> QED
  BY <1>1, Inductive, PTL

(* No address ever gets more than burst, time and restarts give it. *)
THEOREM RateSafe == Spec => []RateBounded
<1>1. IInv => RateBounded
  <2> SUFFICES ASSUME IInv, NEW a \in Addresses PROVE spent[a] <= granted
    BY DEF RateBounded
  <2>1. spent[a] \in Nat /\ Left(a) \in Nat /\ granted \in Nat /\ spent[a] + Left(a) <= granted
    BY LeftBounded, CapacityNat DEF IInv, TypeOK, SpentOK
  <2> QED
    BY <2>1
<1> QED
  BY <1>1, Inductive, PTL

(* The memory holds one limiter per address seen. *)
THEOREM MemorySafe == Spec => []OneLimiterEach
<1>1. IInv => OneLimiterEach
  BY DEF IInv
<1> QED
  BY <1>1, Inductive, PTL

(* The limiters, the map and its mutex implement one bucket per address. *)
THEOREM Implements == Spec => OwnBuckets
<1>1. Init => Bucket!Init
  <2> SUFFICES ASSUME Init PROVE Bucket!Init
    OBVIOUS
  <2>1. \A a \in Addresses : Left(a) = Capacity
    BY DEF Init, NoLimiters, Left
  <2> QED
    BY <2>1 DEF Init, Bucket!Init, Bucket!Full
<1>2. IInv /\ [Next]_vars => [Bucket!Next]_<<left, answer>>
  BY StepOK
<1>3. left = [a \in Addresses |-> Left(a)]
  BY DEF left
<1> QED
  BY <1>1, <1>2, <1>3, Inductive, PTL DEF Spec, OwnBuckets, Bucket!Spec, left
===============================================================================
