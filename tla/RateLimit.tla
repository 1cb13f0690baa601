------------------------------ MODULE RateLimit ------------------------------
(***************************************************************************)
(* lintRateLimiter of internal/api/middleware.go: one token bucket per     *)
(* client address, made on the first call from there and kept in memory.   *)
(* The map is searched and extended under a mutex; the bucket found is     *)
(* asked after the mutex is released.                                      *)
(***************************************************************************)
EXTENDS Naturals, Sequences, FiniteSets

CONSTANTS
  Addresses,  \* what clientIP returns: X-Forwarded-For, or else host and port
  Callers,    \* goroutines of requests to /v1/lint
  Unit,       \* grain of time: units of a token that come in a second
  Burst,      \* tokens of a full limiter
  MaxWindow,  \* bound: units granted in a window
  None        \* no value

Capacity == Burst * Unit

ASSUME RateAssumption ==
  /\ Unit \in Nat \ {0} /\ Burst \in Nat \ {0} /\ MaxWindow \in Nat
  /\ None \notin Addresses
  /\ IsFiniteSet(Addresses)

VARIABLES
  limiters,  \* the map: from the addresses seen to their limiters
  tokens,    \* the limiters made since the start, each with the units it holds
  callers,   \* the address and the limiter each caller has looked up, or None
  answer,    \* history: the last call answered
  spent,     \* history: units spent by each address in the window
  granted    \* history: units any one address may spend in the window

memory == <<limiters, tokens>>
window == <<spent, granted>>
vars == <<memory, callers, answer, window>>

Calls == [address : Addresses, lim : Nat]

TypeOK ==
  /\ DOMAIN limiters \subseteq Addresses
  /\ limiters \in [DOMAIN limiters -> DOMAIN tokens]
  /\ tokens \in Seq(0 .. Capacity)
  /\ callers \in [Callers -> Calls \cup {None}]
  /\ \A c \in Callers : callers[c] # None => callers[c].lim \in DOMAIN tokens
  /\ answer \in (Addresses \X BOOLEAN) \cup {None}
  /\ spent \in [Addresses -> Nat]
  /\ granted \in Nat

NoLimiters == [a \in {} |-> 0]

Init ==
  /\ limiters = NoLimiters
  /\ tokens = <<>>
  /\ callers = [c \in Callers |-> None]
  /\ answer = None
  /\ spent = [a \in Addresses |-> 0]
  /\ granted = Capacity

-----------------------------------------------------------------------------
\* A bug: a new limiter is not put into the map.
LookupForgotten(c, a) ==
  /\ callers[c] = None
  /\ \/ /\ a \in DOMAIN limiters
        /\ callers' = [callers EXCEPT ![c] = [address |-> a, lim |-> limiters[a]]]
        /\ UNCHANGED memory
     \/ /\ a \notin DOMAIN limiters /\ Len(tokens) < 3
        /\ tokens' = Append(tokens, Capacity)
        /\ callers' = [callers EXCEPT ![c] = [address |-> a, lim |-> Len(tokens)']]
        /\ UNCHANGED limiters
  /\ UNCHANGED <<answer, window>>

\* A bug: one limiter for all addresses.
LookupShared(c, a) ==
  /\ callers[c] = None
  /\ callers' = [callers EXCEPT ![c] = [address |-> a, lim |-> 1]]
  /\ limiters' = [b \in DOMAIN limiters \cup {a} |-> 1]
  /\ tokens' = IF tokens = <<>> THEN <<Capacity>> ELSE tokens
  /\ UNCHANGED <<answer, window>>

\* A call from a: its limiter, made full if a is new.
Lookup(c, a) ==
  /\ callers[c] = None
  /\ \/ /\ a \in DOMAIN limiters
        /\ callers' = [callers EXCEPT ![c] = [address |-> a, lim |-> limiters[a]]]
        /\ UNCHANGED memory
     \/ /\ a \notin DOMAIN limiters
        /\ tokens' = Append(tokens, Capacity)
        /\ limiters' = [b \in DOMAIN limiters \cup {a} |->
                          IF b = a THEN Len(tokens) + 1 ELSE limiters[b]]
        /\ callers' = [callers EXCEPT ![c] = [address |-> a, lim |-> Len(tokens) + 1]]
  /\ UNCHANGED <<answer, window>>

\* Allow: a token is taken and the call goes on to handleLint, or it ends in 429.
Allow(c) ==
  /\ callers[c] # None
  /\ LET a == callers[c].address
         l == callers[c].lim
     IN \/ /\ tokens[l] >= Unit
           /\ tokens' = [tokens EXCEPT ![l] = @ - Unit]
           /\ spent' = [spent EXCEPT ![a] = @ + Unit]
           /\ answer' = <<a, TRUE>>
        \/ /\ tokens[l] < Unit
           /\ answer' = <<a, FALSE>>
           /\ UNCHANGED <<tokens, spent>>
  /\ callers' = [callers EXCEPT ![c] = None]
  /\ UNCHANGED <<limiters, granted>>

\* A bug: a limiter that rests gathers more than its burst.
TickUncapped ==
  /\ granted < MaxWindow
  /\ tokens' = [l \in DOMAIN tokens |-> tokens[l] + 1]
  /\ granted' = granted + 1
  /\ UNCHANGED <<limiters, callers, answer, spent>>

\* Time passes: rate.NewLimiter(1, Burst) refills one token a second.
Tick ==
  /\ granted < MaxWindow
  /\ tokens' = [l \in DOMAIN tokens |-> IF tokens[l] < Capacity THEN tokens[l] + 1 ELSE Capacity]
  /\ granted' = granted + 1
  /\ UNCHANGED <<limiters, callers, answer, spent>>

\* The process is restarted: the limiters and the calls in flight are gone, and
\* every address may burst again.
Restart ==
  /\ granted + Capacity <= MaxWindow
  /\ limiters' = NoLimiters
  /\ tokens' = <<>>
  /\ callers' = [c \in Callers |-> None]
  /\ granted' = granted + Capacity
  /\ UNCHANGED <<answer, spent>>

\* A new window opens, at any moment.
OpenWindow ==
  /\ spent' = [a \in Addresses |-> 0]
  /\ granted' = Capacity
  /\ UNCHANGED <<memory, callers, answer>>

Next ==
  \/ \E c \in Callers, a \in Addresses : Lookup(c, a)
  \/ \E c \in Callers : Allow(c)
  \/ Tick
  \/ Restart
  \/ OpenWindow

Spec == Init /\ [][Next]_vars

-----------------------------------------------------------------------------
(* Properties *)

\* "(1 req/s, burst 5)" per address: in any stretch of time, however the calls
\* race for the map and its limiters, no address gets more than a full bucket,
\* what the time brings, and another bucket per restart (middleware.go:16-20).
RateBounded == \A a \in Addresses : spent[a] <= granted

\* The memory grows with the addresses seen since the start and not with the
\* calls: there is a limiter for each and no other (middleware.go:32-37).
OneLimiterEach ==
  /\ Len(tokens) = Cardinality(DOMAIN limiters)
  /\ \A a \in DOMAIN limiters : \A b \in DOMAIN limiters : limiters[a] = limiters[b] => a = b

\* The units address a has: a new one will find a full limiter.
Left(a) == IF a \in DOMAIN limiters THEN tokens[limiters[a]] ELSE Capacity

Bucket == INSTANCE TokenBucket WITH bucket <- [a \in Addresses |-> Left(a)]

\* Each address has a bucket of its own: it is refused only if that is empty, and
\* no call from elsewhere empties it, whoever made its limiter (middleware.go:27-41).
OwnBuckets == Bucket!Spec
==============================================================================
