----------------------------- MODULE TokenBucket -----------------------------
(* What the limiter of POST /v1/lint promises each client address: a bucket of  *)
(* its own that fills with time and is emptied by its own calls alone.          *)
EXTENDS Naturals

CONSTANTS
  Addresses,  \* client addresses
  Capacity,   \* units in a full bucket
  Unit,       \* units a call costs
  None        \* no call answered yet

VARIABLES
  bucket,  \* [Addresses -> 0 .. Capacity]
  answer   \* the last call answered: its address, and whether it was admitted

Full == [a \in Addresses |-> Capacity]

Init == bucket = Full /\ answer = None

Admit(a) ==
  /\ bucket[a] >= Unit
  /\ bucket' = [bucket EXCEPT ![a] = @ - Unit]
  /\ answer' = <<a, TRUE>>

Refuse(a) ==
  /\ bucket[a] < Unit
  /\ answer' = <<a, FALSE>>
  /\ UNCHANGED bucket

Wait ==
  /\ bucket' = [a \in Addresses |-> IF bucket[a] < Capacity THEN bucket[a] + 1 ELSE Capacity]
  /\ UNCHANGED answer

Restart == bucket' = Full /\ UNCHANGED answer

Next ==
  \/ \E a \in Addresses : Admit(a) \/ Refuse(a)
  \/ Wait
  \/ Restart

Spec == Init /\ [][Next]_<<bucket, answer>>
==============================================================================
