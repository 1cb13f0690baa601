-------------------------------- MODULE MCCli --------------------------------
(* A small instance of Cli for TLC. *)
EXTENDS Cli, TLC

CONSTANTS b1, b2, k1, k2

TwoHomes == k1 :> b1 @@ k2 :> b2
Sym == Permutations(Processes)
==============================================================================
