------------------------------ MODULE MCBilling ------------------------------
(* Small instances of Billing for TLC. *)
EXTENDS Billing, TLC

\* Every statement, reply and the process itself may fail.
AllSteps ==
  {"createCheckout", "createSession", "reply", "createServiceOrder", "getSession",
   "getServiceSession", "upsert", "markPaid", "closeSession", "respond", "crash"}

\* As AllSteps, but the two session lookups always answer.
AllButLookups == AllSteps \ {"getSession", "getServiceSession"}

Sym == Permutations(Users) \cup Permutations(OrderIds) \cup Permutations(Workers)
=============================================================================
