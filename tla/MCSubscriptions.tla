-------------------------- MODULE MCSubscriptions --------------------------
(* Instances of EventSubscriptions for TLC: secrets and calls are alike.     *)
EXTENDS EventSubscriptions, TLC

SubscriptionSymmetry == Permutations(Secret) \cup Permutations(Caller)
=============================================================================
