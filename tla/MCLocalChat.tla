---------------------------- MODULE MCLocalChat ----------------------------
(* Instances of LocalChatContinuation for TLC.                               *)
EXTENDS LocalChatContinuation, TLC

CONSTANTS t1

\* All deliveries go to one Chat.
OneChat == [d \in Delivery |-> t1]

LocalSymmetry ==
    Permutations(Delivery) \cup Permutations(Process) \cup Permutations(Token)
=============================================================================
