------------------------------ MODULE MCOutbox ------------------------------
(* Instances of EventOutbox for TLC.  Events are interchangeable, and so are *)
(* the flushers other than the server.                                       *)
EXTENDS EventOutbox, TLC

OutboxSymmetry == Permutations(Dispatch) \cup Permutations(Flusher \ {Server})
=============================================================================
