----------------------------- MODULE ChatTurns -----------------------------
(***************************************************************************)
(* What local events may do to Chats: an event starts one turn at most in  *)
(* the Chat of its route, and never while another event's turn is still    *)
(* under way there.  LocalChatContinuation implements this.                *)
(***************************************************************************)
CONSTANTS
    Delivery,       \* events that were accepted
    Message,        \* user messages that a dispatcher may submit
    TargetOf        \* the Chat of each delivery's route

VARIABLES
    turns,          \* the messages submitted for each delivery
    over            \* messages that have their final answer

turnVars == <<turns, over>>

TurnsInit ==
    /\ turns = [d \in Delivery |-> {}]
    /\ over = {}

Start(d, m) ==
    /\ turns[d] = {}
    /\ \A e \in Delivery : TargetOf[e] = TargetOf[d] => turns[e] \subseteq over
    /\ turns' = [turns EXCEPT ![d] = {m}]
    /\ UNCHANGED over

End(m) ==
    /\ over' = over \cup {m}
    /\ UNCHANGED turns

TurnsNext ==
    \E m \in Message : End(m) \/ \E d \in Delivery : Start(d, m)

TurnsSpec == TurnsInit /\ [][TurnsNext]_turnVars
=============================================================================
