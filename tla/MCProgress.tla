----------------------------- MODULE MCProgress -----------------------------
(* One instance of each of the components that must come to an end by        *)
(* themselves: the outbox, a rescue command, and the driver of process       *)
(* waits.  They share no state: "part" says which one a behaviour is of, and *)
(* the others stay as they are at first.                                     *)
EXTENDS EventOutbox, RescueExec, ProcessWaitDriver

VARIABLE part

allVars == <<part, vars, rescueVars, driverVars>>

\* Steps of one part.
Only(p) ==
    /\ part = p /\ UNCHANGED part
    /\ p # "outbox" => UNCHANGED vars
    /\ p # "rescue" => UNCHANGED rescueVars
    /\ p # "driver" => UNCHANGED driverVars

ProgressInit ==
    /\ part \in {"outbox", "rescue", "driver"}
    /\ OutboxInit /\ RescueInit /\ DriverInit

ProgressNext ==
    \/ Only("outbox") /\ OutboxNext
    \/ Only("rescue") /\ RescueNext
    \/ Only("driver") /\ DriverNext

\* The fairness of FairOutboxSpec, RescueSpec and DriverSpec.
OutboxProgress ==
    /\ \A f \in Flusher : WF_allVars(Only("outbox") /\ Work(f))
    /\ WF_allVars(Only("outbox") /\ FlushStart(Server, Dispatch))
    /\ \A d \in Dispatch : /\ WF_allVars(Only("outbox") /\ RetryDue(d))
                           /\ WF_allVars(Only("outbox") /\ ClaimExpires(d))
RescueProgress == \A c \in Command :
    /\ WF_allVars(Only("rescue") /\ Terminate(c, "timeout"))
    /\ WF_allVars(Only("rescue") /\ HardKill(c))
    /\ WF_allVars(Only("rescue") /\ CommandEnds(c))
DriverProgress ==
    /\ WF_allVars(Only("driver") /\ (StartTick \/ (\E answer \in Answers : Observe(answer))
                                     \/ (\E accepted \in BOOLEAN : Resume(accepted))))
    /\ \A w \in Wait : /\ WF_allVars(Only("driver") /\ Elapse(w))
                       /\ SF_allVars(Only("driver") /\ Asked(w) /\ Observe("receipt"))

ProgressSpec ==
    /\ ProgressInit /\ [][ProgressNext]_allVars
    /\ OutboxProgress /\ RescueProgress /\ DriverProgress

-----------------------------------------------------------------------------
(* What holds in every state of rescue and driver meanwhile: types, one       *)
(* shell at a time with nothing left that would kill a later one unless it    *)
(* was both timed out and aborted, and no end written down that is not real.  *)
ProgressSafe ==
    /\ RescueTypeOK /\ OneShell /\ StrayKillNeedsBoth
    /\ DriverTypeOK /\ EndsAreReal
=============================================================================
