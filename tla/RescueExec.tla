----------------------------- MODULE RescueExec -----------------------------
(***************************************************************************)
(* rescue_exec (src/backend/rescue-exec.ts): one shell command at a time   *)
(* in a process group of its own, ended by a timeout or an abort with      *)
(* SIGTERM and, half a second later, SIGKILL.  Node's close event, which   *)
(* answers the caller and frees the slot, comes when the shell has ended   *)
(* and nobody holds its pipes any more.                                    *)
(*                                                                         *)
(* What runs is external: a shell, children in its group that hold the     *)
(* pipes ("holder") or not ("quiet"), and children that left the group and *)
(* hold them ("escaped").  Output and exit codes are left out.  So is the  *)
(* error event of a signal that could not be sent: commands run as our own *)
(* user, and the call would have been answered by it a little sooner.      *)
(***************************************************************************)
EXTENDS Naturals, FiniteSets

CONSTANT Command        \* calls of callTool that come to run

VARIABLES
    slot,       \* the command that #running stands for, if any: a set
    alive,      \* the processes of each command
    timer,      \* the timeout's timer and the abort listener
    kills,      \* SIGKILL timers that are pending; killTimer is the latest set
    marks,      \* timedOut and aborted
    result      \* what the call was answered with

rescueVars == <<slot, alive, timer, kills, marks, result>>

Process == {"shell", "holder", "quiet", "escaped"}
Group == Process \ {"escaped"}
PipeHolder == Process \ {"quiet"}
Result == {"none", "unfinished", "error", "overall-timeout", "aborted", "completed"}

RescueTypeOK ==
    /\ slot \subseteq Command /\ Cardinality(slot) <= 1
    /\ alive \in [Command -> SUBSET Process]
    /\ timer \in [Command -> SUBSET {"timeout", "abort"}]
    /\ kills \in [Command -> 0..2]
    /\ marks \in [Command -> SUBSET {"timeout", "abort"}]
    /\ result \in [Command -> Result]

RescueInit ==
    /\ slot = {}
    /\ alive = [c \in Command |-> {}]
    /\ timer = [c \in Command |-> {}]
    /\ kills = [c \in Command |-> 0]
    /\ marks = [c \in Command |-> {}]
    /\ result = [c \in Command |-> "none"]

-----------------------------------------------------------------------------
\* For mutation runs.
FaultKilled(c) == {"shell"}
FaultPendingKills(c) == kills[c]

-----------------------------------------------------------------------------
Busy(c) == c \in slot

\* What a SIGKILL to the group ends.
Killed(c) == Group

\* What cleanup() leaves of the SIGKILL timers: it clears the latest.
PendingKills(c) == IF kills[c] = 0 THEN 0 ELSE kills[c] - 1

Outcome(c) ==
    IF "timeout" \in marks[c] THEN "overall-timeout"
    ELSE IF "abort" \in marks[c] THEN "aborted" ELSE "completed"

\* The shell has ended and so has every process that has its pipes.
MayClose(c) == alive[c] \cap PipeHolder = {}

\* callTool passes its checks and takes the slot; spawn works or not.
Run(c, spawned) ==
    /\ slot = {} /\ result[c] = "none"
    /\ slot' = {c}
    /\ alive' = [alive EXCEPT ![c] = IF spawned THEN {"shell"} ELSE {}]
    /\ timer' = [timer EXCEPT ![c] = {"timeout", "abort"}]
    /\ result' = [result EXCEPT ![c] = IF spawned THEN "unfinished" ELSE "error"]
    /\ UNCHANGED <<kills, marks>>

\* A member of the group starts another process; any process may end, of itself
\* or by a signal.
Fork(c, kind) ==
    /\ alive[c] \cap Group # {}
    /\ kind \in Process \ {"shell"}
    /\ alive' = [alive EXCEPT ![c] = @ \cup {kind}]
    /\ UNCHANGED <<slot, timer, kills, marks, result>>

End(c, kind) ==
    /\ kind \in alive[c]
    /\ alive' = [alive EXCEPT ![c] = @ \ {kind}]
    /\ UNCHANGED <<slot, timer, kills, marks, result>>

\* The timeout or an abort: SIGTERM, which nobody has to heed, and hardKillSoon.
Terminate(c, reason) ==
    /\ reason \in timer[c]
    /\ timer' = [timer EXCEPT ![c] = @ \ {reason}]
    /\ marks' = [marks EXCEPT ![c] = @ \cup {reason}]
    /\ kills' = [kills EXCEPT ![c] = @ + 1]
    /\ UNCHANGED <<slot, alive, result>>

HardKill(c) ==
    /\ kills[c] > 0
    /\ kills' = [kills EXCEPT ![c] = @ - 1]
    /\ alive' = [alive EXCEPT ![c] = @ \ Killed(c)]
    /\ UNCHANGED <<slot, timer, marks, result>>

\* The close event, or the error event of a spawn that failed: the call is
\* answered once and the slot is free.
CommandEnds(c) ==
    /\ Busy(c)
    /\ result[c] = "error" \/ MayClose(c)
    /\ slot' = {}
    /\ timer' = [timer EXCEPT ![c] = {}]
    /\ kills' = [kills EXCEPT ![c] = PendingKills(c)]
    /\ result' = [result EXCEPT ![c] = IF @ = "error" THEN @ ELSE Outcome(c)]
    /\ UNCHANGED <<alive, marks>>

RescueNext ==
    \E c \in Command :
        \/ \E spawned \in BOOLEAN : Run(c, spawned)
        \/ \E kind \in Process : Fork(c, kind) \/ End(c, kind)
        \/ \E reason \in {"timeout", "abort"} : Terminate(c, reason)
        \/ HardKill(c) \/ CommandEnds(c)

\* Timers fire, and the close event comes once it may.
RescueFairness == \A c \in Command :
    /\ WF_rescueVars(Terminate(c, "timeout")) /\ WF_rescueVars(HardKill(c))
    /\ WF_rescueVars(CommandEnds(c))

RescueSpec == RescueInit /\ [][RescueNext]_rescueVars /\ RescueFairness

-----------------------------------------------------------------------------
(* Two rescue shells never run at the same time, and no timer of a call goes *)
(* on against an earlier command (#running, cleanup).                        *)
OneShell ==
    /\ \A c \in Command : "shell" \in alive[c] => Busy(c)
    /\ \A c \in Command : timer[c] # {} => Busy(c)

(* A SIGKILL may hit the number of a finished group only when the command    *)
(* had been both timed out and aborted: hardKillSoon then forgets its first  *)
(* timer.  After one of them, or neither, nothing is left that kills.        *)
StrayKillNeedsBoth ==
    \A c \in Command :
        kills[c] > 0 /\ ~Busy(c) => marks[c] = {"timeout", "abort"}

(* The slot is freed in the end, unless a process that left the group holds  *)
(* the pipes: the timeout, the SIGKILL to the whole group and the close      *)
(* event see to it, whatever the command does with SIGTERM.                  *)
SlotFreed ==
    \A c \in Command :
        c \in slot ~> (c \notin slot \/ "escaped" \in alive[c])
=============================================================================
