-------------------------- MODULE ProcessWaitDriver --------------------------
(***************************************************************************)
(* The driver of process waits (src/process-waits.ts) on the timer of the  *)
(* HTTP server (src/http-server.ts): a tick takes the waits that have been *)
(* due longest, asks the exec runtime about each, and writes down what it  *)
(* learns, while waits are registered and cancelled.                       *)
(*                                                                         *)
(* Only the order of nextCheckAt matters: "due" has the open waits whose  *)
(* time has come by it; what comes due later, comes behind them.  What the *)
(* coordinator does with task and wait is in WorkflowCoordinator; here it  *)
(* accepts or refuses.  A restart only empties "tick" and is left out, and *)
(* so are ticks of a second service: each of its writes would read the row *)
(* again and move a wait that is watched, or terminal, as one of these.    *)
(***************************************************************************)
EXTENDS Naturals, Sequences, FiniteSets, SequencesExt

CONSTANTS
    Wait,       \* process_waits rows, one for each process
    Batch,      \* 16
    Callers     \* bound: registrations at a time

ASSUME DriverAssumption == Batch \in Nat \ {0} /\ Callers \in Nat

VARIABLES
    waits,      \* the state of each row
    due,
    asked,      \* register: what inspect has told it
    tick,       \* the rest of the tick's batch, with the states it has read
    phase,      \* of the first wait in it
    job         \* External: the background processes

driverVars == <<waits, due, asked, tick, phase, job>>

Snapshot == [of : Wait, state : {"watching", "terminal"}]
Told == {"running", "terminal", "unknown"}
\* What the runtime may answer: an error, another session, an end without a receipt
\* of how, or with one.
Answers == {"error", "other", "running", "bare", "receipt"}

DriverTypeOK ==
    /\ waits \in [Wait -> {"none", "watching", "terminal", "dispatched", "cancelled"}]
    /\ due \in Seq(Wait) /\ IsInjective(due)
    /\ \A w \in ToSet(due) : waits[w] \in {"watching", "terminal"}
    /\ asked \in [Wait -> Told \cup {"off"}]
    /\ tick \in Seq(Snapshot) /\ Len(tick) <= Batch
    /\ phase \in {"observe", "resume"}
    /\ job \in [Wait -> {"running", "ended"}]

DriverInit ==
    /\ waits = [w \in Wait |-> "none"]
    /\ due = <<>>
    /\ asked = [w \in Wait |-> "off"]
    /\ tick = <<>> /\ phase = "observe"
    /\ job = [w \in Wait |-> "running"]

-----------------------------------------------------------------------------
\* For mutation runs.
FaultStillWatching(w) == TRUE
FaultLater(w) == due

-----------------------------------------------------------------------------
\* inspectProcessResult.
Classified(answer) ==
    CASE answer = "running" -> "running"
      [] answer = "receipt" -> "terminal"
      [] OTHER -> "unknown"

\* An answer may be older than the end of the process, never younger.
MayAnswer(w, answer) == answer \in {"bare", "receipt"} => job[w] = "ended"

\* The due waits when w is to be looked at later or never, or at once.
Later(w) == RemoveFirst(due, w)
Now(w) == Append(Later(w), w)

\* A registration asks about the process first, whether there is a wait or not.
Ask(w, answer) ==
    /\ asked[w] = "off" /\ Cardinality({v \in Wait : asked[v] # "off"}) < Callers
    /\ MayAnswer(w, answer) /\ Classified(answer) # "unknown"
    /\ asked' = [asked EXCEPT ![w] = Classified(answer)]
    /\ UNCHANGED <<waits, due, tick, phase, job>>

\* waitProcess, which answers with the wait that there is already, and
\* recordProcessObservation of a process that has ended.  (A registration that is
\* refused is like one that goes no further.)
Register(w) ==
    LET ends == asked[w] = "terminal" IN
    /\ asked[w] # "off"
    /\ waits' = [waits EXCEPT ![w] =
            CASE @ \in {"none", "watching"} /\ ends -> "terminal"
              [] @ = "none" /\ ~ends -> "watching"
              [] OTHER -> @]
    /\ due' = IF waits[w] = "none" \/ (waits[w] = "watching" /\ ends) THEN Now(w) ELSE due
    /\ asked' = [asked EXCEPT ![w] = "off"]
    /\ UNCHANGED <<tick, phase, job>>

Cancel(w) ==
    /\ waits[w] \in {"watching", "terminal"}
    /\ waits' = [waits EXCEPT ![w] = "cancelled"]
    /\ due' = Later(w)
    /\ UNCHANGED <<asked, tick, phase, job>>

\* Its nextCheckAt is reached.
Elapse(w) ==
    /\ waits[w] \in {"watching", "terminal"} /\ w \notin ToSet(due)
    /\ due' = Append(due, w)
    /\ UNCHANGED <<waits, asked, tick, phase, job>>

\* The interval's tick, if the last one has ended.
StartTick ==
    /\ tick = <<>> /\ due # <<>>
    /\ tick' = [i \in 1..(IF Len(due) < Batch THEN Len(due) ELSE Batch) |->
                    [of |-> due[i], state |-> waits[due[i]]]]
    /\ phase' = "observe"
    /\ UNCHANGED <<waits, due, asked, job>>

\* A tick has come to w.
Asked(w) == tick # <<>> /\ Head(tick).of = w

StillWatching(w) == waits[w] = "watching"

\* The answer about the first of the batch, or no question for a terminal one.
Observe(answer) ==
    LET w == Head(tick).of
        told == Classified(answer)
    IN
    /\ tick # <<>> /\ phase = "observe"
    /\ MayAnswer(w, answer)
    /\ IF Head(tick).state = "watching" /\ StillWatching(w)
       THEN /\ waits' = IF told = "terminal" THEN [waits EXCEPT ![w] = "terminal"] ELSE waits
            /\ due' = IF told = "terminal" THEN Now(w) ELSE Later(w)
       ELSE UNCHANGED <<waits, due>>
    /\ phase' = "resume"
    /\ UNCHANGED <<asked, tick, job>>

\* resumeProcessWait of one that is terminal; refused ones are looked at later.
Resume(accepted) ==
    LET w == Head(tick).of IN
    /\ tick # <<>> /\ phase = "resume"
    /\ IF waits[w] # "terminal" THEN UNCHANGED <<waits, due>>
       ELSE /\ waits' = IF accepted THEN [waits EXCEPT ![w] = "dispatched"] ELSE waits
            /\ due' = Later(w)
    /\ tick' = Tail(tick) /\ phase' = "observe"
    /\ UNCHANGED <<asked, job>>

JobEnds(w) ==
    /\ job[w] = "running"
    /\ job' = [job EXCEPT ![w] = "ended"]
    /\ UNCHANGED <<waits, due, asked, tick, phase>>

DriverNext ==
    \/ StartTick
    \/ \E answer \in Answers : Observe(answer) \/ \E w \in Wait : Ask(w, answer)
    \/ \E accepted \in BOOLEAN : Resume(accepted)
    \/ \E w \in Wait : Register(w) \/ Cancel(w) \/ Elapse(w) \/ JobEnds(w)

DriverFairness ==
    /\ WF_driverVars(StartTick \/ (\E answer \in Answers : Observe(answer))
                               \/ (\E accepted \in BOOLEAN : Resume(accepted)))
    /\ \A w \in Wait : WF_driverVars(Elapse(w))
    /\ \A w \in Wait : SF_driverVars(Asked(w) /\ Observe("receipt"))

DriverSpec == DriverInit /\ [][DriverNext]_driverVars /\ DriverFairness

-----------------------------------------------------------------------------
(* An end is written down, and dispatched, only of a process that has ended: *)
(* "never infer success from silence, wall time, disappearance, or a text    *)
(* log" (inspectProcessResult and those who act on it).                      *)
EndsAreReal == \A w \in Wait : waits[w] \in {"terminal", "dispatched"} => job[w] = "ended"

(* A wait that was cancelled or dispatched while the driver awaited the      *)
(* runtime is left alone by what the driver writes afterwards.               *)
ClosedWaitsStay ==
    [][\A w \in Wait : waits[w] \in {"dispatched", "cancelled"} =>
          waits'[w] = waits[w]]_driverVars

(* The end of a process is noticed however many waits there are for one      *)
(* batch: a wait that was looked at goes behind those that are due.  The     *)
(* runtime is assumed to answer a question now and then.                     *)
EndNoticed ==
    \A w \in Wait : waits[w] = "watching" /\ job[w] = "ended" ~> waits[w] # "watching"
=============================================================================
