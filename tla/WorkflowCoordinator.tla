------------------------ MODULE WorkflowCoordinator ------------------------
(***************************************************************************)
(* The workflow coordinator (src/workflows.ts): which Chat run may work on *)
(* which task, and what a shared workspace is fenced by.  Every operation  *)
(* is one SQLite transaction, so it is one action here; several processes  *)
(* (MCP server, HTTP server, CLIs) interleave them at will, and the outbox *)
(* steps of DeliveryRows come between them.                                *)
(*                                                                         *)
(* An operation that returns a refusal commits what it wrote before the    *)
(* refusal, which is the effect of synchronizeDeliveryOutcomes alone, and  *)
(* so is a step of Sync; one that throws is rolled back and is no step.    *)
(*                                                                         *)
(* Abstractions.  Left out, because no decision reads them: summaries,     *)
(* checkpoints and revisions, visits (an advisory warning), root ids,      *)
(* chat references, runners and the content of a process observation (a    *)
(* wait has one exactly when it has left "watching" other than by          *)
(* cancellation).  A lease token is issued by the one claim of a run and   *)
(* deleted when the run ends, so presenting a valid token for a task is    *)
(* the same as being its current, running run.                             *)
(***************************************************************************)
EXTENDS DeliveryRows, FiniteSets

CONSTANTS
    Task, NoTask,
    Workspace, NoWorkspace,
    WorkspaceOf,    \* the resolved workspace of each task, or NoWorkspace
    TopicSubs,      \* the subscriptions on each task's topic
    Session, NoWait,
    NoDispatch,
    Dedup, NoKey,   \* deduplication keys of producers and of dispatching runs
    LeaseTicks      \* the longest lease, in ticks

Wait == Task \X Session     \* a wait's id is a hash of the task and session

ASSUME CoordinatorAssumption ==
    /\ NoTask \notin Task
    /\ NoWait \notin Wait
    /\ NoDispatch \notin Dispatch
    /\ NoKey \notin Dedup
    /\ NoWorkspace \notin Workspace
    /\ WorkspaceOf \in [Task -> Workspace \cup {NoWorkspace}]
    /\ TopicSubs \in [Task -> SUBSET Sub]
    /\ LeaseTicks \in Nat \ {0}

VARIABLES
    task,       \* bucket "workflows"
    run,        \* bucket "runs"
    wait,       \* bucket "process_waits"
    recorded    \* runs whose idempotency record is still in bucket "requests"

workVars == <<task, run, wait, recorded>>
vars == <<task, run, wait, recorded, row, active, posted, stray, received>>

TaskState == {"unregistered", "idle", "queued", "running", "waiting",
              "completed", "needs_input", "uncertain"}
RunState == {"none", "queued", "running", "finished", "cancelled"}
WaitState == {"none", "watching", "terminal", "dispatched", "delivery_failed",
              "cancelled"}
Outcome == {"none", "reported", "delivery_rejected", "reconciled"}

\* Who asked for a run, with the key it is deduplicated by.  Together with the
\* target task this is the request key.
Origin == [run : Dispatch \cup {NoDispatch}, wait : Wait \cup {NoWait},
           key : Dedup \cup {NoKey}]
NoOrigin == [run |-> NoDispatch, wait |-> NoWait, key |-> NoKey]
FromProducer(key) == [NoOrigin EXCEPT !.key = key]
FromRun(d, key) == [NoOrigin EXCEPT !.run = d, !.key = key]
FromProcess(w) == [NoOrigin EXCEPT !.wait = w]

TaskRecord == [state : TaskState, enabled : BOOLEAN,
               currentRun : Dispatch \cup {NoDispatch},
               waitingFor : Wait \cup {NoWait}, sub : Sub \cup {NoSub}]
RunRecord == [state : RunState, task : Task \cup {NoTask},
              origin : Origin, lease : 0..LeaseTicks,
              outcome : Outcome]
WaitRecord == [state : WaitState, dispatch : Dispatch \cup {NoDispatch}]

TypeOK ==
    /\ DeliveryTypeOK
    /\ task \in [Task -> TaskRecord]
    /\ run \in [Dispatch -> RunRecord]
    /\ wait \in [Wait -> WaitRecord]
    /\ recorded \subseteq Dispatch

Init ==
    /\ DeliveryInit
    /\ task = [k \in Task |-> [state |-> "unregistered", enabled |-> TRUE,
                               currentRun |-> NoDispatch, waitingFor |-> NoWait,
                               sub |-> NoSub]]
    /\ run = [d \in Dispatch |-> [state |-> "none", task |-> NoTask,
                                  origin |-> NoOrigin, lease |-> 0,
                                  outcome |-> "none"]]
    /\ wait = [w \in Wait |-> [state |-> "none", dispatch |-> NoDispatch]]
    /\ recorded = {}

-----------------------------------------------------------------------------
(* Faults that mutation runs swap in for the definitions below: a workspace  *)
(* test that overlooks tasks waiting for a process, a stale lease that still *)
(* acts, every failed delivery taken for a refusal, a request record that    *)
(* survives its rejected run, a run whose state and outcome are swapped, one *)
(* that reports without ending.                                              *)
FaultBusyByRunOnly(T, k) ==
    \E other \in Task \ {k} : /\ WorkspaceOf[other] = WorkspaceOf[k]
                             /\ T[other].currentRun # NoDispatch
FaultStaleActor(k) ==
    /\ task[k].currentRun # NoDispatch
    /\ run[task[k].currentRun].state = "running"
FaultAnyFailureRejects(k) == FALSE
FaultKeepRecord == recorded
FaultSwappedOutcome(d) ==
    [run EXCEPT ![d].state = "reported", ![d].outcome = "finished"]
FaultReportKeepsLease(d) == [run EXCEPT ![d].outcome = "reported"]

-----------------------------------------------------------------------------
(* Fence, lease and subscription tests                                      *)

\* Storing one object leaves the others of its bucket alone.
Put(T, key, value) == [k \in DOMAIN T |-> IF k = key THEN value ELSE T[k]]

\* A task record holds its workspace by a run, or by a process it waits for.
Occupied(t) == t.currentRun # NoDispatch \/ t.waitingFor # NoWait

\* Another task of the same workspace holds it, in the task table T.
WorkspaceBusy(T, k) ==
    /\ WorkspaceOf[k] # NoWorkspace
    /\ \E other \in Task \ {k} :
          WorkspaceOf[other] = WorkspaceOf[k] /\ Occupied(T[other])

\* Only the current, running run with an unexpired lease acts for a task.
Actor(k) ==
    /\ task[k].currentRun # NoDispatch
    /\ run[task[k].currentRun].state = "running"
    /\ run[task[k].currentRun].lease > 0

\* The active subscriptions on a task's topic, narrowed to its binding.
Candidates(t, k) ==
    {s \in active \cap TopicSubs[k] : t.sub \in {NoSub, s}}

Registered(k) == task[k].state # "unregistered"

-----------------------------------------------------------------------------
(* synchronizeDeliveryOutcomes, as the tables it leaves.  Tasks do not      *)
(* interact in its loop: each has its own run, waits and request keys.      *)

Stalled(k) ==
    /\ task[k].state = "queued"
    /\ task[k].currentRun # NoDispatch
    /\ run[task[k].currentRun].state = "queued"
    /\ row[task[k].currentRun].state \in {"failed", "cancelled"}

Doubtful(k) == Stalled(k) /\ row[task[k].currentRun].ambiguous
Rejected(k) == Stalled(k) /\ ~Doubtful(k)

RejectedRuns == {task[k].currentRun : k \in {q \in Task : Rejected(q)}}

\* The waits whose completion a run was to report: one at most.
NoticesOf(d) == {w \in Wait : wait[w].state = "dispatched" /\ wait[w].dispatch = d}

SyncedTask ==
    [k \in Task |->
        IF Doubtful(k) THEN [task[k] EXCEPT !.state = "uncertain"]
        ELSE IF ~Rejected(k) THEN task[k]
        ELSE IF NoticesOf(task[k].currentRun) = {}
        THEN [task[k] EXCEPT !.state = "idle", !.currentRun = NoDispatch]
        ELSE [task[k] EXCEPT !.state = "waiting", !.currentRun = NoDispatch,
                 !.waitingFor = CHOOSE w \in NoticesOf(task[k].currentRun) : TRUE]]

SyncedRun ==
    [d \in Dispatch |->
        IF d \in RejectedRuns
        THEN [run[d] EXCEPT !.state = "cancelled", !.outcome = "delivery_rejected"]
        ELSE run[d]]

SyncedWait ==
    [w \in Wait |->
        IF wait[w].state = "dispatched" /\ wait[w].dispatch \in RejectedRuns
        THEN [wait[w] EXCEPT !.state = "delivery_failed"]
        ELSE wait[w]]

SyncedRecorded ==
    {d \in recorded : ~\E r \in RejectedRuns : run[r].origin = run[d].origin
                                               /\ run[r].task = run[d].task}

Sync ==
    /\ \E k \in Task : Stalled(k)
    /\ task' = SyncedTask
    /\ run' = SyncedRun
    /\ wait' = SyncedWait
    /\ recorded' = SyncedRecorded
    /\ UNCHANGED deliveryVars

-----------------------------------------------------------------------------
(* enqueue: a run for task k is minted, from the task table T that the      *)
(* transaction has reached.  The waits are left to the caller.              *)
Enqueue(T, o, k, d) ==
    /\ ~\E r \in SyncedRecorded : run[r].origin = o /\ run[r].task = k
    /\ T[k].enabled
    /\ T[k].state = "idle"
    /\ ~Occupied(T[k])
    /\ ~WorkspaceBusy(T, k)
    /\ run[d].state = "none"
    /\ \E s \in Sub :
          /\ Candidates(T[k], k) = {s}
          /\ task' = Put(T, k, [T[k] EXCEPT !.state = "queued",
                                            !.currentRun = d, !.sub = s])
          /\ EnqueueRow(d, s)
    /\ run' = Put(SyncedRun, d, [run[d] EXCEPT !.state = "queued", !.task = k,
                                               !.origin = o])
    /\ recorded' = SyncedRecorded \cup {d}

\* A trusted local producer starts a new causal root.
External(key, k, d) ==
    /\ Enqueue(SyncedTask, FromProducer(key), k, d)
    /\ wait' = SyncedWait

\* Fault: the pause of the source is not looked at.
FaultPausedDispatches(k, target, key, d) ==
    /\ Actor(k)
    /\ target # k
    /\ Enqueue(SyncedTask, FromRun(task[k].currentRun, key), target, d)
    /\ wait' = SyncedWait

\* The run of task k asks for a run of another task.
DispatchTo(k, target, key, d) ==
    /\ Actor(k)
    /\ task[k].enabled
    /\ target # k
    /\ Enqueue(SyncedTask, FromRun(task[k].currentRun, key), target, d)
    /\ wait' = SyncedWait

-----------------------------------------------------------------------------
Register(k) ==
    /\ ~Registered(k)
    /\ task' = [task EXCEPT ![k].state = "idle"]
    /\ UNCHANGED <<run, wait, recorded, deliveryVars>>

\* Fault: a task with a run on its way can be bound anew.
FaultRebindActive(k, s) ==
    /\ Registered(k)
    /\ s \in active \cap TopicSubs[k]
    /\ task' = [task EXCEPT ![k].sub = s]
    /\ UNCHANGED <<run, wait, recorded, deliveryVars>>

\* With or without an explicit subscription id: the chosen one is active.
Bind(k, s) ==
    /\ Registered(k)
    /\ s \in active \cap TopicSubs[k]
    /\ task[k].currentRun = NoDispatch \/ task[k].sub \in {NoSub, s}
    /\ task' = [task EXCEPT ![k].sub = s]
    /\ UNCHANGED <<run, wait, recorded, deliveryVars>>

\* Pausing, or resuming with the saved receipt of a rejected notification.
SetEnabled(k, enabled) ==
    /\ Registered(k)
    /\ task' = Put(SyncedTask, k, [SyncedTask[k] EXCEPT !.enabled = enabled])
    /\ run' = SyncedRun
    /\ wait' = [w \in Wait |->
                  IF /\ enabled
                     /\ w = SyncedTask[k].waitingFor
                     /\ SyncedWait[w].state = "delivery_failed"
                  THEN [SyncedWait[w] EXCEPT !.state = "terminal"]
                  ELSE SyncedWait[w]]
    /\ recorded' = SyncedRecorded
    /\ UNCHANGED deliveryVars

\* A Chat run, or whoever else has learned the dispatch id, takes the lease; the
\* code does not ask whether the delivery is known to have succeeded.
Claim(k, d) ==
    /\ task[k].enabled
    /\ task[k].currentRun = d
    /\ run[d].state = "queued" /\ run[d].task = k
    /\ \E lease \in 1..LeaseTicks :
          run' = [run EXCEPT ![d].state = "running", ![d].lease = lease]
    /\ task' = [task EXCEPT ![k].state = "running"]
    /\ UNCHANGED <<wait, recorded, deliveryVars>>

Heartbeat(k) ==
    /\ Actor(k)
    /\ \E lease \in 1..LeaseTicks :
          run' = [run EXCEPT ![task[k].currentRun].lease = lease]
    /\ UNCHANGED <<task, wait, recorded, deliveryVars>>

\* Time passes for a lease; at 0 it is stale.
LeaseTick(d) ==
    /\ run[d].state = "running"
    /\ run[d].lease > 0
    /\ run' = [run EXCEPT ![d].lease = @ - 1]
    /\ UNCHANGED <<task, wait, recorded, deliveryVars>>

FinishedRun(d) ==
    [run EXCEPT ![d].state = "finished", ![d].outcome = "reported"]

\* Fault: the reported run stays the task's current one.
FaultFinishKeepsRun(k, outcome) ==
    /\ Actor(k)
    /\ run' = FinishedRun(task[k].currentRun)
    /\ task' = [task EXCEPT ![k].state = outcome]
    /\ UNCHANGED <<wait, recorded, deliveryVars>>

Finish(k, outcome) ==
    /\ Actor(k)
    /\ run' = FinishedRun(task[k].currentRun)
    /\ task' = [task EXCEPT ![k].state = outcome, ![k].currentRun = NoDispatch]
    /\ UNCHANGED <<wait, recorded, deliveryVars>>

-----------------------------------------------------------------------------
\* Hand the task to a process: a running run gives up its lease for it, an idle
\* Chat needs none.  The workspace stays fenced.
WaitProcess(k, session) ==
    /\ wait[<<k, session>>].state = "none"
    /\ task[k].waitingFor = NoWait
    /\ \/ /\ Actor(k)
          /\ run' = FinishedRun(task[k].currentRun)
       \/ /\ task[k].currentRun = NoDispatch
          /\ task[k].state = "idle"
          /\ run' = run
    /\ ~WorkspaceBusy(task, k)
    /\ task' = [task EXCEPT ![k].state = "waiting", ![k].currentRun = NoDispatch,
                            ![k].waitingFor = <<k, session>>]
    /\ wait' = [wait EXCEPT ![<<k, session>>].state = "watching"]
    /\ UNCHANGED <<recorded, deliveryVars>>

RecordProcessObservation(w) ==
    /\ wait[w].state = "watching"
    /\ wait' = [wait EXCEPT ![w].state = "terminal"]
    /\ UNCHANGED <<task, run, recorded, deliveryVars>>

\* One transaction releases the fence of the wait and takes it for the run that
\* reports the completion.  The code would also take enqueue's "duplicate_request"
\* for a success and drop the receipt; ReceiptNotSwallowed says that this answer
\* is never met here, so the branch is left out.
NoticeSent(w, d) ==
    Put(SyncedWait, w, [wait[w] EXCEPT !.state = "dispatched", !.dispatch = d])
ReleasedTask(k) ==
    Put(SyncedTask, k, [task[k] EXCEPT !.state = "idle", !.waitingFor = NoWait])

ResumeProcessWait(w, d) ==
    LET k == w[1] IN
    /\ wait[w].state = "terminal"
    /\ task[k].waitingFor = w
    /\ task[k].state = "waiting"
    /\ Enqueue(ReleasedTask(k), FromProcess(w), k, d)
    /\ wait' = NoticeSent(w, d)

\* No evidence that the process stopped: the fence stays.
CancelProcessWait(k) ==
    /\ task[k].waitingFor # NoWait
    /\ wait' = [wait EXCEPT ![task[k].waitingFor].state = "cancelled"]
    /\ task' = [task EXCEPT ![k].state = "uncertain"]
    /\ UNCHANGED <<run, recorded, deliveryVars>>

\* An operator has seen the Chat and the process idle.
Reconcile(k) ==
    /\ Registered(k)
    /\ run' = [d \in Dispatch |->
                 IF d = task[k].currentRun
                 THEN [run[d] EXCEPT !.state = "cancelled", !.outcome = "reconciled"]
                 ELSE run[d]]
    /\ CancelRow(task[k].currentRun)
    /\ wait' = [w \in Wait |->
                  IF w = task[k].waitingFor /\ wait[w].state # "dispatched"
                  THEN [wait[w] EXCEPT !.state = "cancelled"]
                  ELSE wait[w]]
    /\ task' = [task EXCEPT ![k].state = "idle", ![k].currentRun = NoDispatch,
                            ![k].waitingFor = NoWait]
    /\ UNCHANGED recorded

-----------------------------------------------------------------------------
ReportedState == {"idle", "completed", "needs_input"}

TaskStep(k) ==
    \/ Register(k) \/ Heartbeat(k) \/ CancelProcessWait(k) \/ Reconcile(k)
    \/ \E s \in Sub : Bind(k, s)
    \/ \E enabled \in BOOLEAN : SetEnabled(k, enabled)
    \/ \E outcome \in ReportedState : Finish(k, outcome)
    \/ \E session \in Session : WaitProcess(k, session)
    \/ \E d \in Dispatch :
          \/ Claim(k, d)
          \/ \E key \in Dedup : External(key, k, d)
          \/ \E target \in Task, key \in Dedup : DispatchTo(k, target, key, d)

Next ==
    \/ Sync
    \/ \E k \in Task : TaskStep(k)
    \/ \E d \in Dispatch : LeaseTick(d)
    \/ \E w \in Wait : RecordProcessObservation(w)
    \/ \E w \in Wait, d \in Dispatch : ResumeProcessWait(w, d)
    \/ DeliveryStep /\ UNCHANGED workVars

Spec == Init /\ [][Next]_vars

(***************************************************************************)
(* Fairness: the HTTP server runs synchronizeDeliveryOutcomes and the wait *)
(* driver every two seconds for as long as it lives; the driver takes due  *)
(* waits oldest first and puts a refused one five seconds back, so it      *)
(* reaches each of them.                                                   *)
(***************************************************************************)
FairSpec ==
    /\ Spec
    /\ WF_vars(Sync)
    /\ \A w \in Wait : WF_vars(\E d \in Dispatch : ResumeProcessWait(w, d))

-----------------------------------------------------------------------------
(* Safety                                                                   *)

(* A shared workspace is held by one task at most, whether by a Chat run or *)
(* by a process one of them waits for (the workspace_busy tests of enqueue  *)
(* and waitProcess, against every way a fence is taken back by a rejected   *)
(* notification or kept by a cancelled one).                                *)
WorkspaceExclusive ==
    \A j, k \in Task :
        /\ WorkspaceOf[j] = WorkspaceOf[k] /\ WorkspaceOf[j] # NoWorkspace
        /\ Occupied(task[j]) /\ Occupied(task[k])
        => j = k

(* What a task's state says agrees with the run or the wait it points at,   *)
(* and it never holds both (the writes of every operation, which keep three *)
(* tables in step).                                                         *)
TaskMatches(k) ==
    LET t == task[k] IN
    /\ t.currentRun # NoDispatch =>
          /\ t.waitingFor = NoWait
          /\ run[t.currentRun].task = k
          /\ \/ t.state = "running" /\ run[t.currentRun].state = "running"
             \/ t.state \in {"queued", "uncertain"} /\ run[t.currentRun].state = "queued"
    /\ t.waitingFor # NoWait =>
          /\ t.waitingFor[1] = k
          /\ \/ /\ t.state = "waiting"
                /\ wait[t.waitingFor].state \in {"watching", "terminal", "delivery_failed"}
             \/ t.state = "uncertain" /\ wait[t.waitingFor].state = "cancelled"
    /\ ~Occupied(t) => t.state \in {"unregistered", "idle", "completed", "needs_input"}

(* No orphans: every run that is queued or running is the current one of its *)
(* task, and every wait that can still report is the one its task waits for, *)
(* so no live lease or live wait exists that the fence does not account for  *)
(* (finish, reconcile, synchronizeDeliveryOutcomes and waitProcess each drop *)
(* the pointer and the record together).                                     *)
NoOrphans ==
    /\ \A d \in Dispatch : run[d].state \in {"queued", "running"} =>
          run[d].task \in Task /\ task[run[d].task].currentRun = d
    /\ \A w \in Wait : wait[w].state \in {"watching", "terminal", "delivery_failed"} =>
          task[w[1]].waitingFor = w /\ task[w[1]].state = "waiting"

Consistent == NoOrphans /\ \A k \in Task : TaskMatches(k)

(* A run given up as rejected, after a delivery that failed, was never      *)
(* received by the platform: no Chat is working on it unfenced              *)
(* (synchronizeDeliveryOutcomes with the ambiguity counting of flush).      *)
RejectionIsDefinitive ==
    \A d \in Dispatch :
        run[d].outcome = "delivery_rejected" /\ row[d].state = "failed" =>
            d \notin received

(* The same without the exception for deliveries that were cancelled: the   *)
(* claim made of synchronizeDeliveryOutcomes by its comment.                *)
RejectedNeverReceived ==
    \A d \in Dispatch : run[d].outcome = "delivery_rejected" => d \notin received

(* One completion of a process reaches the platform once: of two runs made  *)
(* for it, one at most was received, cancelled deliveries aside             *)
(* (resumeProcessWait, the rearming in setEnabled after a rejected          *)
(* notification, and the ambiguity that forbids it).                        *)
CompletionReceivedOnce ==
    \A w \in Wait, d, e \in Dispatch :
        /\ run[d].origin = FromProcess(w) /\ d \in received
        /\ run[e].origin = FromProcess(w) /\ e \in received
        /\ row[d].state # "cancelled" /\ row[e].state # "cancelled"
        => d = e

(* The saved receipt of a process is never mistaken for a duplicate: while  *)
(* a wait is terminal no idempotency record of its key is left, also after  *)
(* earlier notifications of it were rejected (synchronizeDeliveryOutcomes   *)
(* removes the request, resumeProcessWait meets enqueue's duplicate test).  *)
ReceiptNotSwallowed ==
    \A w \in Wait : wait[w].state = "terminal" =>
        ~\E d \in recorded : run[d].origin = FromProcess(w) /\ run[d].task = w[1]

(* The event of a task's current run goes to the Chat the task is bound to: *)
(* no rebinding moves a task away from a run that may already be working    *)
(* (bind against enqueue, claim and the outbox).                            *)
DeliveredToBinding ==
    \A k \in Task : task[k].currentRun # NoDispatch =>
        row[task[k].currentRun].sub = task[k].sub

-----------------------------------------------------------------------------
(* Action properties                                                        *)

(* A task gives up its workspace only because its run reported with a lease *)
(* that had not gone stale, its delivery was rejected without an ambiguous  *)
(* attempt, or an operator reconciled it (actor, synchronizeDelivery-       *)
(* Outcomes, cancelProcessWait: neither time nor a cancelled notification   *)
(* frees it).                                                               *)
ReleaseJustified ==
    [][\A k \in Task :
          LET d == task[k].currentRun IN
          Occupied(task[k]) /\ ~Occupied(task'[k]) =>
             \/ /\ d # NoDispatch
                /\ \/ run[d].lease > 0 /\ run'[d].outcome = "reported"
                   \/ ~row[d].ambiguous /\ run'[d].outcome = "delivery_rejected"
                   \/ run'[d].outcome = "reconciled"
             \/ d = NoDispatch /\ wait'[task[k].waitingFor].state = "cancelled"]_vars

(* A paused task starts nothing: no run of it is queued or claimed and it   *)
(* dispatches to no other task, in any transaction, a run queued or leased  *)
(* before the pause included (the enabled tests of enqueue, claim and       *)
(* dispatch).                                                               *)
PausedStartsNothing ==
    [][\A k \in Task, d \in Dispatch :
          ~task[k].enabled =>
             /\ run[d].state = "none" /\ run'[d].state = "queued" =>
                   /\ run'[d].task # k
                   /\ task[k].currentRun # NoDispatch =>
                         run'[d].origin.run # task[k].currentRun
             /\ run[d].state = "queued" /\ run'[d].state = "running" =>
                   run[d].task # k]_vars

(* A run ends once: whatever arrives late for a finished or cancelled run   *)
(* changes nothing in it, and a lease is never given out twice for one      *)
(* dispatch (claim, finish, heartbeat, reconcile and                        *)
(* synchronizeDeliveryOutcomes on runs that are not current any more).      *)
RunsEndOnce ==
    [][\A d \in Dispatch :
          run[d].state \in {"finished", "cancelled"} => run'[d] = run[d]]_run

-----------------------------------------------------------------------------
(* Liveness                                                                 *)

\* Nothing that an operator controls stands in the way of reporting w.
Reportable(w) ==
    /\ task[w[1]].enabled
    /\ \E s \in Sub : Candidates(task[w[1]], w[1]) = {s}
    /\ \E d \in Dispatch : run[d].state = "none"

(* A finished process is reported: its terminal receipt does not stay       *)
(* behind once the task stays enabled and its one subscription active, and  *)
(* while run ids last (resumeProcessWait retried by the wait driver; no     *)
(* busy, workspace or duplicate refusal may block it for ever).             *)
CompletionReported ==
    \A w \in Wait :
        <>[]Reportable(w) =>
            (wait[w].state = "terminal" ~> wait[w].state # "terminal")
=============================================================================
