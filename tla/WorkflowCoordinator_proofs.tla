--------------------- MODULE WorkflowCoordinator_proofs ---------------------
(* Proofs about the workflow coordinator, for any tasks, workspaces,         *)
(* subscriptions, sessions and runs.                                         *)
EXTENDS WorkflowCoordinator, DeliveryRows_proofs

(***************************************************************************)
(* The inductive invariant.  Its parts are predicates on a task table T, a *)
(* run table R, a wait table W and a set S of recorded runs, so that they  *)
(* can be stated of the tables in the middle of a transaction too: those   *)
(* that synchronizeDeliveryOutcomes leaves behind for enqueue.             *)
(***************************************************************************)
Typed(T, R, W, S) ==
    /\ T \in [Task -> TaskRecord]
    /\ R \in [Dispatch -> RunRecord]
    /\ W \in [Wait -> WaitRecord]
    /\ S \subseteq Dispatch

Exclusive(T) ==
    \A j, k \in Task :
        /\ WorkspaceOf[j] = WorkspaceOf[k] /\ WorkspaceOf[j] # NoWorkspace
        /\ Occupied(T[j]) /\ Occupied(T[k])
        => j = k

LiveRun == {"queued", "running"}
LiveWait == {"watching", "terminal", "delivery_failed"}

\* Live runs and live waits are the ones their tasks point at.
Owned(T, R, W) ==
    /\ \A d \in Dispatch : R[d].state \in LiveRun =>
          R[d].task \in Task /\ T[R[d].task].currentRun = d
    /\ \A w \in Wait : W[w].state \in LiveWait =>
          T[w[1]].waitingFor = w /\ T[w[1]].state = "waiting"

\* A task's state, run and wait agree.
Matching(T, R, W) ==
    \A k \in Task :
        /\ T[k].currentRun # NoDispatch =>
              /\ T[k].waitingFor = NoWait
              /\ R[T[k].currentRun].task = k
              /\ \/ T[k].state = "running" /\ R[T[k].currentRun].state = "running"
                 \/ T[k].state \in {"queued", "uncertain"}
                    /\ R[T[k].currentRun].state = "queued"
        /\ T[k].waitingFor # NoWait =>
              /\ T[k].waitingFor[1] = k
              /\ \/ T[k].state = "waiting" /\ W[T[k].waitingFor].state \in LiveWait
                 \/ T[k].state = "uncertain" /\ W[T[k].waitingFor].state = "cancelled"
        /\ T[k].state \in {"queued", "running", "waiting", "uncertain"} => Occupied(T[k])

\* A dispatched wait and the run that reports it name each other, and a run made
\* for a wait that is not that run was rejected.
Noticed(R, W) ==
    /\ \A w \in Wait : W[w].state = "dispatched" =>
          /\ W[w].dispatch \in Dispatch
          /\ R[W[w].dispatch].task = w[1]
          /\ R[W[w].dispatch].origin.wait = w
    /\ \A d \in Dispatch :
          R[d].origin.wait # NoWait /\ R[d].outcome # "delivery_rejected" =>
              /\ W[R[d].origin.wait].state = "dispatched"
              /\ W[R[d].origin.wait].dispatch = d

\* Unused run ids are blank, rejected runs are over and no longer recorded.
Recorded(R, S) ==
    /\ \A d \in Dispatch : R[d].state = "none" =>
          R[d].outcome = "none" /\ R[d].origin = NoOrigin
    /\ \A d \in Dispatch : R[d].outcome = "delivery_rejected" =>
          R[d].state = "cancelled" /\ d \notin S
    /\ \A d \in S : R[d].state # "none"

Coherent(T, R, W, S) ==
    /\ Typed(T, R, W, S)
    /\ Exclusive(T)
    /\ Owned(T, R, W)
    /\ Matching(T, R, W)
    /\ Noticed(R, W)
    /\ Recorded(R, S)

\* A run is rejected on the strength of a final row without ambiguous attempts.
RejectedRows ==
    \A d \in Dispatch : run[d].outcome = "delivery_rejected" =>
        row[d].state \in {"failed", "cancelled"} /\ ~row[d].ambiguous

IInv ==
    /\ DeliveryInv
    /\ Coherent(task, run, wait, recorded)
    /\ RejectedRows

-----------------------------------------------------------------------------
(* synchronizeDeliveryOutcomes                                               *)

(* A rejected run is the queued, current run of the one task it was for.     *)
LEMMA RejectedRunsAre ==
    ASSUME Coherent(task, run, wait, recorded)
    PROVE  /\ RejectedRuns \subseteq Dispatch
           /\ \A k \in Task : Rejected(k) <=> task[k].currentRun \in RejectedRuns
           /\ \A r \in RejectedRuns : /\ run[r].state = "queued"
                                     /\ run[r].task \in Task
                                     /\ task[run[r].task].currentRun = r
<1>1. \A k \in Task : Rejected(k) =>
          /\ task[k].currentRun \in Dispatch
          /\ run[task[k].currentRun].state = "queued"
          /\ run[task[k].currentRun].task = k
      BY DEF Coherent, Typed, Matching, Rejected, Stalled, TaskRecord
<1>2. \A k \in Task : task[k].currentRun \in Dispatch =>
          run[task[k].currentRun].task = k
      BY CoordinatorAssumption DEF Coherent, Matching
<1>3. \A r \in RejectedRuns : \E k \in Task : Rejected(k) /\ r = task[k].currentRun
      BY DEF RejectedRuns
<1>4. ASSUME NEW k \in Task, task[k].currentRun \in RejectedRuns
      PROVE  Rejected(k)
      BY <1>1, <1>2, <1>3, <1>4
<1>5. ASSUME NEW k \in Task, Rejected(k)
      PROVE  task[k].currentRun \in RejectedRuns
      BY <1>5 DEF RejectedRuns
<1> QED
    BY <1>1, <1>3, <1>4, <1>5

(* The four things that can become of a task.                                *)
LEMMA SyncedTaskCases ==
    ASSUME NEW k \in Task
    PROVE  \/ ~Rejected(k) /\ ~Doubtful(k) /\ SyncedTask[k] = task[k]
           \/ Doubtful(k) /\ ~Rejected(k)
              /\ SyncedTask[k] = [task[k] EXCEPT !.state = "uncertain"]
           \/ Rejected(k) /\ NoticesOf(task[k].currentRun) = {}
              /\ SyncedTask[k] = [task[k] EXCEPT !.state = "idle",
                                                !.currentRun = NoDispatch]
           \/ Rejected(k) /\ \E w \in NoticesOf(task[k].currentRun) :
                 SyncedTask[k] = [task[k] EXCEPT !.state = "waiting",
                                                 !.currentRun = NoDispatch,
                                                 !.waitingFor = w]
<1>1. ASSUME NEW S, S # {}
      PROVE  (CHOOSE w \in S : TRUE) \in S
      BY <1>1
<1>2. Doubtful(k) => ~Rejected(k)
      BY DEF Rejected
<1> QED
    BY <1>1, <1>2 DEF SyncedTask

(* The tables it leaves keep every part of the invariant.                    *)
LEMMA SyncTyped ==
    ASSUME Coherent(task, run, wait, recorded)
    PROVE  Typed(SyncedTask, SyncedRun, SyncedWait, SyncedRecorded)
<1> USE DEF Coherent, Typed
<1>1. ASSUME NEW k \in Task
      PROVE  SyncedTask[k] \in TaskRecord
  <2>1. task[k] \in TaskRecord /\ NoticesOf(task[k].currentRun) \subseteq Wait
        BY DEF NoticesOf
  <2> USE <2>1 DEF TaskRecord, TaskState
  <2>2. CASE SyncedTask[k] = task[k]
        BY <2>2
  <2>3. CASE SyncedTask[k] = [task[k] EXCEPT !.state = "uncertain"]
        BY <2>3
  <2>4. CASE SyncedTask[k] = [task[k] EXCEPT !.state = "idle",
                                             !.currentRun = NoDispatch]
        BY <2>4
  <2>5. ASSUME NEW w \in NoticesOf(task[k].currentRun),
               SyncedTask[k] = [task[k] EXCEPT !.state = "waiting",
                                               !.currentRun = NoDispatch,
                                               !.waitingFor = w]
        PROVE  SyncedTask[k] \in TaskRecord
    <3>1. w \in Wait
          BY <2>1
    <3> QED
        BY <2>5, <3>1
  <2> QED
      BY <2>2, <2>3, <2>4, <2>5, SyncedTaskCases
<1>2. SyncedTask \in [Task -> TaskRecord]
      BY <1>1 DEF SyncedTask
<1>3. SyncedRun \in [Dispatch -> RunRecord]
      BY DEF SyncedRun, RunRecord, RunState, Outcome
<1>4. SyncedWait \in [Wait -> WaitRecord]
      BY DEF SyncedWait, WaitRecord, WaitState
<1> QED
    BY <1>2, <1>3, <1>4 DEF SyncedRecorded

(* What it changes in a task, a run and a wait.                              *)
LEMMA SyncRunEffect ==
    ASSUME NEW d \in Dispatch
    PROVE  /\ d \notin RejectedRuns => SyncedRun[d] = run[d]
           /\ d \in RejectedRuns =>
                 SyncedRun[d] = [run[d] EXCEPT !.state = "cancelled",
                                               !.outcome = "delivery_rejected"]
BY DEF SyncedRun

LEMMA SyncWaitEffect ==
    ASSUME NEW w \in Wait
    PROVE  IF wait[w].state = "dispatched" /\ wait[w].dispatch \in RejectedRuns
           THEN SyncedWait[w] = [wait[w] EXCEPT !.state = "delivery_failed"]
           ELSE SyncedWait[w] = wait[w]
BY DEF SyncedWait

LEMMA SyncTaskEffect ==
    ASSUME Coherent(task, run, wait, recorded), NEW k \in Task
    PROVE  /\ Occupied(SyncedTask[k]) => Occupied(task[k])
           /\ SyncedTask[k].enabled = task[k].enabled
           /\ SyncedTask[k].sub = task[k].sub
           /\ task[k].state # "queued" => SyncedTask[k] = task[k]
<1> USE DEF TaskRecord
<1>1. task[k] \in TaskRecord
      BY DEF Coherent, Typed
<1>2. CASE SyncedTask[k] = task[k]
      BY <1>2
<1>3. CASE Doubtful(k) /\ SyncedTask[k] = [task[k] EXCEPT !.state = "uncertain"]
      BY <1>1, <1>3 DEF Occupied, Doubtful, Stalled
<1>4. CASE Rejected(k) /\ SyncedTask[k] = [task[k] EXCEPT !.state = "idle",
                                                         !.currentRun = NoDispatch]
      BY <1>1, <1>4 DEF Occupied, Rejected, Stalled
<1>5. ASSUME Rejected(k), NEW w,
             SyncedTask[k] = [task[k] EXCEPT !.state = "waiting",
                                             !.currentRun = NoDispatch,
                                             !.waitingFor = w]
      PROVE  /\ Occupied(SyncedTask[k]) => Occupied(task[k])
             /\ SyncedTask[k].enabled = task[k].enabled
             /\ SyncedTask[k].sub = task[k].sub
             /\ task[k].state # "queued" => SyncedTask[k] = task[k]
      BY <1>1, <1>5 DEF Occupied, Rejected, Stalled
<1> QED
    BY <1>2, <1>3, <1>4, <1>5, SyncedTaskCases

LEMMA SyncCoherent ==
    ASSUME Coherent(task, run, wait, recorded)
    PROVE  Coherent(SyncedTask, SyncedRun, SyncedWait, SyncedRecorded)
<1>1. /\ task \in [Task -> TaskRecord]
      /\ run \in [Dispatch -> RunRecord]
      /\ wait \in [Wait -> WaitRecord]
      /\ recorded \subseteq Dispatch
      BY DEF Coherent, Typed
\* The fields of what it may write.
<1>2. ASSUME NEW d \in RejectedRuns
      PROVE  /\ SyncedRun[d].state = "cancelled"
             /\ SyncedRun[d].outcome = "delivery_rejected"
             /\ SyncedRun[d].task = run[d].task
             /\ SyncedRun[d].origin = run[d].origin
  <2>1. d \in Dispatch /\ run[d] \in RunRecord
        BY <1>1, RejectedRunsAre
  <2> QED
      BY <2>1, SyncRunEffect DEF RunRecord
<1>3. ASSUME NEW w \in Wait, wait[w].state = "dispatched",
             wait[w].dispatch \in RejectedRuns
      PROVE  SyncedWait[w].state = "delivery_failed"
  <2>1. wait[w] \in WaitRecord
        BY <1>1
  <2> QED
      BY <1>3, <2>1, SyncWaitEffect DEF WaitRecord
\* The one notice of a rejected run.
<1>4. ASSUME NEW r \in RejectedRuns, NEW w \in NoticesOf(r)
      PROVE  w \in Wait /\ w = run[r].origin.wait /\ w[1] = run[r].task
      BY <1>4 DEF NoticesOf, Coherent, Noticed
<1>5. Exclusive(SyncedTask)
  <2>1. \A k \in Task : Occupied(SyncedTask[k]) => Occupied(task[k])
        BY SyncTaskEffect
  <2>2. Exclusive(task)
        BY DEF Coherent
  <2> QED
      BY <2>1, <2>2 DEF Exclusive
<1>6. Owned(SyncedTask, SyncedRun, SyncedWait)
  <2>1. ASSUME NEW d \in Dispatch, SyncedRun[d].state \in LiveRun
        PROVE  SyncedRun[d].task \in Task /\ SyncedTask[SyncedRun[d].task].currentRun = d
    <3>1. d \notin RejectedRuns
          BY <1>2, <2>1 DEF LiveRun
    <3>2. SyncedRun[d] = run[d]
          BY <3>1, SyncRunEffect
    <3>3. run[d].task \in Task /\ task[run[d].task].currentRun = d
          BY <2>1, <3>2 DEF Coherent, Owned
    <3>4. ~Rejected(run[d].task)
          BY <3>1, <3>3, RejectedRunsAre
    <3>5. task[run[d].task] \in TaskRecord
          BY <1>1, <3>3
    <3> DEFINE k == run[d].task
    <3>6. SyncedTask[k] = task[k] \/ SyncedTask[k] = [task[k] EXCEPT !.state = "uncertain"]
          BY <3>3, <3>4, SyncedTaskCases
    <3>7. SyncedTask[k].currentRun = task[k].currentRun
          BY <3>5, <3>6 DEF TaskRecord
    <3> QED
        BY <3>2, <3>3, <3>7
  <2>2. ASSUME NEW w \in Wait, SyncedWait[w].state \in LiveWait
        PROVE  SyncedTask[w[1]].waitingFor = w /\ SyncedTask[w[1]].state = "waiting"
    <3>0. w[1] \in Task
          BY DEF Wait
    <3>1. CASE wait[w].state = "dispatched" /\ wait[w].dispatch \in RejectedRuns
      <4> DEFINE r == wait[w].dispatch
      <4>1. w \in NoticesOf(r)
            BY <3>1 DEF NoticesOf
      <4>2. run[r].task = w[1] /\ task[w[1]].currentRun = r
            BY <3>1, <4>1, <1>4, RejectedRunsAre
      <4>3. Rejected(w[1])
            BY <3>0, <3>1, <4>2, RejectedRunsAre
      <4>4. PICK v \in NoticesOf(r) :
              SyncedTask[w[1]] = [task[w[1]] EXCEPT !.state = "waiting",
                                                    !.currentRun = NoDispatch,
                                                    !.waitingFor = v]
            BY <3>0, <4>1, <4>2, <4>3, SyncedTaskCases
      <4>5. v = w
            BY <3>1, <4>1, <1>4
      <4>6. task[w[1]] \in TaskRecord
            BY <1>1, <3>0
      <4> QED
          BY <4>4, <4>5, <4>6 DEF TaskRecord
    <3>2. CASE ~(wait[w].state = "dispatched" /\ wait[w].dispatch \in RejectedRuns)
      <4>1. wait[w].state \in LiveWait
            BY <2>2, <3>2, SyncWaitEffect
      <4>2. task[w[1]].waitingFor = w /\ task[w[1]].state = "waiting"
            BY <4>1 DEF Coherent, Owned
      <4>3. SyncedTask[w[1]] = task[w[1]]
            BY <3>0, <4>2, SyncTaskEffect
      <4> QED
          BY <4>2, <4>3
    <3> QED
        BY <3>1, <3>2
  <2> QED
      BY <2>1, <2>2 DEF Owned
<1>7. Matching(SyncedTask, SyncedRun, SyncedWait)
  <2> SUFFICES ASSUME NEW k \in Task
               PROVE  LET T == SyncedTask R == SyncedRun W == SyncedWait IN
        /\ T[k].currentRun # NoDispatch =>
              /\ T[k].waitingFor = NoWait
              /\ R[T[k].currentRun].task = k
              /\ \/ T[k].state = "running" /\ R[T[k].currentRun].state = "running"
                 \/ T[k].state \in {"queued", "uncertain"}
                    /\ R[T[k].currentRun].state = "queued"
        /\ T[k].waitingFor # NoWait =>
              /\ T[k].waitingFor[1] = k
              /\ \/ T[k].state = "waiting" /\ W[T[k].waitingFor].state \in LiveWait
                 \/ T[k].state = "uncertain" /\ W[T[k].waitingFor].state = "cancelled"
        /\ T[k].state \in {"queued", "running", "waiting", "uncertain"} => Occupied(T[k])
      BY DEF Matching
  <2>0. task[k] \in TaskRecord
        BY <1>1
  <2>1. /\ task[k].currentRun # NoDispatch =>
              /\ task[k].waitingFor = NoWait
              /\ run[task[k].currentRun].task = k
              /\ \/ task[k].state = "running" /\ run[task[k].currentRun].state = "running"
                 \/ task[k].state \in {"queued", "uncertain"}
                    /\ run[task[k].currentRun].state = "queued"
        /\ task[k].waitingFor # NoWait =>
              /\ task[k].waitingFor[1] = k
              /\ \/ task[k].state = "waiting" /\ wait[task[k].waitingFor].state \in LiveWait
                 \/ task[k].state = "uncertain" /\ wait[task[k].waitingFor].state = "cancelled"
        /\ task[k].state \in {"queued", "running", "waiting", "uncertain"} => Occupied(task[k])
        BY DEF Coherent, Matching
  <2>2. task[k].waitingFor # NoWait => SyncedWait[task[k].waitingFor] = wait[task[k].waitingFor]
        BY <2>0, <2>1, SyncWaitEffect DEF TaskRecord, LiveWait
  <2>3. ~Rejected(k) /\ task[k].currentRun # NoDispatch =>
           SyncedRun[task[k].currentRun] = run[task[k].currentRun]
        BY <2>0, RejectedRunsAre, SyncRunEffect DEF TaskRecord
  <2>4. CASE ~Rejected(k) /\ SyncedTask[k] = task[k]
        BY <2>1, <2>2, <2>3, <2>4
  <2>5. CASE Doubtful(k) /\ ~Rejected(k)
             /\ SyncedTask[k] = [task[k] EXCEPT !.state = "uncertain"]
    <3>1. task[k].state = "queued" /\ task[k].currentRun # NoDispatch
          BY <2>5 DEF Doubtful, Stalled
    <3> QED
        BY <2>0, <2>1, <2>3, <2>5, <3>1 DEF TaskRecord, Occupied
  <2>6. CASE Rejected(k) /\ SyncedTask[k] = [task[k] EXCEPT !.state = "idle",
                                                           !.currentRun = NoDispatch]
    <3>1. task[k].state = "queued" /\ task[k].currentRun # NoDispatch
          BY <2>6 DEF Rejected, Stalled
    <3> QED
        BY <2>0, <2>1, <2>6, <3>1 DEF TaskRecord, Occupied
  <2>7. ASSUME Rejected(k), NEW w \in NoticesOf(task[k].currentRun),
               SyncedTask[k] = [task[k] EXCEPT !.state = "waiting",
                                               !.currentRun = NoDispatch,
                                               !.waitingFor = w]
        PROVE  /\ SyncedTask[k].currentRun = NoDispatch
               /\ SyncedTask[k].waitingFor = w /\ SyncedTask[k].state = "waiting"
               /\ w \in Wait /\ w[1] = k /\ SyncedWait[w].state = "delivery_failed"
    <3>1. task[k].currentRun \in RejectedRuns /\ run[task[k].currentRun].task = k
          BY <2>7, <2>1, RejectedRunsAre DEF Rejected, Stalled
    <3>2. w \in Wait /\ w[1] = k
          BY <2>7, <3>1, <1>4
    <3>3. SyncedWait[w].state = "delivery_failed"
          BY <2>7, <3>1, <3>2, <1>3 DEF NoticesOf
    <3> QED
        BY <2>0, <2>7, <3>2, <3>3 DEF TaskRecord
  <2>8. CASE Rejected(k) /\ \E w \in NoticesOf(task[k].currentRun) :
                 SyncedTask[k] = [task[k] EXCEPT !.state = "waiting",
                                                 !.currentRun = NoDispatch,
                                                 !.waitingFor = w]
        BY <2>7, <2>8, CoordinatorAssumption DEF LiveWait, Occupied
  <2> QED
      BY <2>4, <2>5, <2>6, <2>8, SyncedTaskCases
<1>8. Noticed(SyncedRun, SyncedWait)
  <2>1. ASSUME NEW w \in Wait, SyncedWait[w].state = "dispatched"
        PROVE  /\ SyncedWait[w].dispatch \in Dispatch
               /\ SyncedRun[SyncedWait[w].dispatch].task = w[1]
               /\ SyncedRun[SyncedWait[w].dispatch].origin.wait = w
    <3>1. wait[w].state = "dispatched" /\ wait[w].dispatch \notin RejectedRuns
          /\ SyncedWait[w] = wait[w]
          BY <1>3, <2>1, SyncWaitEffect
    <3>2. wait[w].dispatch \in Dispatch /\ run[wait[w].dispatch].task = w[1]
          /\ run[wait[w].dispatch].origin.wait = w
          BY <3>1 DEF Coherent, Noticed
    <3> QED
        BY <3>1, <3>2, SyncRunEffect, SyncWaitEffect, ZenonT(40)
  <2>2. ASSUME NEW d \in Dispatch, SyncedRun[d].origin.wait # NoWait,
               SyncedRun[d].outcome # "delivery_rejected"
        PROVE  /\ SyncedWait[SyncedRun[d].origin.wait].state = "dispatched"
               /\ SyncedWait[SyncedRun[d].origin.wait].dispatch = d
    <3>1. d \notin RejectedRuns /\ SyncedRun[d] = run[d]
          BY <1>2, <2>2, SyncRunEffect
    <3>2. wait[run[d].origin.wait].state = "dispatched"
          /\ wait[run[d].origin.wait].dispatch = d
          BY <2>2, <3>1 DEF Coherent, Noticed
    <3>3. run[d].origin.wait \in Wait
          BY <1>1, <2>2, <3>1 DEF RunRecord, Origin
    <3> QED
        BY <3>1, <3>2, <3>3, SyncWaitEffect
  <2> QED
      BY <2>1, <2>2 DEF Noticed
<1>9. Recorded(SyncedRun, SyncedRecorded)
  <2>1. \A d \in Dispatch : SyncedRun[d].state = "none" => SyncedRun[d] = run[d]
        BY <1>2, SyncRunEffect
  <2>2. \A d \in RejectedRuns : d \notin SyncedRecorded
        BY DEF SyncedRecorded
  <2>3. \A d \in Dispatch : SyncedRun[d].outcome = "delivery_rejected" =>
            SyncedRun[d].state = "cancelled" /\ d \notin SyncedRecorded
    <3>1. ASSUME NEW d \in Dispatch, d \notin RejectedRuns,
                 SyncedRun[d].outcome = "delivery_rejected"
          PROVE  SyncedRun[d].state = "cancelled" /\ d \notin SyncedRecorded
      <4>1. SyncedRun[d] = run[d]
            BY <3>1, SyncRunEffect
      <4> QED
          BY <3>1, <4>1 DEF Coherent, Recorded, SyncedRecorded
    <3> QED
        BY <1>2, <2>2, <3>1
  <2>4. \A d \in SyncedRecorded : SyncedRun[d].state # "none"
        BY <1>1, <2>1 DEF Coherent, Recorded, SyncedRecorded
  <2> QED
      BY <2>1, <2>3, <2>4 DEF Coherent, Recorded
<1> QED
    BY <1>5, <1>6, <1>7, <1>8, <1>9, SyncTyped DEF Coherent

-----------------------------------------------------------------------------
(* enqueue                                                                   *)

(* Minting a run d for task k out of coherent tables leaves coherent tables, *)
(* whether k was idle or waited for a terminal process whose wait is         *)
(* dispatched to d in the same transaction.                                  *)
LEMMA EnqueueCoherent ==
    ASSUME NEW T, NEW R, NEW W, NEW S, NEW V, NEW k \in Task, NEW d \in Dispatch,
           NEW t \in TaskRecord, NEW r \in RunRecord,
           Coherent(T, R, W, S),
           R[d].state = "none",
           T[k].currentRun = NoDispatch,
           ~WorkspaceBusy(T, k),
           t.state = "queued", t.currentRun = d, t.waitingFor = NoWait,
           r.state = "queued", r.task = k, r.outcome = "none",
           r.origin.wait = T[k].waitingFor,
           V \in [Wait -> WaitRecord],
           \A w \in Wait : w # T[k].waitingFor => V[w] = W[w],
           T[k].waitingFor # NoWait =>
               /\ W[T[k].waitingFor].state = "terminal"
               /\ V[T[k].waitingFor].state = "dispatched"
               /\ V[T[k].waitingFor].dispatch = d
    PROVE  Coherent(Put(T, k, t), Put(R, d, r), V, S \cup {d})
<1> DEFINE T2 == Put(T, k, t)
           R2 == Put(R, d, r)
           S2 == S \cup {d}
<1>1. /\ T \in [Task -> TaskRecord] /\ R \in [Dispatch -> RunRecord]
      /\ W \in [Wait -> WaitRecord] /\ S \subseteq Dispatch
      BY DEF Coherent, Typed
<1>2. /\ T2 \in [Task -> TaskRecord] /\ T2[k] = t
      /\ \A j \in Task \ {k} : T2[j] = T[j]
      BY <1>1 DEF Put
<1>3. /\ R2 \in [Dispatch -> RunRecord] /\ R2[d] = r
      /\ \A e \in Dispatch \ {d} : R2[e] = R[e]
      BY <1>1 DEF Put
<1> HIDE DEF T2, R2
<1>4. d \notin S /\ R[d].outcome = "none" /\ R[d].origin.wait = NoWait
      BY DEF Coherent, Recorded, NoOrigin
<1>5. T[k].waitingFor # NoWait => T[k].waitingFor \in Wait /\ T[k].waitingFor[1] = k
      BY <1>1 DEF Coherent, Matching, TaskRecord
<1>6. Typed(T2, R2, V, S2)
      BY <1>1, <1>2, <1>3 DEF Typed
<1>7. Exclusive(T2)
  <2>1. \A j \in Task \ {k} : /\ WorkspaceOf[j] = WorkspaceOf[k]
                             /\ WorkspaceOf[k] # NoWorkspace
                             => ~Occupied(T2[j])
        BY <1>2 DEF WorkspaceBusy
  <2>2. Exclusive(T)
        BY DEF Coherent
  <2> QED
      BY <1>2, <2>1, <2>2 DEF Exclusive
<1>8. Owned(T2, R2, V)
  <2>1. ASSUME NEW e \in Dispatch, R2[e].state \in LiveRun
        PROVE  R2[e].task \in Task /\ T2[R2[e].task].currentRun = e
    <3>1. CASE e = d
          BY <1>2, <1>3, <3>1
    <3>2. CASE e # d
      <4>1. R[e].task \in Task /\ T[R[e].task].currentRun = e
            BY <1>3, <2>1, <3>2 DEF Coherent, Owned
      <4>2. R[e].task # k
            BY <4>1, CoordinatorAssumption
      <4> QED
          BY <1>2, <1>3, <3>2, <4>1, <4>2
    <3> QED
        BY <3>1, <3>2
  <2>2. ASSUME NEW w \in Wait, V[w].state \in LiveWait
        PROVE  T2[w[1]].waitingFor = w /\ T2[w[1]].state = "waiting"
    <3>0. w[1] \in Task
          BY DEF Wait
    <3>1. w # T[k].waitingFor
      <4>1. "dispatched" \notin LiveWait
            BY DEF LiveWait
      <4> QED
          BY <2>2, <4>1, CoordinatorAssumption
    <3>2. T[w[1]].waitingFor = w /\ T[w[1]].state = "waiting"
          BY <2>2, <3>1 DEF Coherent, Owned
    <3>3. w[1] # k
          BY <3>1, <3>2
    <3> QED
        BY <1>2, <3>0, <3>2, <3>3
  <2> QED
      BY <2>1, <2>2 DEF Owned
<1>9. Matching(T2, R2, V)
  <2> SUFFICES ASSUME NEW j \in Task
               PROVE
        /\ T2[j].currentRun # NoDispatch =>
              /\ T2[j].waitingFor = NoWait
              /\ R2[T2[j].currentRun].task = j
              /\ \/ T2[j].state = "running" /\ R2[T2[j].currentRun].state = "running"
                 \/ T2[j].state \in {"queued", "uncertain"}
                    /\ R2[T2[j].currentRun].state = "queued"
        /\ T2[j].waitingFor # NoWait =>
              /\ T2[j].waitingFor[1] = j
              /\ \/ T2[j].state = "waiting" /\ V[T2[j].waitingFor].state \in LiveWait
                 \/ T2[j].state = "uncertain" /\ V[T2[j].waitingFor].state = "cancelled"
        /\ T2[j].state \in {"queued", "running", "waiting", "uncertain"} => Occupied(T2[j])
      BY DEF Matching
  <2>1. CASE j = k
        BY <1>2, <1>3, <2>1, CoordinatorAssumption DEF Occupied
  <2>2. CASE j # k
    <3>1. T2[j] = T[j] /\ T[j] \in TaskRecord
          BY <1>1, <1>2, <2>2
    <3>2. T[j].currentRun # NoDispatch => R2[T[j].currentRun] = R[T[j].currentRun]
          BY <1>3, <3>1 DEF Coherent, Matching, TaskRecord
    <3>3. T[j].waitingFor # NoWait => V[T[j].waitingFor] = W[T[j].waitingFor]
      <4>1. ASSUME T[j].waitingFor # NoWait
            PROVE  T[j].waitingFor \in Wait /\ T[j].waitingFor # T[k].waitingFor
            BY <1>5, <2>2, <3>1, <4>1 DEF Coherent, Matching, TaskRecord
      <4> QED
          BY <4>1
    <3> QED
        BY <3>1, <3>2, <3>3 DEF Coherent, Matching
  <2> QED
      BY <2>1, <2>2
<1>10. Noticed(R2, V)
  <2>1. ASSUME NEW w \in Wait, V[w].state = "dispatched"
        PROVE  /\ V[w].dispatch \in Dispatch
               /\ R2[V[w].dispatch].task = w[1]
               /\ R2[V[w].dispatch].origin.wait = w
    <3>1. CASE w = T[k].waitingFor
      <4>1. w # NoWait
            BY CoordinatorAssumption
      <4> QED
          BY <1>3, <1>5, <3>1, <4>1
    <3>2. CASE w # T[k].waitingFor
      <4>1. /\ V[w] = W[w] /\ W[w].dispatch \in Dispatch
            /\ R[W[w].dispatch].task = w[1]
            /\ R[W[w].dispatch].origin.wait = w
            BY <2>1, <3>2 DEF Coherent, Noticed
      <4>2. W[w].dispatch # d
            BY <1>4, <4>1, CoordinatorAssumption
      <4> QED
          BY <1>3, <4>1, <4>2
    <3> QED
        BY <3>1, <3>2
  <2>2. ASSUME NEW e \in Dispatch, R2[e].origin.wait # NoWait,
               R2[e].outcome # "delivery_rejected"
        PROVE  /\ V[R2[e].origin.wait].state = "dispatched"
               /\ V[R2[e].origin.wait].dispatch = e
    <3>1. CASE e = d
          BY <1>3, <2>2, <3>1
    <3>2. CASE e # d
      <4>1. R2[e] = R[e] /\ R[e].origin.wait \in Wait
            BY <1>1, <1>3, <2>2, <3>2 DEF RunRecord, Origin
      <4>2. W[R[e].origin.wait].state = "dispatched" /\ W[R[e].origin.wait].dispatch = e
            BY <2>2, <4>1 DEF Coherent, Noticed
      <4>3. R[e].origin.wait # T[k].waitingFor
            BY <2>2, <4>1, <4>2
      <4> QED
          BY <4>1, <4>2, <4>3
    <3> QED
        BY <3>1, <3>2
  <2> QED
      BY <2>1, <2>2 DEF Noticed
<1>11. Recorded(R2, S2)
  <2>1. Recorded(R, S)
        BY DEF Coherent
  <2>2. ASSUME NEW e \in Dispatch
        PROVE  /\ R2[e].state = "none" => R2[e].outcome = "none" /\ R2[e].origin = NoOrigin
               /\ R2[e].outcome = "delivery_rejected" =>
                     R2[e].state = "cancelled" /\ e \notin S2
               /\ e \in S2 => R2[e].state # "none"
        BY <1>3, <2>1 DEF Recorded
  <2> QED
      BY <1>1, <2>2 DEF Recorded
<1> QED
    BY <1>6, <1>7, <1>8, <1>9, <1>10, <1>11 DEF Coherent, T2, R2

-----------------------------------------------------------------------------
(* One lemma per operation                                                   *)

LEMMA EnqueueEffect ==
    ASSUME Coherent(task, run, wait, recorded),
           NEW T, NEW o \in Origin, NEW k \in Task, NEW d \in Dispatch,
           DOMAIN T = Task, T[k] \in TaskRecord, Enqueue(T, o, k, d)
    PROVE  \E t \in TaskRecord, r \in RunRecord :
             /\ t.state = "queued" /\ t.currentRun = d /\ t.waitingFor = NoWait
             /\ r.state = "queued" /\ r.task = k /\ r.outcome = "none" /\ r.origin = o
             /\ task' = Put(T, k, t)
             /\ run' = Put(SyncedRun, d, r)
             /\ recorded' = SyncedRecorded \cup {d}
             /\ SyncedRun[d].state = "none"
             /\ T[k].currentRun = NoDispatch /\ ~WorkspaceBusy(T, k)
<1>1. run[d] \in RunRecord /\ run[d].state = "none" /\ run[d].outcome = "none"
      BY DEF Enqueue, Coherent, Typed, Recorded
<1>2. PICK s \in Sub : task' = Put(T, k, [T[k] EXCEPT !.state = "queued",
                                                     !.currentRun = d, !.sub = s])
      BY DEF Enqueue
<1>3. T[k].currentRun = NoDispatch /\ T[k].waitingFor = NoWait
      BY DEF Enqueue, Occupied
<1> DEFINE t == [T[k] EXCEPT !.state = "queued", !.currentRun = d, !.sub = s]
           r == [run[d] EXCEPT !.state = "queued", !.task = k, !.origin = o]
<1>4. t \in TaskRecord /\ t.state = "queued" /\ t.currentRun = d /\ t.waitingFor = NoWait
      BY <1>3 DEF TaskRecord, TaskState
<1>5. r \in RunRecord /\ r.state = "queued" /\ r.task = k /\ r.outcome = "none"
      /\ r.origin = o
      BY <1>1 DEF RunRecord, RunState
<1>6. SyncedRun[d] = run[d]
      BY <1>1, RejectedRunsAre, SyncRunEffect
<1>7. run' = Put(SyncedRun, d, r) /\ recorded' = SyncedRecorded \cup {d}
      /\ ~WorkspaceBusy(T, k)
      BY DEF Enqueue
<1> QED
    BY <1>1, <1>2, <1>3, <1>4, <1>5, <1>6, <1>7

LEMMA PlainEnqueueCoherent ==
    ASSUME Coherent(task, run, wait, recorded),
           NEW o \in Origin, o.wait = NoWait, NEW k \in Task, NEW d \in Dispatch,
           Enqueue(SyncedTask, o, k, d), wait' = SyncedWait
    PROVE  Coherent(task', run', wait', recorded')
<1>1. Coherent(SyncedTask, SyncedRun, SyncedWait, SyncedRecorded)
      BY SyncCoherent
<1>2. SyncedTask[k] \in TaskRecord /\ DOMAIN SyncedTask = Task
      /\ SyncedWait \in [Wait -> WaitRecord]
      BY <1>1 DEF Coherent, Typed
<1>3. SyncedTask[k].waitingFor = NoWait
      BY DEF Enqueue, Occupied
<1>4. PICK t \in TaskRecord, r \in RunRecord :
             /\ t.state = "queued" /\ t.currentRun = d /\ t.waitingFor = NoWait
             /\ r.state = "queued" /\ r.task = k /\ r.outcome = "none" /\ r.origin = o
             /\ task' = Put(SyncedTask, k, t)
             /\ run' = Put(SyncedRun, d, r)
             /\ recorded' = SyncedRecorded \cup {d}
             /\ SyncedRun[d].state = "none"
             /\ SyncedTask[k].currentRun = NoDispatch /\ ~WorkspaceBusy(SyncedTask, k)
      BY <1>2, EnqueueEffect
<1>5. Coherent(Put(SyncedTask, k, t), Put(SyncedRun, d, r), wait', SyncedRecorded \cup {d})
      BY <1>1, <1>2, <1>3, <1>4, EnqueueCoherent, CoordinatorAssumption
<1> QED
    BY <1>4, <1>5

LEMMA ExternalCoherent ==
    ASSUME Coherent(task, run, wait, recorded),
           NEW key \in Dedup, NEW k \in Task, NEW d \in Dispatch, External(key, k, d)
    PROVE  Coherent(task', run', wait', recorded')
BY PlainEnqueueCoherent DEF External, FromProducer, NoOrigin, Origin

LEMMA DispatchCoherent ==
    ASSUME Coherent(task, run, wait, recorded), NEW key \in Dedup, NEW k \in Task,
           NEW target \in Task, NEW d \in Dispatch, DispatchTo(k, target, key, d)
    PROVE  Coherent(task', run', wait', recorded')
<1>1. task[k].currentRun \in Dispatch
      BY DEF DispatchTo, Actor, Coherent, Typed, TaskRecord
<1> QED
    BY <1>1, PlainEnqueueCoherent DEF DispatchTo, FromRun, NoOrigin, Origin

LEMMA ResumeCoherent ==
    ASSUME Coherent(task, run, wait, recorded), NEW w \in Wait, NEW d \in Dispatch,
           ResumeProcessWait(w, d)
    PROVE  Coherent(task', run', wait', recorded')
<1> DEFINE k == w[1]
<1>1. k \in Task /\ w # NoWait
      BY CoordinatorAssumption DEF Wait
<1>2. /\ wait[w].state = "terminal" /\ task[k].waitingFor = w /\ task[k].state = "waiting"
      /\ Enqueue(ReleasedTask(k), FromProcess(w), k, d) /\ wait' = NoticeSent(w, d)
      BY DEF ResumeProcessWait
<1>3. Coherent(SyncedTask, SyncedRun, SyncedWait, SyncedRecorded)
      BY SyncCoherent
<1>4. SyncedTask \in [Task -> TaskRecord] /\ SyncedWait \in [Wait -> WaitRecord]
      /\ wait[w] \in WaitRecord /\ task[k] \in TaskRecord
      BY <1>1, <1>3 DEF Coherent, Typed
<1>5. SyncedTask[k] = task[k] /\ SyncedWait[w] = wait[w]
      BY <1>1, <1>2, SyncTaskEffect, SyncWaitEffect
<1>6. FromProcess(w) \in Origin /\ FromProcess(w).wait = w
      BY DEF FromProcess, NoOrigin, Origin
<1>7. DOMAIN ReleasedTask(k) = Task /\ ReleasedTask(k)[k] \in TaskRecord
      /\ \A j \in Task \ {k} : ReleasedTask(k)[j] = SyncedTask[j]
      BY <1>1, <1>4 DEF ReleasedTask, Put, TaskRecord, TaskState
<1>8. PICK t \in TaskRecord, r \in RunRecord :
             /\ t.state = "queued" /\ t.currentRun = d /\ t.waitingFor = NoWait
             /\ r.state = "queued" /\ r.task = k /\ r.outcome = "none"
             /\ r.origin = FromProcess(w)
             /\ task' = Put(ReleasedTask(k), k, t)
             /\ run' = Put(SyncedRun, d, r)
             /\ recorded' = SyncedRecorded \cup {d}
             /\ SyncedRun[d].state = "none"
             /\ ~WorkspaceBusy(ReleasedTask(k), k)
      BY <1>1, <1>2, <1>6, <1>7, EnqueueEffect
<1>9. Put(ReleasedTask(k), k, t) = Put(SyncedTask, k, t)
      BY <1>4, <1>7 DEF Put
<1>10. ~WorkspaceBusy(SyncedTask, k)
      BY <1>7, <1>8 DEF WorkspaceBusy
<1>11. SyncedTask[k].currentRun = NoDispatch
      BY <1>1, <1>2, <1>5 DEF Coherent, Matching
<1>12. /\ wait' \in [Wait -> WaitRecord]
       /\ wait'[w].state = "dispatched" /\ wait'[w].dispatch = d
       /\ \A v \in Wait : v # w => wait'[v] = SyncedWait[v]
      BY <1>2, <1>4 DEF NoticeSent, Put, WaitRecord, WaitState
<1>13. /\ SyncedTask[k].waitingFor = w /\ SyncedWait[w].state = "terminal"
       /\ r.origin.wait = w
       BY <1>2, <1>5, <1>6, <1>8
<1> HIDE DEF k
<1>14. Coherent(Put(SyncedTask, k, t), Put(SyncedRun, d, r), wait', SyncedRecorded \cup {d})
       BY <1>1, <1>3, <1>8, <1>10, <1>11, <1>12, <1>13, EnqueueCoherent
<1> QED
    BY <1>8, <1>9, <1>14

(* Every other operation touches one task k, at most its current run, and at *)
(* most waits of its own; no run is rejected and no wait dispatched.         *)
OwnChange(T, R, W, k, T2, R2, W2) ==
    /\ \A j \in Task \ {k} : T2[j] = T[j]
    /\ \A d \in Dispatch : d # T[k].currentRun => R2[d] = R[d]
    /\ \A d \in Dispatch : d = T[k].currentRun =>
          /\ R2[d].task = R[d].task /\ R2[d].origin = R[d].origin
          /\ R2[d].state # "none"
          /\ R2[d].outcome # "delivery_rejected"
          /\ R2[d].state \in LiveRun => T2[k].currentRun = d
    /\ T2[k].currentRun \in {T[k].currentRun, NoDispatch}
    /\ \A w \in Wait : w[1] # k => W2[w] = W[w]
    /\ \A w \in Wait : w[1] = k /\ W2[w] # W[w] =>
          W[w].state # "dispatched" /\ W2[w].state # "dispatched"

\* Afterwards the entry of k agrees with its run and its waits again, and k has
\* gained its workspace only if it was free.
Fits(T, k, T2, R2, W2) ==
    /\ \A w \in Wait : w[1] = k /\ W2[w].state \in LiveWait =>
          T2[k].waitingFor = w /\ T2[k].state = "waiting"
    /\ Occupied(T2[k]) => Occupied(T[k]) \/ ~WorkspaceBusy(T, k)
    /\ T2[k].currentRun # NoDispatch =>
          /\ T2[k].waitingFor = NoWait
          /\ \/ T2[k].state = "running" /\ R2[T2[k].currentRun].state = "running"
             \/ T2[k].state \in {"queued", "uncertain"}
                /\ R2[T2[k].currentRun].state = "queued"
    /\ T2[k].waitingFor # NoWait =>
          /\ T2[k].waitingFor[1] = k
          /\ \/ T2[k].state = "waiting" /\ W2[T2[k].waitingFor].state \in LiveWait
             \/ T2[k].state = "uncertain" /\ W2[T2[k].waitingFor].state = "cancelled"
    /\ T2[k].state \in {"queued", "running", "waiting", "uncertain"} => Occupied(T2[k])

LEMMA LocalChangeCoherent ==
    ASSUME NEW T, NEW R, NEW W, NEW S, NEW k \in Task, NEW T2, NEW R2, NEW W2,
           Coherent(T, R, W, S), Typed(T2, R2, W2, S),
           OwnChange(T, R, W, k, T2, R2, W2), Fits(T, k, T2, R2, W2)
    PROVE  Coherent(T2, R2, W2, S)
<1> USE DEF OwnChange, Fits
<1>1. /\ T \in [Task -> TaskRecord] /\ R \in [Dispatch -> RunRecord]
      /\ W \in [Wait -> WaitRecord] /\ S \subseteq Dispatch
      /\ T2 \in [Task -> TaskRecord] /\ R2 \in [Dispatch -> RunRecord]
      /\ W2 \in [Wait -> WaitRecord]
      BY DEF Coherent, Typed
<1>2. Exclusive(T2)
  <2>1. Exclusive(T)
        BY DEF Coherent
  <2>2. \A j \in Task \ {k} : /\ WorkspaceOf[j] = WorkspaceOf[k]
                             /\ WorkspaceOf[k] # NoWorkspace
                             /\ Occupied(T2[k])
                             => ~Occupied(T2[j])
        BY <2>1 DEF Exclusive, WorkspaceBusy
  <2> QED
      BY <2>1, <2>2 DEF Exclusive
<1>3. Owned(T2, R2, W2)
  <2>1. ASSUME NEW d \in Dispatch, R2[d].state \in LiveRun
        PROVE  R2[d].task \in Task /\ T2[R2[d].task].currentRun = d
    <3>1. CASE d = T[k].currentRun
      <4>1. R[d].task = k
            BY <3>1, CoordinatorAssumption DEF Coherent, Matching
      <4> QED
          BY <2>1, <3>1, <4>1
    <3>2. CASE d # T[k].currentRun
      <4>1. R2[d] = R[d] /\ R[d].task \in Task /\ T[R[d].task].currentRun = d
            BY <2>1, <3>2 DEF Coherent, Owned
      <4> QED
          BY <3>2, <4>1
    <3> QED
        BY <3>1, <3>2
  <2>2. ASSUME NEW w \in Wait, W2[w].state \in LiveWait
        PROVE  T2[w[1]].waitingFor = w /\ T2[w[1]].state = "waiting"
    <3>1. w[1] \in Task
          BY DEF Wait
    <3>2. CASE w[1] = k
          BY <2>2, <3>2
    <3>3. CASE w[1] # k
          BY <2>2, <3>1, <3>3 DEF Coherent, Owned
    <3> QED
        BY <3>2, <3>3
  <2> QED
      BY <2>1, <2>2 DEF Owned
<1>4. Matching(T2, R2, W2)
  <2> SUFFICES ASSUME NEW j \in Task
               PROVE
        /\ T2[j].currentRun # NoDispatch =>
              /\ T2[j].waitingFor = NoWait
              /\ R2[T2[j].currentRun].task = j
              /\ \/ T2[j].state = "running" /\ R2[T2[j].currentRun].state = "running"
                 \/ T2[j].state \in {"queued", "uncertain"}
                    /\ R2[T2[j].currentRun].state = "queued"
        /\ T2[j].waitingFor # NoWait =>
              /\ T2[j].waitingFor[1] = j
              /\ \/ T2[j].state = "waiting" /\ W2[T2[j].waitingFor].state \in LiveWait
                 \/ T2[j].state = "uncertain" /\ W2[T2[j].waitingFor].state = "cancelled"
        /\ T2[j].state \in {"queued", "running", "waiting", "uncertain"} => Occupied(T2[j])
      BY DEF Matching
  <2>1. CASE j = k
    <3>1. T2[k].currentRun # NoDispatch => R2[T2[k].currentRun].task = k
      <4>1. ASSUME T2[k].currentRun # NoDispatch
            PROVE  T[k].currentRun \in Dispatch /\ T2[k].currentRun = T[k].currentRun
                   /\ R[T[k].currentRun].task = k
            BY <1>1, <4>1 DEF Coherent, Matching, TaskRecord
      <4> QED
          BY <4>1
    <3> QED
        BY <2>1, <3>1
  <2>2. CASE j # k
    <3>1. T2[j] = T[j] /\ T[j] \in TaskRecord
          BY <1>1, <2>2
    <3>2. T[j].currentRun # NoDispatch => R2[T[j].currentRun] = R[T[j].currentRun]
      <4>1. ASSUME T[j].currentRun # NoDispatch
            PROVE  T[j].currentRun \in Dispatch /\ T[j].currentRun # T[k].currentRun
            BY <2>2, <3>1, <4>1 DEF Coherent, Matching, TaskRecord
      <4> QED
          BY <4>1
    <3>3. T[j].waitingFor # NoWait => W2[T[j].waitingFor] = W[T[j].waitingFor]
          BY <2>2, <3>1 DEF Coherent, Matching, TaskRecord
    <3> QED
        BY <3>1, <3>2, <3>3 DEF Coherent, Matching
  <2> QED
      BY <2>1, <2>2
<1>5. \A d \in Dispatch : /\ R2[d].task = R[d].task /\ R2[d].origin = R[d].origin
                          /\ R2[d].outcome = "delivery_rejected" => R2[d] = R[d]
                          /\ R2[d].state = "none" => R2[d] = R[d]
      OBVIOUS
<1>6. \A w \in Wait : W[w].state = "dispatched" \/ W2[w].state = "dispatched" => W2[w] = W[w]
      OBVIOUS
<1>7. Noticed(R2, W2)
  <2>1. ASSUME NEW w \in Wait, W2[w].state = "dispatched"
        PROVE  /\ W2[w].dispatch \in Dispatch
               /\ R2[W2[w].dispatch].task = w[1]
               /\ R2[W2[w].dispatch].origin.wait = w
        BY <1>5, <1>6, <2>1 DEF Coherent, Noticed
  <2>2. ASSUME NEW d \in Dispatch, R2[d].origin.wait # NoWait,
               R2[d].outcome # "delivery_rejected"
        PROVE  /\ W2[R2[d].origin.wait].state = "dispatched"
               /\ W2[R2[d].origin.wait].dispatch = d
    <3>1. R[d].outcome # "delivery_rejected"
      <4>1. CASE d = T[k].currentRun
        <5>1. R[d].state \in LiveRun
              BY <4>1, CoordinatorAssumption DEF Coherent, Matching, LiveRun
        <5> QED
            BY <5>1 DEF Coherent, Recorded, LiveRun
      <4>2. CASE d # T[k].currentRun
            BY <2>2, <4>2
      <4> QED
          BY <4>1, <4>2
    <3>2. R[d].origin.wait \in Wait
          BY <1>1, <1>5, <2>2 DEF RunRecord, Origin
    <3>3. W[R[d].origin.wait].state = "dispatched" /\ W[R[d].origin.wait].dispatch = d
          BY <1>5, <2>2, <3>1 DEF Coherent, Noticed
    <3> QED
        BY <1>5, <1>6, <3>2, <3>3
  <2> QED
      BY <2>1, <2>2 DEF Noticed
<1>8. Recorded(R2, S)
      BY <1>1, <1>5 DEF Coherent, Recorded
<1> QED
    BY <1>2, <1>3, <1>4, <1>7, <1>8 DEF Coherent

(* What the invariant says of one task.                                      *)
LEMMA TaskFacts ==
    ASSUME NEW T, NEW R, NEW W, NEW S, Coherent(T, R, W, S), NEW k \in Task
    PROVE  /\ T[k] \in TaskRecord
           /\ T[k].currentRun # NoDispatch =>
                 /\ T[k].currentRun \in Dispatch
                 /\ T[k].waitingFor = NoWait
                 /\ R[T[k].currentRun] \in RunRecord
                 /\ R[T[k].currentRun].task = k
                 /\ R[T[k].currentRun].state \in LiveRun
                 /\ R[T[k].currentRun].outcome # "delivery_rejected"
                 /\ \/ T[k].state = "running"
                       /\ R[T[k].currentRun].state = "running"
                    \/ T[k].state \in {"queued", "uncertain"}
                       /\ R[T[k].currentRun].state = "queued"
           /\ T[k].waitingFor # NoWait =>
                 /\ T[k].waitingFor \in Wait
                 /\ T[k].waitingFor[1] = k
                 /\ \/ T[k].state = "waiting"
                       /\ W[T[k].waitingFor].state \in LiveWait
                    \/ T[k].state = "uncertain"
                       /\ W[T[k].waitingFor].state = "cancelled"
           /\ \A w \in Wait : w[1] = k /\ W[w].state \in LiveWait =>
                 T[k].waitingFor = w /\ T[k].state = "waiting"
           /\ T[k].state \in {"queued", "running", "waiting", "uncertain"} =>
                 Occupied(T[k])
<1>1. T[k] \in TaskRecord /\ R \in [Dispatch -> RunRecord]
      BY DEF Coherent, Typed
<1>2. T[k].currentRun \in Dispatch \cup {NoDispatch}
      /\ T[k].waitingFor \in Wait \cup {NoWait}
      BY <1>1 DEF TaskRecord
<1>3. T[k].currentRun # NoDispatch => R[T[k].currentRun].state \in LiveRun
      BY DEF Coherent, Matching, LiveRun
<1>4. T[k].currentRun # NoDispatch =>
          R[T[k].currentRun].outcome # "delivery_rejected"
      BY <1>2, <1>3 DEF Coherent, Recorded, LiveRun
<1> QED
    BY <1>1, <1>2, <1>3, <1>4 DEF Coherent, Matching, Owned

LEMMA RegisterCoherent ==
    ASSUME Coherent(task, run, wait, recorded), NEW k \in Task, Register(k)
    PROVE  Coherent(task', run', wait', recorded')
<1>1. task' = [task EXCEPT ![k].state = "idle"]
      /\ UNCHANGED <<run, wait, recorded>> /\ task[k].state = "unregistered"
      BY DEF Register, Registered
<1>2. task \in [Task -> TaskRecord] /\ task[k] \in TaskRecord
      BY DEF Coherent, Typed
<1>3. task'[k].state = "idle" /\ task'[k].currentRun = task[k].currentRun
      /\ task'[k].waitingFor = task[k].waitingFor
      BY <1>1, <1>2 DEF TaskRecord
<1>4. task' \in [Task -> TaskRecord]
      BY <1>1, <1>2 DEF TaskRecord, TaskState
<1>5. ~Occupied(task[k])
      BY <1>1, TaskFacts DEF Occupied
<1>6. Typed(task', run', wait', recorded)
      BY <1>1, <1>4 DEF Coherent, Typed
<1>7. \A w \in Wait : w[1] = k => wait[w].state \notin LiveWait
      BY <1>1, TaskFacts
<1>8. OwnChange(task, run, wait, k, task', run', wait')
  <2>1. task[k].currentRun = NoDispatch
        BY <1>5 DEF Occupied
  <2> QED
      BY <1>1, <1>3, <2>1, CoordinatorAssumption DEF OwnChange
<1>9. Fits(task, k, task', run', wait')
      BY <1>1, <1>3, <1>5, <1>7 DEF Fits, Occupied
<1> QED
    BY <1>1, <1>6, <1>8, <1>9, LocalChangeCoherent

LEMMA BindCoherent ==
    ASSUME Coherent(task, run, wait, recorded), NEW k \in Task, NEW s \in Sub, Bind(k, s)
    PROVE  Coherent(task', run', wait', recorded')
<1>1. task' = [task EXCEPT ![k].sub = s] /\ UNCHANGED <<run, wait, recorded>>
      BY DEF Bind
<1>2. task \in [Task -> TaskRecord] /\ task[k] \in TaskRecord
      BY DEF Coherent, Typed
<1>3. task'[k].state = task[k].state /\ task'[k].currentRun = task[k].currentRun
      /\ task'[k].waitingFor = task[k].waitingFor
      BY <1>1, <1>2 DEF TaskRecord
<1>4. task' \in [Task -> TaskRecord]
      BY <1>1, <1>2 DEF TaskRecord
<1>5. Typed(task', run', wait', recorded)
      BY <1>1, <1>4 DEF Coherent, Typed
<1>6. OwnChange(task, run, wait, k, task', run', wait')
      BY <1>1, <1>3, TaskFacts, CoordinatorAssumption DEF OwnChange, LiveRun
<1>7. Fits(task, k, task', run', wait')
      BY <1>1, <1>3, TaskFacts DEF Fits, Occupied
<1> QED
    BY <1>1, <1>5, <1>6, <1>7, LocalChangeCoherent

LEMMA SetEnabledCoherent ==
    ASSUME Coherent(task, run, wait, recorded), NEW k \in Task,
           NEW enabled \in BOOLEAN, SetEnabled(k, enabled)
    PROVE  Coherent(task', run', wait', recorded')
<1>1. Coherent(SyncedTask, SyncedRun, SyncedWait, SyncedRecorded)
      BY SyncCoherent
<1>2. SyncedTask \in [Task -> TaskRecord] /\ SyncedTask[k] \in TaskRecord
      /\ SyncedWait \in [Wait -> WaitRecord]
      BY <1>1 DEF Coherent, Typed
<1>3. /\ task' = Put(SyncedTask, k, [SyncedTask[k] EXCEPT !.enabled = enabled])
      /\ run' = SyncedRun /\ recorded' = SyncedRecorded
      BY DEF SetEnabled
<1>4. /\ wait' \in [Wait -> WaitRecord]
      /\ \A w \in Wait : \/ wait'[w] = SyncedWait[w]
                         \/ /\ w = SyncedTask[k].waitingFor
                            /\ SyncedWait[w].state = "delivery_failed"
                            /\ wait'[w].state = "terminal"
      BY <1>2 DEF SetEnabled, WaitRecord, WaitState
<1>5. /\ task' \in [Task -> TaskRecord]
      /\ \A j \in Task \ {k} : task'[j] = SyncedTask[j]
      /\ task'[k].state = SyncedTask[k].state
      /\ task'[k].currentRun = SyncedTask[k].currentRun
      /\ task'[k].waitingFor = SyncedTask[k].waitingFor
      BY <1>2, <1>3 DEF Put, TaskRecord
<1>6. Typed(task', run', wait', SyncedRecorded)
      BY <1>1, <1>3, <1>4, <1>5 DEF Coherent, Typed
<1>7. \A w \in Wait : w[1] # k => w # SyncedTask[k].waitingFor
      BY <1>1, TaskFacts, CoordinatorAssumption
<1>8. OwnChange(SyncedTask, SyncedRun, SyncedWait, k, task', run', wait')
  <2>1. \A w \in Wait : /\ w[1] # k => wait'[w] = SyncedWait[w]
                        /\ wait'[w] # SyncedWait[w] => SyncedWait[w].state # "dispatched"
                                                       /\ wait'[w].state # "dispatched"
        BY <1>4, <1>7
  <2> QED
      BY <1>1, <1>3, <1>5, <2>1, TaskFacts, CoordinatorAssumption DEF OwnChange, LiveRun
<1>9. Fits(SyncedTask, k, task', run', wait')
  <2>1. \A w \in Wait : wait'[w].state \in LiveWait <=> SyncedWait[w].state \in LiveWait
        BY <1>4 DEF LiveWait
  <2>2. \A w \in Wait : SyncedWait[w].state = "cancelled" => wait'[w].state = "cancelled"
        BY <1>4
  <2> QED
      BY <1>1, <1>3, <1>5, <2>1, <2>2, TaskFacts DEF Fits, Occupied
<1> QED
    BY <1>1, <1>3, <1>6, <1>8, <1>9, LocalChangeCoherent

LEMMA ClaimCoherent ==
    ASSUME Coherent(task, run, wait, recorded), NEW k \in Task, NEW d \in Dispatch,
           Claim(k, d)
    PROVE  Coherent(task', run', wait', recorded')
<1>1. PICK lease \in 1..LeaseTicks :
          run' = [run EXCEPT ![d].state = "running", ![d].lease = lease]
      BY DEF Claim
<1>2. /\ task' = [task EXCEPT ![k].state = "running"] /\ UNCHANGED <<wait, recorded>>
      /\ task[k].currentRun = d
      BY DEF Claim
<1>3. task \in [Task -> TaskRecord] /\ task[k] \in TaskRecord
      /\ run \in [Dispatch -> RunRecord] /\ run[d] \in RunRecord
      BY DEF Coherent, Typed
<1>4. /\ task' \in [Task -> TaskRecord]
      /\ \A j \in Task \ {k} : task'[j] = task[j]
      /\ task'[k].state = "running" /\ task'[k].currentRun = d
      /\ task'[k].waitingFor = task[k].waitingFor
      BY <1>2, <1>3 DEF TaskRecord, TaskState
<1>5. /\ run' \in [Dispatch -> RunRecord]
      /\ \A e \in Dispatch \ {d} : run'[e] = run[e]
      /\ run'[d].state = "running" /\ run'[d].task = run[d].task
      /\ run'[d].origin = run[d].origin /\ run'[d].outcome = run[d].outcome
  <2>1. lease \in 0..LeaseTicks
        BY CoordinatorAssumption
  <2> QED
      BY <1>1, <1>3, <2>1 DEF RunRecord, RunState
<1>6. Typed(task', run', wait', recorded)
      BY <1>2, <1>4, <1>5 DEF Coherent, Typed
<1>7. OwnChange(task, run, wait, k, task', run', wait')
      BY <1>2, <1>4, <1>5, TaskFacts, CoordinatorAssumption DEF OwnChange
<1>8. task[k].waitingFor = NoWait /\ Occupied(task[k])
      BY <1>2, TaskFacts, CoordinatorAssumption DEF Occupied
<1>9. Fits(task, k, task', run', wait')
      BY <1>2, <1>4, <1>5, <1>8, TaskFacts, CoordinatorAssumption DEF Fits, Occupied
<1> QED
    BY <1>2, <1>6, <1>7, <1>9, LocalChangeCoherent

\* Heartbeat and the passing of time write the lease of a running run.
LEMMA LeaseCoherent ==
    ASSUME Coherent(task, run, wait, recorded), NEW d \in Dispatch,
           run[d].state = "running", NEW lease \in 0..LeaseTicks,
           run' = [run EXCEPT ![d].lease = lease], UNCHANGED <<task, wait, recorded>>
    PROVE  Coherent(task', run', wait', recorded')
<1> DEFINE k == run[d].task
<1>1. k \in Task /\ task[k].currentRun = d
      BY DEF Coherent, Owned, LiveRun
<1>2. run \in [Dispatch -> RunRecord] /\ run[d] \in RunRecord
      BY DEF Coherent, Typed
<1>3. /\ run' \in [Dispatch -> RunRecord]
      /\ \A e \in Dispatch \ {d} : run'[e] = run[e]
      /\ run'[d].state = "running" /\ run'[d].task = run[d].task
      /\ run'[d].origin = run[d].origin /\ run'[d].outcome = run[d].outcome
      BY <1>2 DEF RunRecord
<1>4. Typed(task', run', wait', recorded)
      BY <1>3 DEF Coherent, Typed
<1> HIDE DEF k
<1>5. OwnChange(task, run, wait, k, task', run', wait')
      BY <1>1, <1>3, TaskFacts, CoordinatorAssumption DEF OwnChange
<1>6. Fits(task, k, task', run', wait')
      BY <1>1, <1>3, TaskFacts DEF Fits, Occupied
<1> QED
    BY <1>1, <1>4, <1>5, <1>6, LocalChangeCoherent

LEMMA HeartbeatCoherent ==
    ASSUME Coherent(task, run, wait, recorded), NEW k \in Task, Heartbeat(k)
    PROVE  Coherent(task', run', wait', recorded')
<1>1. task[k].currentRun \in Dispatch /\ run[task[k].currentRun].state = "running"
      BY TaskFacts DEF Heartbeat, Actor
<1>2. PICK lease \in 1..LeaseTicks : run' = [run EXCEPT ![task[k].currentRun].lease = lease]
      BY DEF Heartbeat
<1>3. lease \in 0..LeaseTicks /\ UNCHANGED <<task, wait, recorded>>
      BY CoordinatorAssumption DEF Heartbeat
<1> QED
    BY <1>1, <1>2, <1>3, LeaseCoherent

LEMMA LeaseTickCoherent ==
    ASSUME Coherent(task, run, wait, recorded), NEW d \in Dispatch, LeaseTick(d)
    PROVE  Coherent(task', run', wait', recorded')
<1>1. run[d] \in RunRecord
      BY DEF Coherent, Typed
<1>2. run[d].lease - 1 \in 0..LeaseTicks
      BY <1>1, CoordinatorAssumption DEF LeaseTick, RunRecord
<1>3. run' = [run EXCEPT ![d].lease = run[d].lease - 1]
      BY DEF LeaseTick
<1> QED
    BY <1>2, <1>3, LeaseCoherent DEF LeaseTick

\* A run that reports: what becomes of it.
LEMMA FinishedRunEffect ==
    ASSUME run \in [Dispatch -> RunRecord], NEW d \in Dispatch
    PROVE  /\ FinishedRun(d) \in [Dispatch -> RunRecord]
           /\ \A e \in Dispatch \ {d} : FinishedRun(d)[e] = run[e]
           /\ FinishedRun(d)[d].state = "finished"
           /\ FinishedRun(d)[d].outcome = "reported"
           /\ FinishedRun(d)[d].task = run[d].task
           /\ FinishedRun(d)[d].origin = run[d].origin
BY DEF FinishedRun, RunRecord, RunState, Outcome

LEMMA FinishCoherent ==
    ASSUME Coherent(task, run, wait, recorded), NEW k \in Task,
           NEW outcome \in ReportedState, Finish(k, outcome)
    PROVE  Coherent(task', run', wait', recorded')
<1> DEFINE d == task[k].currentRun
<1>1. d \in Dispatch /\ task[k].waitingFor = NoWait /\ Occupied(task[k])
      /\ task[k].state # "waiting"
      BY TaskFacts DEF Finish, Actor, Occupied
<1>2. /\ task' = [task EXCEPT ![k].state = outcome, ![k].currentRun = NoDispatch]
      /\ run' = FinishedRun(d) /\ UNCHANGED <<wait, recorded>>
      BY DEF Finish
<1>3. task \in [Task -> TaskRecord] /\ task[k] \in TaskRecord
      /\ run \in [Dispatch -> RunRecord] /\ outcome \in {"idle", "completed", "needs_input"}
      BY DEF Coherent, Typed, ReportedState
<1>4. /\ task' \in [Task -> TaskRecord]
      /\ \A j \in Task \ {k} : task'[j] = task[j]
      /\ task'[k].state = outcome /\ task'[k].currentRun = NoDispatch
      /\ task'[k].waitingFor = task[k].waitingFor
      BY <1>2, <1>3 DEF TaskRecord, TaskState
<1> HIDE DEF d
<1>5. /\ run' \in [Dispatch -> RunRecord]
      /\ \A e \in Dispatch \ {d} : run'[e] = run[e]
      /\ run'[d].state = "finished" /\ run'[d].outcome = "reported"
      /\ run'[d].task = run[d].task /\ run'[d].origin = run[d].origin
      BY <1>1, <1>2, <1>3, FinishedRunEffect
<1>6. Typed(task', run', wait', recorded)
      BY <1>2, <1>4, <1>5 DEF Coherent, Typed
<1>7. OwnChange(task, run, wait, k, task', run', wait')
  <2>1. task[k].currentRun = d
        BY DEF d
  <2> QED
      BY <1>2, <1>4, <1>5, <2>1 DEF OwnChange, LiveRun
<1>8. Fits(task, k, task', run', wait')
      BY <1>1, <1>2, <1>3, <1>4, TaskFacts DEF Fits, Occupied
<1> QED
    BY <1>2, <1>6, <1>7, <1>8, LocalChangeCoherent

LEMMA WaitProcessCoherent ==
    ASSUME Coherent(task, run, wait, recorded), NEW k \in Task,
           NEW session \in Session, WaitProcess(k, session)
    PROVE  Coherent(task', run', wait', recorded')
<1> DEFINE w == <<k, session>>
           d == task[k].currentRun
<1>1. w \in Wait /\ w # NoWait /\ w[1] = k
      BY CoordinatorAssumption DEF Wait
<1>2. /\ wait[w].state = "none" /\ task[k].waitingFor = NoWait
      /\ ~WorkspaceBusy(task, k)
      /\ task' = [task EXCEPT ![k].state = "waiting", ![k].currentRun = NoDispatch,
                              ![k].waitingFor = w]
      /\ wait' = [wait EXCEPT ![w].state = "watching"] /\ recorded' = recorded
      BY DEF WaitProcess
<1>3. \/ d \in Dispatch /\ run' = FinishedRun(d)
      \/ d = NoDispatch /\ run' = run
      BY TaskFacts DEF WaitProcess, Actor
<1> HIDE DEF d, w
<1>4. task \in [Task -> TaskRecord] /\ task[k] \in TaskRecord
      /\ run \in [Dispatch -> RunRecord]
      /\ wait \in [Wait -> WaitRecord] /\ wait[w] \in WaitRecord
      BY <1>1 DEF Coherent, Typed
<1>5. /\ task' \in [Task -> TaskRecord]
      /\ \A j \in Task \ {k} : task'[j] = task[j]
      /\ task'[k].state = "waiting" /\ task'[k].currentRun = NoDispatch
      /\ task'[k].waitingFor = w
      BY <1>1, <1>2, <1>4 DEF TaskRecord, TaskState
<1>6. /\ wait' \in [Wait -> WaitRecord]
      /\ \A v \in Wait \ {w} : wait'[v] = wait[v]
      /\ wait'[w].state = "watching"
      BY <1>1, <1>2, <1>4 DEF WaitRecord, WaitState
<1>7. /\ run' \in [Dispatch -> RunRecord]
      /\ \A e \in Dispatch : e # d => run'[e] = run[e]
      /\ d \in Dispatch =>
            /\ run'[d].state = "finished" /\ run'[d].outcome = "reported"
            /\ run'[d].task = run[d].task /\ run'[d].origin = run[d].origin
      BY <1>3, <1>4, FinishedRunEffect, CoordinatorAssumption
<1>8. Typed(task', run', wait', recorded)
      BY <1>5, <1>6, <1>7 DEF Coherent, Typed
<1>9. OwnChange(task, run, wait, k, task', run', wait')
  <2>1. task[k].currentRun = d
        BY DEF d
  <2> QED
      BY <1>1, <1>2, <1>5, <1>6, <1>7, <2>1 DEF OwnChange, LiveRun
<1>10. Fits(task, k, task', run', wait')
  <2>1. \A v \in Wait : v[1] = k => wait[v].state \notin LiveWait
        BY <1>2, TaskFacts, CoordinatorAssumption
  <2>2. \A v \in Wait : v[1] = k /\ wait'[v].state \in LiveWait => v = w
        BY <1>6, <2>1
  <2> QED
      BY <1>1, <1>2, <1>5, <1>6, <2>2 DEF Fits, Occupied, LiveWait
<1> QED
    BY <1>2, <1>8, <1>9, <1>10, LocalChangeCoherent

LEMMA ObservationCoherent ==
    ASSUME Coherent(task, run, wait, recorded), NEW w \in Wait,
           RecordProcessObservation(w)
    PROVE  Coherent(task', run', wait', recorded')
<1> DEFINE k == w[1]
<1>1. k \in Task /\ w[1] = k
      BY DEF Wait
<1>2. /\ wait[w].state = "watching" /\ UNCHANGED <<task, run, recorded>>
      /\ wait' = [wait EXCEPT ![w].state = "terminal"]
      BY DEF RecordProcessObservation
<1> HIDE DEF k
<1>3. wait \in [Wait -> WaitRecord] /\ wait[w] \in WaitRecord
      BY DEF Coherent, Typed
<1>4. /\ wait' \in [Wait -> WaitRecord]
      /\ \A v \in Wait \ {w} : wait'[v] = wait[v]
      /\ wait'[w].state = "terminal"
      BY <1>2, <1>3 DEF WaitRecord, WaitState
<1>5. Typed(task', run', wait', recorded)
      BY <1>2, <1>4 DEF Coherent, Typed
<1>6. OwnChange(task, run, wait, k, task', run', wait')
      BY <1>1, <1>2, <1>4, TaskFacts, CoordinatorAssumption DEF OwnChange, LiveRun
<1>7. Fits(task, k, task', run', wait')
  <2>1. \A v \in Wait : wait'[v].state \in LiveWait <=> wait[v].state \in LiveWait
        BY <1>2, <1>4 DEF LiveWait
  <2>2. \A v \in Wait : wait[v].state = "cancelled" => wait'[v].state = "cancelled"
        BY <1>2, <1>4
  <2> QED
      BY <1>1, <1>2, <2>1, <2>2, TaskFacts DEF Fits
<1> QED
    BY <1>1, <1>2, <1>5, <1>6, <1>7, LocalChangeCoherent

LEMMA CancelWaitCoherent ==
    ASSUME Coherent(task, run, wait, recorded), NEW k \in Task, CancelProcessWait(k)
    PROVE  Coherent(task', run', wait', recorded')
<1> DEFINE w == task[k].waitingFor
<1>1. /\ w # NoWait /\ UNCHANGED <<run, recorded>>
      /\ wait' = [wait EXCEPT ![w].state = "cancelled"]
      /\ task' = [task EXCEPT ![k].state = "uncertain"]
      BY DEF CancelProcessWait
<1>2. w \in Wait /\ w[1] = k /\ task[k].currentRun = NoDispatch
      /\ Occupied(task[k]) /\ wait[w].state \in LiveWait \cup {"cancelled"}
      BY <1>1, TaskFacts DEF Occupied
<1>3. task[k].waitingFor = w
      OBVIOUS
<1> HIDE DEF w
<1>4. task \in [Task -> TaskRecord] /\ task[k] \in TaskRecord
      /\ wait \in [Wait -> WaitRecord] /\ wait[w] \in WaitRecord
      BY <1>2 DEF Coherent, Typed
<1>5. /\ task' \in [Task -> TaskRecord]
      /\ \A j \in Task \ {k} : task'[j] = task[j]
      /\ task'[k].state = "uncertain" /\ task'[k].currentRun = NoDispatch
      /\ task'[k].waitingFor = w
      BY <1>1, <1>2, <1>3, <1>4 DEF TaskRecord, TaskState
<1>6. /\ wait' \in [Wait -> WaitRecord]
      /\ \A v \in Wait \ {w} : wait'[v] = wait[v]
      /\ wait'[w].state = "cancelled"
      BY <1>1, <1>2, <1>4 DEF WaitRecord, WaitState
<1>7. Typed(task', run', wait', recorded)
      BY <1>1, <1>5, <1>6 DEF Coherent, Typed
<1>8. OwnChange(task, run, wait, k, task', run', wait')
      BY <1>1, <1>2, <1>5, <1>6, CoordinatorAssumption DEF OwnChange, LiveWait
<1>9. Fits(task, k, task', run', wait')
  <2>1. \A v \in Wait : v[1] = k /\ v # w => wait[v].state \notin LiveWait
        BY <1>3, TaskFacts
  <2>2. \A v \in Wait : v[1] = k => wait'[v].state \notin LiveWait
        BY <1>6, <2>1 DEF LiveWait
  <2> QED
      BY <1>1, <1>2, <1>5, <1>6, <2>2 DEF Fits, Occupied
<1> QED
    BY <1>1, <1>7, <1>8, <1>9, LocalChangeCoherent

LEMMA ReconcileCoherent ==
    ASSUME Coherent(task, run, wait, recorded), NEW k \in Task, Reconcile(k)
    PROVE  Coherent(task', run', wait', recorded')
<1> DEFINE d == task[k].currentRun
<1>1. task \in [Task -> TaskRecord] /\ task[k] \in TaskRecord
      /\ run \in [Dispatch -> RunRecord] /\ wait \in [Wait -> WaitRecord]
      BY DEF Coherent, Typed
<1>2. /\ task' \in [Task -> TaskRecord]
      /\ \A j \in Task \ {k} : task'[j] = task[j]
      /\ task'[k].state = "idle" /\ task'[k].currentRun = NoDispatch
      /\ task'[k].waitingFor = NoWait
  <2>1. task' = [task EXCEPT ![k].state = "idle", ![k].currentRun = NoDispatch,
                            ![k].waitingFor = NoWait]
        BY DEF Reconcile
  <2> QED
      BY <1>1, <2>1 DEF TaskRecord, TaskState
<1>3. /\ run' \in [Dispatch -> RunRecord]
      /\ \A e \in Dispatch : e # d => run'[e] = run[e]
      /\ d \in Dispatch => /\ run'[d].state = "cancelled"
                           /\ run'[d].outcome = "reconciled"
                           /\ run'[d].task = run[d].task
                           /\ run'[d].origin = run[d].origin
      BY <1>1, ZenonT(40) DEF Reconcile, RunRecord, RunState, Outcome
<1>4. /\ wait' \in [Wait -> WaitRecord]
      /\ \A w \in Wait : \/ wait'[w] = wait[w] /\ (w = task[k].waitingFor =>
                                                     wait[w].state = "dispatched")
                         \/ /\ w = task[k].waitingFor /\ wait[w].state # "dispatched"
                            /\ wait'[w].state = "cancelled"
      BY <1>1 DEF Reconcile, WaitRecord, WaitState
<1>5. recorded' = recorded
      BY DEF Reconcile
<1>6. Typed(task', run', wait', recorded)
      BY <1>2, <1>3, <1>4 DEF Coherent, Typed
<1>7. OwnChange(task, run, wait, k, task', run', wait')
  <2>1. \A w \in Wait : w = task[k].waitingFor => w[1] = k
        BY TaskFacts, CoordinatorAssumption
  <2>2. task[k].currentRun = d
        OBVIOUS
  <2> HIDE DEF d
  <2> QED
      BY <1>2, <1>3, <1>4, <2>1, <2>2 DEF OwnChange, LiveRun
<1>8. Fits(task, k, task', run', wait')
  <2>1. \A w \in Wait : w[1] = k => wait'[w].state \notin LiveWait
        BY <1>4, TaskFacts DEF LiveWait
  <2> QED
      BY <1>2, <2>1 DEF Fits, Occupied
<1> QED
    BY <1>5, <1>6, <1>7, <1>8, LocalChangeCoherent
=============================================================================
