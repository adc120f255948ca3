----------------------- MODULE WorkflowSafety_proofs -----------------------
(* The inductive invariant of the coordinator, put together from the lemmas  *)
(* about its operations, the theorems about states that follow from it, and  *)
(* those about what a step may never do; for any tasks, workspaces,          *)
(* subscriptions, sessions and runs.                                         *)
EXTENDS WorkflowCoordinator_proofs

-----------------------------------------------------------------------------
(* The coordinator only uses the outbox as the delivery contract allows.     *)

LEMMA EnqueueIsDelivery ==
    ASSUME NEW T, NEW o, NEW k, NEW d \in Dispatch, Enqueue(T, o, k, d)
    PROVE  DeliveryNext
<1>1. \E s \in Sub : EnqueueRow(d, s)
      BY DEF Enqueue
<1> QED
    BY <1>1 DEF DeliveryNext

LEMMA ReconcileIsDelivery ==
    ASSUME Coherent(task, run, wait, recorded), DeliveryTypeOK, NEW k \in Task,
           Reconcile(k)
    PROVE  [DeliveryNext]_deliveryVars
<1> DEFINE d == task[k].currentRun
<1>1. CancelRow(d) /\ d \in Dispatch \cup {NoDispatch}
      BY TaskFacts DEF Reconcile, TaskRecord
<1>2. CASE d \in Dispatch
      BY <1>1, <1>2 DEF DeliveryNext
<1>3. CASE d \notin Dispatch
  <2>1. row' = [e \in Dispatch |-> row[e]]
        BY <1>1, <1>3 DEF CancelRow, CancelRows
  <2>2. row \in [Dispatch -> Row]
        BY DEF DeliveryTypeOK
  <2>3. row' = row
        BY <2>1, <2>2
  <2> QED
      BY <1>1, <2>3 DEF CancelRow, deliveryVars
<1> QED
    BY <1>2, <1>3

LEMMA StepIsDelivery ==
    ASSUME Coherent(task, run, wait, recorded), DeliveryTypeOK, [Next]_vars
    PROVE  [DeliveryNext]_deliveryVars
<1>1. CASE Sync
      BY <1>1 DEF Sync
<1>2. ASSUME NEW k \in Task, Register(k) \/ Heartbeat(k) \/ CancelProcessWait(k)
      PROVE  UNCHANGED deliveryVars
      BY <1>2 DEF Register, Heartbeat, CancelProcessWait
<1>3. ASSUME NEW k \in Task, NEW s \in Sub, Bind(k, s)
      PROVE  UNCHANGED deliveryVars
      BY <1>3 DEF Bind
<1>4. ASSUME NEW k \in Task, NEW enabled \in BOOLEAN, SetEnabled(k, enabled)
      PROVE  UNCHANGED deliveryVars
      BY <1>4 DEF SetEnabled
<1>5. ASSUME NEW k \in Task, NEW outcome \in ReportedState, Finish(k, outcome)
      PROVE  UNCHANGED deliveryVars
      BY <1>5 DEF Finish
<1>6. ASSUME NEW k \in Task, NEW session \in Session, WaitProcess(k, session)
      PROVE  UNCHANGED deliveryVars
      BY <1>6 DEF WaitProcess
<1>7. ASSUME NEW k \in Task, NEW d \in Dispatch, Claim(k, d)
      PROVE  UNCHANGED deliveryVars
      BY <1>7 DEF Claim
<1>8. ASSUME NEW k \in Task, NEW d \in Dispatch, NEW key \in Dedup,
             \/ External(key, k, d)
             \/ \E target \in Task : DispatchTo(k, target, key, d)
      PROVE  DeliveryNext
      BY <1>8, EnqueueIsDelivery DEF External, DispatchTo
<1>9. ASSUME NEW k \in Task, Reconcile(k)
      PROVE  [DeliveryNext]_deliveryVars
      BY <1>9, ReconcileIsDelivery
<1>10. ASSUME NEW d \in Dispatch, LeaseTick(d)
       PROVE  UNCHANGED deliveryVars
       BY <1>10 DEF LeaseTick
<1>11. ASSUME NEW w \in Wait, RecordProcessObservation(w)
       PROVE  UNCHANGED deliveryVars
       BY <1>11 DEF RecordProcessObservation
<1>12. ASSUME NEW w \in Wait, NEW d \in Dispatch, ResumeProcessWait(w, d)
       PROVE  DeliveryNext
       BY <1>12, EnqueueIsDelivery DEF ResumeProcessWait
<1>13. CASE DeliveryStep
       BY <1>13 DEF DeliveryNext
<1>14. CASE UNCHANGED vars
       BY <1>14 DEF vars, deliveryVars
<1> QED
    BY <1>1, <1>2, <1>3, <1>4, <1>5, <1>6, <1>7, <1>8, <1>9, <1>10, <1>11,
       <1>12, <1>13, <1>14 DEF Next, TaskStep

-----------------------------------------------------------------------------
(* Every step keeps the tables coherent.                                     *)

LEMMA StepCoherent ==
    ASSUME Coherent(task, run, wait, recorded), [Next]_vars
    PROVE  Coherent(task', run', wait', recorded')
<1>1. CASE Sync
      BY <1>1, SyncCoherent DEF Sync
<1>2. ASSUME NEW k \in Task, TaskStep(k)
      PROVE  Coherent(task', run', wait', recorded')
      BY <1>2, RegisterCoherent, HeartbeatCoherent, CancelWaitCoherent,
         ReconcileCoherent, BindCoherent, SetEnabledCoherent, FinishCoherent,
         WaitProcessCoherent, ClaimCoherent, ExternalCoherent, DispatchCoherent
      DEF TaskStep
<1>3. ASSUME NEW d \in Dispatch, LeaseTick(d)
      PROVE  Coherent(task', run', wait', recorded')
      BY <1>3, LeaseTickCoherent
<1>4. ASSUME NEW w \in Wait, RecordProcessObservation(w)
      PROVE  Coherent(task', run', wait', recorded')
      BY <1>4, ObservationCoherent
<1>5. ASSUME NEW w \in Wait, NEW d \in Dispatch, ResumeProcessWait(w, d)
      PROVE  Coherent(task', run', wait', recorded')
      BY <1>5, ResumeCoherent
<1>6. CASE UNCHANGED workVars
      BY <1>6 DEF workVars
<1>7. CASE UNCHANGED vars
      BY <1>7 DEF vars
<1> QED
    BY <1>1, <1>2, <1>3, <1>4, <1>5, <1>6, <1>7 DEF Next

-----------------------------------------------------------------------------
(* Only synchronizeDeliveryOutcomes rejects a run, on a final, clean row.    *)

LEMMA RejectedRowFacts ==
    ASSUME NEW d \in RejectedRuns
    PROVE  row[d].state \in {"failed", "cancelled"} /\ ~row[d].ambiguous
BY DEF RejectedRuns, Rejected, Doubtful, Stalled

\* What a step may do to the outcome of a run.
Untouched(d) == run'[d].outcome = "delivery_rejected" =>
                    run[d].outcome = "delivery_rejected" \/ d \in RejectedRuns

LEMMA SyncOutcome ==
    ASSUME NEW d \in Dispatch, SyncedRun[d].outcome = "delivery_rejected"
    PROVE  run[d].outcome = "delivery_rejected" \/ d \in RejectedRuns
BY SyncRunEffect

LEMMA EnqueueOutcome ==
    ASSUME Coherent(task, run, wait, recorded), NEW T, NEW o, NEW k \in Task,
           NEW d \in Dispatch, Enqueue(T, o, k, d), NEW e \in Dispatch
    PROVE  Untouched(e)
<1>1. run[d] \in RunRecord /\ run[d].outcome = "none" /\ DOMAIN SyncedRun = Dispatch
      BY DEF Enqueue, Coherent, Typed, Recorded, SyncedRun
<1>2. run' = Put(SyncedRun, d, [run[d] EXCEPT !.state = "queued", !.task = k,
                                              !.origin = o])
      BY DEF Enqueue
<1>3. CASE e = d
  <2>1. run'[e] = [run[d] EXCEPT !.state = "queued", !.task = k, !.origin = o]
        BY <1>1, <1>2, <1>3 DEF Put
  <2>2. run'[e].outcome = run[d].outcome
        BY <1>1, <2>1 DEF RunRecord
  <2> QED
      BY <1>1, <2>2 DEF Untouched
<1>4. CASE e # d
  <2>1. run'[e] = SyncedRun[e]
        BY <1>1, <1>2, <1>4 DEF Put
  <2> QED
      BY <2>1, SyncOutcome DEF Untouched
<1> QED
    BY <1>3, <1>4

LEMMA StepOutcome ==
    ASSUME Coherent(task, run, wait, recorded), [Next]_vars, NEW e \in Dispatch
    PROVE  Untouched(e)
<1>1. run \in [Dispatch -> RunRecord] /\ run[e] \in RunRecord
      BY DEF Coherent, Typed
<1>2. CASE Sync
      BY <1>2, SyncOutcome DEF Sync, Untouched
<1>3. CASE run' = run
      BY <1>3 DEF Untouched
<1>4. ASSUME NEW d \in Dispatch, NEW lease, run' = [run EXCEPT ![d].lease = lease]
      PROVE  Untouched(e)
      BY <1>1, <1>4 DEF Untouched, RunRecord
<1>5. ASSUME NEW d \in Dispatch, run' = FinishedRun(d)
      PROVE  Untouched(e)
  <2>1. CASE e = d
        BY <1>1, <1>5, <2>1, FinishedRunEffect DEF Untouched
  <2>2. CASE e # d
        BY <1>1, <1>5, <2>2, FinishedRunEffect DEF Untouched
  <2> QED
      BY <2>1, <2>2
<1>6. ASSUME NEW k \in Task, TaskStep(k)
      PROVE  Untouched(e)
  <2>1. CASE Register(k) \/ CancelProcessWait(k) \/ \E s \in Sub : Bind(k, s)
        BY <1>3, <2>1 DEF Register, CancelProcessWait, Bind
  <2>2. CASE Heartbeat(k)
    <3>1. task[k].currentRun \in Dispatch
          BY <2>2, TaskFacts DEF Heartbeat, Actor
    <3>2. PICK lease : run' = [run EXCEPT ![task[k].currentRun].lease = lease]
          BY <2>2 DEF Heartbeat
    <3> QED
        BY <1>4, <3>1, <3>2
  <2>3. CASE Reconcile(k)
        BY <1>1, <2>3 DEF Reconcile, Untouched, RunRecord
  <2>4. ASSUME NEW enabled \in BOOLEAN, SetEnabled(k, enabled)
        PROVE  Untouched(e)
        BY <2>4, SyncOutcome DEF SetEnabled, Untouched
  <2>5. ASSUME NEW outcome \in ReportedState, Finish(k, outcome)
        PROVE  Untouched(e)
        BY <1>5, <2>5, TaskFacts DEF Finish, Actor
  <2>6. ASSUME NEW session \in Session, WaitProcess(k, session)
        PROVE  Untouched(e)
        BY <1>3, <1>5, <2>6, TaskFacts DEF WaitProcess, Actor
  <2>7. ASSUME NEW d \in Dispatch, Claim(k, d)
        PROVE  Untouched(e)
    <3>1. PICK lease : run' = [run EXCEPT ![d].state = "running", ![d].lease = lease]
          BY <2>7 DEF Claim
    <3> QED
        BY <1>1, <3>1 DEF Untouched, RunRecord
  <2>8. ASSUME NEW d \in Dispatch, NEW key \in Dedup,
               External(key, k, d) \/ \E target \in Task : DispatchTo(k, target, key, d)
        PROVE  Untouched(e)
        BY <2>8, EnqueueOutcome DEF External, DispatchTo
  <2> QED
      BY <1>6, <2>1, <2>2, <2>3, <2>4, <2>5, <2>6, <2>7, <2>8 DEF TaskStep
<1>7. ASSUME NEW d \in Dispatch, LeaseTick(d)
      PROVE  Untouched(e)
  <2>1. run' = [run EXCEPT ![d].lease = run[d].lease - 1]
        BY <1>7 DEF LeaseTick
  <2> QED
      BY <1>4, <2>1
<1>8. ASSUME NEW w \in Wait, NEW d \in Dispatch, ResumeProcessWait(w, d)
      PROVE  Untouched(e)
  <2>1. w[1] \in Task
        BY DEF Wait
  <2> QED
      BY <1>8, <2>1, EnqueueOutcome DEF ResumeProcessWait
<1>9. ASSUME NEW w \in Wait, RecordProcessObservation(w)
      PROVE  Untouched(e)
      BY <1>3, <1>9 DEF RecordProcessObservation
<1>10. CASE UNCHANGED workVars \/ UNCHANGED vars
       BY <1>3, <1>10 DEF workVars, vars
<1> QED
    BY <1>2, <1>6, <1>7, <1>8, <1>9, <1>10 DEF Next

-----------------------------------------------------------------------------
(* The inductive invariant.                                                  *)

LEMMA IInvInit == Init => IInv
<1> SUFFICES ASSUME Init
             PROVE  IInv
    OBVIOUS
<1>1. DeliveryInv
      BY DeliveryInvInit DEF Init
<1>2. Typed(task, run, wait, recorded)
      BY CoordinatorAssumption
      DEF Init, Typed, TaskRecord, TaskState, RunRecord, RunState, Outcome,
          Origin, NoOrigin, WaitRecord, WaitState
<1>3. Coherent(task, run, wait, recorded)
      BY <1>2
      DEF Init, Coherent, Exclusive, Occupied, Owned, LiveRun, LiveWait, Matching,
          Noticed, Recorded, NoOrigin
<1>4. RejectedRows
      BY DEF Init, RejectedRows
<1> QED
    BY <1>1, <1>3, <1>4 DEF IInv

LEMMA IInvStep == IInv /\ [Next]_vars => IInv'
<1> SUFFICES ASSUME IInv, [Next]_vars
             PROVE  IInv'
    OBVIOUS
<1>1. Coherent(task, run, wait, recorded) /\ DeliveryInv /\ DeliveryTypeOK
      BY DEF IInv, DeliveryInv
<1>2. Coherent(task, run, wait, recorded)'
      BY <1>1, StepCoherent
<1>3. [DeliveryNext]_deliveryVars
      BY <1>1, StepIsDelivery
<1>4. DeliveryInv'
      BY <1>1, <1>3, DeliveryInvStep
<1>5. RejectedRows'
  <2>1. ASSUME NEW d \in Dispatch, run'[d].outcome = "delivery_rejected"
        PROVE  row'[d].state \in {"failed", "cancelled"} /\ ~row'[d].ambiguous
    <3>1. run[d].outcome = "delivery_rejected" \/ d \in RejectedRuns
          BY <1>1, <2>1, StepOutcome DEF Untouched
    <3>2. row[d].state \in {"failed", "cancelled"} /\ ~row[d].ambiguous
          BY <3>1, RejectedRowFacts DEF IInv, RejectedRows
    <3>3. row'[d] = row[d]
          BY <1>1, <1>3, <3>2, FinalRowStep
    <3> QED
        BY <3>2, <3>3
  <2> QED
      BY <2>1 DEF RejectedRows
<1> QED
    BY <1>2, <1>4, <1>5 DEF IInv

THEOREM Invariance == Spec => []IInv
BY IInvInit, IInvStep, PTL DEF Spec

-----------------------------------------------------------------------------
(* What follows from it.                                                     *)

(* Every table keeps to its records: the states, pointers and leases the     *)
(* coordinator's operations write are the ones its types declare.            *)
THEOREM TypeCorrect == Spec => []TypeOK
<1>1. IInv => TypeOK
      BY DEF IInv, DeliveryInv, Coherent, Typed, TypeOK
<1> QED
    BY <1>1, Invariance, PTL

(* However many tasks share a workspace, and however their runs, waits,      *)
(* rejected notifications and reconciliations interleave, one of them at     *)
(* most holds it.                                                            *)
THEOREM WorkspaceFenced == Spec => []WorkspaceExclusive
<1>1. IInv => WorkspaceExclusive
      BY DEF IInv, Coherent, Exclusive, WorkspaceExclusive
<1> QED
    BY <1>1, Invariance, PTL

(* The three tables agree, and no live run or live wait is without the fence *)
(* of its task.                                                              *)
THEOREM TablesConsistent == Spec => []Consistent
<1>1. IInv => Consistent
  <2> SUFFICES ASSUME IInv
               PROVE  Consistent
      OBVIOUS
  <2>1. Owned(task, run, wait) /\ Matching(task, run, wait)
        /\ task \in [Task -> TaskRecord]
        BY DEF IInv, Coherent, Typed
  <2>2. NoOrphans
        BY <2>1 DEF Owned, NoOrphans, LiveRun, LiveWait
  <2>3. ASSUME NEW k \in Task
        PROVE  TaskMatches(k)
    <3>1. ~Occupied(task[k]) =>
              task[k].state \in {"unregistered", "idle", "completed", "needs_input"}
          BY <2>1 DEF Matching, TaskRecord, TaskState
    <3> QED
        BY <2>1, <3>1 DEF Matching, TaskMatches, LiveWait
  <2> QED
      BY <2>2, <2>3 DEF Consistent
<1> QED
    BY <1>1, Invariance, PTL

(* A run given up as rejected after a failed delivery was never received, so *)
(* no Chat works on a task whose fence was released that way.                *)
THEOREM RejectionsAreDefinitive == Spec => []RejectionIsDefinitive
<1>1. IInv => RejectionIsDefinitive
      BY DEF IInv, DeliveryInv, CleanRowNotReceived, RejectedRows, RejectionIsDefinitive
<1> QED
    BY <1>1, Invariance, PTL

(* One completion of a process does not reach the platform twice, unless an  *)
(* operator or an unsubscription cancelled a delivery on its way.            *)
THEOREM CompletionsReceivedOnce == Spec => []CompletionReceivedOnce
<1>1. IInv => CompletionReceivedOnce
  <2> SUFFICES ASSUME IInv, NEW w \in Wait, NEW d \in Dispatch, NEW e \in Dispatch,
                      run[d].origin = FromProcess(w), d \in received,
                      row[d].state # "cancelled",
                      run[e].origin = FromProcess(w), e \in received,
                      row[e].state # "cancelled"
               PROVE  d = e
      BY DEF CompletionReceivedOnce
  <2>1. FromProcess(w).wait = w /\ w # NoWait
        BY CoordinatorAssumption DEF FromProcess, NoOrigin
  <2>2. Noticed(run, wait)
        BY DEF IInv, Coherent
  <2>3. run[d].outcome # "delivery_rejected" /\ run[e].outcome # "delivery_rejected"
        BY DEF IInv, DeliveryInv, CleanRowNotReceived, RejectedRows
  <2> QED
      BY <2>1, <2>2, <2>3 DEF Noticed
<1> QED
    BY <1>1, Invariance, PTL

(* A saved receipt is never turned away as a duplicate request.              *)
THEOREM ReceiptAlwaysNew == Spec => []ReceiptNotSwallowed
<1>1. IInv => ReceiptNotSwallowed
  <2> SUFFICES ASSUME IInv, NEW w \in Wait, wait[w].state = "terminal",
                      NEW d \in recorded, run[d].origin = FromProcess(w)
               PROVE  FALSE
      BY DEF ReceiptNotSwallowed
  <2>1. FromProcess(w).wait = w /\ w # NoWait
        BY CoordinatorAssumption DEF FromProcess, NoOrigin
  <2>2. Noticed(run, wait) /\ Recorded(run, recorded) /\ d \in Dispatch
        BY DEF IInv, Coherent, Typed
  <2>3. run[d].outcome # "delivery_rejected"
        BY <2>2 DEF Recorded
  <2> QED
      BY <2>1, <2>2, <2>3 DEF Noticed
<1> QED
    BY <1>1, Invariance, PTL

(* The coordinator, with everything it does to the outbox, implements the    *)
(* delivery contract, so that the contract's theorems hold of it.            *)
THEOREM UsesDeliveryContract == Spec => DeliverySpec
<1>1. IInv /\ [Next]_vars => [DeliveryNext]_deliveryVars
      BY StepIsDelivery DEF IInv, DeliveryInv
<1>2. Init => DeliveryInit
      BY DEF Init
<1> QED
    BY <1>1, <1>2, Invariance, PTL DEF Spec, DeliverySpec

-----------------------------------------------------------------------------
(* What a step may never do, from the inductive invariant.                   *)
(* A transaction that mints run d for task k, out of the task table T.       *)

Minting(T, o, k, d) ==
    /\ Enqueue(T, o, k, d)
    /\ DOMAIN T = Task
    /\ T[k] \in TaskRecord
    /\ T[k].enabled = task[k].enabled
    /\ \A j \in Task \ {k} : T[j] = SyncedTask[j]

LEMMA PlainMinting ==
    ASSUME Coherent(task, run, wait, recorded), NEW o, NEW k \in Task, NEW d,
           Enqueue(SyncedTask, o, k, d)
    PROVE  Minting(SyncedTask, o, k, d)
BY SyncCoherent, SyncTaskEffect DEF Minting, Coherent, Typed

LEMMA ResumeMinting ==
    ASSUME Coherent(task, run, wait, recorded), NEW w \in Wait, NEW d,
           ResumeProcessWait(w, d)
    PROVE  Minting(ReleasedTask(w[1]), FromProcess(w), w[1], d)
<1> DEFINE k == w[1]
<1>1. k \in Task
      BY DEF Wait
<1>2. Enqueue(ReleasedTask(k), FromProcess(w), k, d)
      BY DEF ResumeProcessWait
<1>3. SyncedTask \in [Task -> TaskRecord]
      BY SyncCoherent DEF Coherent, Typed
<1>4. task[k] \in TaskRecord
      BY <1>1 DEF Coherent, Typed
<1>5. ReleasedTask(k)[k] = [task[k] EXCEPT !.state = "idle", !.waitingFor = NoWait]
      BY <1>1, <1>3 DEF ReleasedTask, Put
<1>6. ReleasedTask(k)[k] \in TaskRecord /\ ReleasedTask(k)[k].enabled = task[k].enabled
      BY <1>4, <1>5 DEF TaskRecord, TaskState
<1>7. DOMAIN ReleasedTask(k) = Task
      /\ \A j \in Task \ {k} : ReleasedTask(k)[j] = SyncedTask[j]
      BY <1>3 DEF ReleasedTask, Put
<1> QED
    BY <1>2, <1>6, <1>7 DEF Minting

LEMMA MintingEffect ==
    ASSUME Coherent(task, run, wait, recorded), NEW T, NEW o, NEW k \in Task,
           NEW d \in Dispatch, Minting(T, o, k, d)
    PROVE  /\ task[k].enabled
           /\ task'[k].currentRun = d
           /\ \E s \in Sub : task'[k].sub = s /\ EnqueueRow(d, s)
           /\ \A j \in Task \ {k} : task'[j] = SyncedTask[j]
           /\ run[d].state = "none"
           /\ d \notin RejectedRuns
           /\ run'[d].task = k /\ run'[d].origin = o /\ run'[d].outcome = "none"
           /\ \A e \in Dispatch \ {d} : run'[e] = SyncedRun[e]
<1>1. /\ run[d] \in RunRecord /\ run[d].state = "none" /\ run[d].outcome = "none"
      /\ DOMAIN SyncedRun = Dispatch /\ T[k] \in TaskRecord /\ DOMAIN T = Task
      BY DEF Minting, Enqueue, Coherent, Typed, Recorded, SyncedRun
<1>2. PICK s \in Sub : /\ task' = Put(T, k, [T[k] EXCEPT !.state = "queued",
                                              !.currentRun = d, !.sub = s])
                       /\ EnqueueRow(d, s)
      BY DEF Minting, Enqueue
<1>3. run' = Put(SyncedRun, d, [run[d] EXCEPT !.state = "queued", !.task = k,
                                              !.origin = o])
      BY DEF Minting, Enqueue
<1>4. task'[k] = [T[k] EXCEPT !.state = "queued", !.currentRun = d, !.sub = s]
      /\ \A j \in Task \ {k} : task'[j] = T[j]
      BY <1>1, <1>2 DEF Put
<1>5. task'[k].currentRun = d /\ task'[k].sub = s
      BY <1>1, <1>4 DEF TaskRecord
<1>6. run'[d] = [run[d] EXCEPT !.state = "queued", !.task = k, !.origin = o]
      /\ \A e \in Dispatch \ {d} : run'[e] = SyncedRun[e]
      BY <1>1, <1>3 DEF Put
<1>7. run'[d].task = k /\ run'[d].origin = o /\ run'[d].outcome = "none"
      BY <1>1, <1>6 DEF RunRecord
<1>8. d \notin RejectedRuns
      BY <1>1, RejectedRunsAre
<1>9. task[k].enabled
      BY DEF Minting, Enqueue
<1> QED
    BY <1>1, <1>2, <1>4, <1>5, <1>6, <1>7, <1>8, <1>9 DEF Minting

LEMMA MintingOthers ==
    ASSUME Coherent(task, run, wait, recorded), NEW T, NEW o, NEW k \in Task,
           NEW d \in Dispatch, Minting(T, o, k, d), NEW j \in Task, j # k
    PROVE  task'[j] = SyncedTask[j]
<1>1. \E t : task' = Put(T, k, t)
      BY DEF Minting, Enqueue
<1> QED
    BY <1>1 DEF Minting, Put

-----------------------------------------------------------------------------
(* What a step does to a run.                                                *)

\* A run of an enabled task, at the request of no run or of an enabled task's.
Started(e) ==
    \E k \in Task :
        /\ task[k].enabled
        /\ run'[e].task = k
        /\ \/ run'[e].origin.run = NoDispatch
           \/ \E j \in Task : /\ task[j].enabled
                              /\ task[j].currentRun # NoDispatch
                              /\ run'[e].origin.run = task[j].currentRun

RunStep(e) ==
    /\ run[e].state \in {"finished", "cancelled"} => run'[e] = run[e]
    /\ run[e].state = "none" /\ run'[e].state = "queued" => Started(e)
    /\ run[e].state = "queued" /\ run'[e].state = "running" =>
          task[run[e].task].enabled

LEMMA SyncRunStep ==
    ASSUME Coherent(task, run, wait, recorded), NEW e \in Dispatch,
           run'[e] = SyncedRun[e]
    PROVE  RunStep(e)
<1>1. run[e] \in RunRecord
      BY DEF Coherent, Typed
<1>2. CASE e \in RejectedRuns
  <2>1. run[e].state = "queued"
        BY <1>2, RejectedRunsAre
  <2>2. run'[e] = [run[e] EXCEPT !.state = "cancelled", !.outcome = "delivery_rejected"]
        BY <1>2, SyncRunEffect
  <2>3. run'[e].state = "cancelled"
        BY <1>1, <2>2 DEF RunRecord
  <2> QED
      BY <2>1, <2>3 DEF RunStep
<1>3. CASE e \notin RejectedRuns
      BY <1>3, SyncRunEffect DEF RunStep
<1> QED
    BY <1>2, <1>3

LEMMA MintingRunStep ==
    ASSUME Coherent(task, run, wait, recorded), NEW T, NEW o, NEW k \in Task,
           NEW d \in Dispatch, Minting(T, o, k, d), NEW e \in Dispatch,
           \/ o.run = NoDispatch
           \/ \E j \in Task : /\ task[j].enabled
                              /\ task[j].currentRun # NoDispatch
                              /\ o.run = task[j].currentRun
    PROVE  RunStep(e)
<1>1. CASE e = d
  <2>1. /\ task[k].enabled /\ run[d].state = "none"
        /\ run'[d].task = k /\ run'[d].origin = o
        BY MintingEffect
  <2>2. Started(d)
        BY <2>1 DEF Started
  <2> QED
      BY <1>1, <2>1, <2>2 DEF RunStep
<1>2. CASE e # d
      BY <1>2, MintingEffect, SyncRunStep
<1> QED
    BY <1>1, <1>2

LEMMA StepRun ==
    ASSUME Coherent(task, run, wait, recorded), [Next]_vars, NEW e \in Dispatch
    PROVE  RunStep(e)
<1>1. run \in [Dispatch -> RunRecord] /\ run[e] \in RunRecord
      BY DEF Coherent, Typed
<1>2. CASE run' = run
      BY <1>2 DEF RunStep
<1>3. ASSUME NEW d \in Dispatch, run[d].state = "running", NEW lease,
             run' = [run EXCEPT ![d].lease = lease]
      PROVE  RunStep(e)
      BY <1>1, <1>3 DEF RunStep, RunRecord
<1>4. ASSUME NEW d \in Dispatch, run[d].state = "running", run' = FinishedRun(d)
      PROVE  RunStep(e)
  <2>1. CASE e = d
        BY <1>1, <1>4, <2>1, FinishedRunEffect DEF RunStep
  <2>2. CASE e # d
        BY <1>1, <1>4, <2>2, FinishedRunEffect DEF RunStep
  <2> QED
      BY <2>1, <2>2
<1>5. ASSUME NEW k \in Task, TaskStep(k)
      PROVE  RunStep(e)
  <2>1. CASE Register(k) \/ CancelProcessWait(k) \/ \E s \in Sub : Bind(k, s)
        BY <1>2, <2>1 DEF Register, CancelProcessWait, Bind
  <2>2. CASE Heartbeat(k)
    <3>1. task[k].currentRun \in Dispatch /\ run[task[k].currentRun].state = "running"
          BY <2>2, TaskFacts DEF Heartbeat, Actor
    <3>2. PICK lease : run' = [run EXCEPT ![task[k].currentRun].lease = lease]
          BY <2>2 DEF Heartbeat
    <3> QED
        BY <1>3, <3>1, <3>2
  <2>3. CASE Reconcile(k)
    <3>1. CASE e = task[k].currentRun
      <4>1. run[e].state \in LiveRun
            BY <3>1, TaskFacts, CoordinatorAssumption
      <4>2. run'[e].state = "cancelled"
            BY <1>1, <2>3, <3>1 DEF Reconcile, RunRecord
      <4> QED
          BY <4>1, <4>2 DEF RunStep, LiveRun
    <3>2. CASE e # task[k].currentRun
          BY <1>1, <2>3, <3>2 DEF Reconcile, RunStep
    <3> QED
        BY <3>1, <3>2
  <2>4. ASSUME NEW enabled \in BOOLEAN, SetEnabled(k, enabled)
        PROVE  RunStep(e)
        BY <2>4, SyncRunStep DEF SetEnabled
  <2>5. ASSUME NEW outcome \in ReportedState, Finish(k, outcome)
        PROVE  RunStep(e)
        BY <1>4, <2>5, TaskFacts DEF Finish, Actor
  <2>6. ASSUME NEW session \in Session, WaitProcess(k, session)
        PROVE  RunStep(e)
        BY <1>2, <1>4, <2>6, TaskFacts DEF WaitProcess, Actor
  <2>7. ASSUME NEW d \in Dispatch, Claim(k, d)
        PROVE  RunStep(e)
    <3>1. PICK lease : run' = [run EXCEPT ![d].state = "running", ![d].lease = lease]
          BY <2>7 DEF Claim
    <3>2. task[k].enabled /\ run[d].state = "queued" /\ run[d].task = k
          BY <2>7 DEF Claim
    <3> QED
        BY <1>1, <3>1, <3>2 DEF RunStep, RunRecord
  <2>8. ASSUME NEW d \in Dispatch, NEW key \in Dedup, External(key, k, d)
        PROVE  RunStep(e)
    <3>1. Minting(SyncedTask, FromProducer(key), k, d)
          BY <2>8, PlainMinting DEF External
    <3>2. FromProducer(key).run = NoDispatch
          BY DEF FromProducer, NoOrigin
    <3> QED
        BY <3>1, <3>2, MintingRunStep
  <2>9. ASSUME NEW d \in Dispatch, NEW key \in Dedup, NEW target \in Task,
               DispatchTo(k, target, key, d)
        PROVE  RunStep(e)
    <3>1. Minting(SyncedTask, FromRun(task[k].currentRun, key), target, d)
          BY <2>9, PlainMinting DEF DispatchTo
    <3>2. FromRun(task[k].currentRun, key).run = task[k].currentRun
          BY DEF FromRun, NoOrigin
    <3>3. task[k].enabled /\ task[k].currentRun # NoDispatch
          BY <2>9 DEF DispatchTo, Actor
    <3> QED
        BY <3>1, <3>2, <3>3, MintingRunStep
  <2> QED
      BY <1>5, <2>1, <2>2, <2>3, <2>4, <2>5, <2>6, <2>7, <2>8, <2>9 DEF TaskStep
<1>6. ASSUME NEW d \in Dispatch, LeaseTick(d)
      PROVE  RunStep(e)
  <2>1. run' = [run EXCEPT ![d].lease = run[d].lease - 1] /\ run[d].state = "running"
        BY <1>6 DEF LeaseTick
  <2> QED
      BY <1>3, <2>1
<1>7. ASSUME NEW w \in Wait, NEW d \in Dispatch, ResumeProcessWait(w, d)
      PROVE  RunStep(e)
  <2>1. w[1] \in Task /\ FromProcess(w).run = NoDispatch
        BY DEF Wait, FromProcess, NoOrigin
  <2> QED
      BY <1>7, <2>1, ResumeMinting, MintingRunStep
<1>8. ASSUME NEW w \in Wait, RecordProcessObservation(w)
      PROVE  RunStep(e)
      BY <1>2, <1>8 DEF RecordProcessObservation
<1>9. CASE UNCHANGED workVars \/ UNCHANGED vars
      BY <1>2, <1>9 DEF workVars, vars
<1>10. CASE Sync
      BY <1>10, SyncRunStep DEF Sync
<1> QED
    BY <1>5, <1>6, <1>7, <1>8, <1>9, <1>10 DEF Next

-----------------------------------------------------------------------------
(* When a task gives up its workspace.                                       *)

\* Why task k may: its run reported in time, was rejected on a clean row or was
\* reconciled, or the process it waited for was.
Justified(k) ==
    LET d == task[k].currentRun IN
    \/ /\ d # NoDispatch
       /\ \/ run[d].lease > 0 /\ run'[d].outcome = "reported"
          \/ ~row[d].ambiguous /\ run'[d].outcome = "delivery_rejected"
          \/ run'[d].outcome = "reconciled"
    \/ d = NoDispatch /\ wait'[task[k].waitingFor].state = "cancelled"

ReleaseStep(k) == Occupied(task[k]) /\ ~Occupied(task'[k]) => Justified(k)

\* synchronizeDeliveryOutcomes, alone or in front of another operation, releases
\* a task for a rejected run.
LEMMA SyncRelease ==
    ASSUME Coherent(task, run, wait, recorded), NEW k \in Task,
           Occupied(task[k]), ~Occupied(SyncedTask[k]),
           \A d \in RejectedRuns : run'[d].outcome = SyncedRun[d].outcome
    PROVE  Justified(k)
<1> DEFINE d == task[k].currentRun
<1>1. task[k] \in TaskRecord /\ run \in [Dispatch -> RunRecord]
      BY DEF Coherent, Typed
<1>2. ~Rejected(k) => Occupied(SyncedTask[k])
      BY <1>1, SyncedTaskCases DEF Occupied, TaskRecord
<1>3. Rejected(k) /\ d \in RejectedRuns
      BY <1>2, RejectedRunsAre
<1>4. d \in Dispatch /\ d # NoDispatch
      BY <1>3, RejectedRunsAre, CoordinatorAssumption
<1>5. SyncedRun[d].outcome = "delivery_rejected"
  <2>1. run[d] \in RunRecord
        BY <1>1, <1>4
  <2>2. SyncedRun[d] = [run[d] EXCEPT !.state = "cancelled",
                                      !.outcome = "delivery_rejected"]
        BY <1>3, <1>4, SyncRunEffect
  <2> QED
      BY <2>1, <2>2 DEF RunRecord
<1>6. ~row[d].ambiguous
      BY <1>3, RejectedRowFacts
<1> QED
    BY <1>3, <1>4, <1>5, <1>6 DEF Justified

LEMMA MintingRelease ==
    ASSUME Coherent(task, run, wait, recorded), NEW T, NEW o, NEW k \in Task,
           NEW d \in Dispatch, Minting(T, o, k, d), NEW j \in Task
    PROVE  ReleaseStep(j)
<1>1. CASE j = k
  <2>1. Occupied(task'[k])
        BY MintingEffect, CoordinatorAssumption DEF Occupied
  <2> QED
      BY <1>1, <2>1 DEF ReleaseStep
<1>2. CASE j # k
  <2>1. task'[j] = SyncedTask[j]
        BY <1>2, MintingOthers
  <2>2. \A e \in RejectedRuns : run'[e].outcome = SyncedRun[e].outcome
        BY MintingEffect, RejectedRunsAre
  <2> QED
      BY <2>1, <2>2, SyncRelease DEF ReleaseStep
<1> QED
    BY <1>1, <1>2

LEMMA ReconcileRelease ==
    ASSUME Coherent(task, run, wait, recorded), NEW k \in Task, Reconcile(k),
           Occupied(task[k])
    PROVE  Justified(k)
<1> DEFINE d == task[k].currentRun
           w == task[k].waitingFor
<1>1. run \in [Dispatch -> RunRecord] /\ wait \in [Wait -> WaitRecord]
      BY DEF Coherent, Typed
<1>2. CASE d # NoDispatch
  <2>1. d \in Dispatch /\ run[d] \in RunRecord
        BY <1>2, TaskFacts
  <2>2. run'[d] = [run[d] EXCEPT !.state = "cancelled", !.outcome = "reconciled"]
        BY <2>1 DEF Reconcile
  <2>3. run'[d].outcome = "reconciled"
        BY <2>1, <2>2 DEF RunRecord
  <2> QED
      BY <1>2, <2>3 DEF Justified
<1>3. CASE d = NoDispatch
  <2>1. w \in Wait /\ wait[w].state \in LiveWait \cup {"cancelled"}
        BY <1>3, TaskFacts DEF Occupied
  <2>2. wait[w].state # "dispatched" /\ wait[w] \in WaitRecord
        BY <1>1, <2>1 DEF LiveWait
  <2>3. wait'[w] = [wait[w] EXCEPT !.state = "cancelled"]
        BY <2>1, <2>2 DEF Reconcile
  <2>4. wait'[w].state = "cancelled"
        BY <2>2, <2>3 DEF WaitRecord
  <2> QED
      BY <1>3, <2>4 DEF Justified
<1> QED
    BY <1>2, <1>3

\* Operations that write one task, and leave it occupied if it was.
LEMMA KeptOccupied ==
    ASSUME NEW k \in Task, NEW j \in Task,
           \A i \in Task \ {k} : task'[i] = task[i],
           Occupied(task[k]) => Occupied(task'[k])
    PROVE  ReleaseStep(j)
<1>1. CASE j = k
      BY <1>1 DEF ReleaseStep
<1>2. CASE j # k
      BY <1>2 DEF ReleaseStep
<1> QED
    BY <1>1, <1>2

LEMMA StepRelease ==
    ASSUME Coherent(task, run, wait, recorded), [Next]_vars, NEW j \in Task
    PROVE  ReleaseStep(j)
<1>1. task \in [Task -> TaskRecord] /\ run \in [Dispatch -> RunRecord]
      BY DEF Coherent, Typed
<1>2. CASE task' = task
      BY <1>2 DEF ReleaseStep
<1>3. ASSUME NEW k \in Task, TaskStep(k)
      PROVE  ReleaseStep(j)
  <2>0. task[k] \in TaskRecord
        BY <1>1
  <2>1. CASE Register(k) \/ CancelProcessWait(k) \/ \E s \in Sub : Bind(k, s)
    <3>1. PICK t : task' = [task EXCEPT ![k] = t]
                   /\ t.currentRun = task[k].currentRun
                   /\ t.waitingFor = task[k].waitingFor
          BY <2>0, <2>1 DEF Register, CancelProcessWait, Bind, TaskRecord
    <3> QED
        BY <1>1, <3>1, KeptOccupied DEF Occupied
  <2>2. CASE Heartbeat(k)
        BY <1>2, <2>2 DEF Heartbeat
  <2>3. CASE Reconcile(k)
    <3>1. CASE j = k
          BY <2>3, <3>1, ReconcileRelease DEF ReleaseStep
    <3>2. CASE j # k
          BY <1>1, <2>3, <3>2 DEF Reconcile, ReleaseStep
    <3> QED
        BY <3>1, <3>2
  <2>4. ASSUME NEW enabled \in BOOLEAN, SetEnabled(k, enabled)
        PROVE  ReleaseStep(j)
    <3>1. SyncedTask \in [Task -> TaskRecord]
          BY SyncCoherent DEF Coherent, Typed
    <3>2. task'[j] = SyncedTask[j]
          \/ task'[j] = [SyncedTask[j] EXCEPT !.enabled = enabled]
          BY <2>4, <3>1 DEF SetEnabled, Put
    <3>3. Occupied(SyncedTask[j]) => Occupied(task'[j])
          BY <3>1, <3>2 DEF Occupied, TaskRecord
    <3>4. run' = SyncedRun
          BY <2>4 DEF SetEnabled
    <3> QED
        BY <3>3, <3>4, SyncRelease DEF ReleaseStep
  <2>5. ASSUME NEW outcome \in ReportedState, Finish(k, outcome)
        PROVE  ReleaseStep(j)
    <3> DEFINE d == task[k].currentRun
    <3>1. d # NoDispatch /\ run[d].lease > 0 /\ run' = FinishedRun(d)
          BY <2>5 DEF Finish, Actor
    <3>2. run'[d].outcome = "reported"
          BY <1>1, <3>1, TaskFacts, FinishedRunEffect
    <3>3. CASE j = k
          BY <3>1, <3>2, <3>3 DEF ReleaseStep, Justified
    <3>4. CASE j # k
          BY <1>1, <2>5, <3>4 DEF Finish, ReleaseStep
    <3> QED
        BY <3>3, <3>4
  <2>6. ASSUME NEW session \in Session, WaitProcess(k, session)
        PROVE  ReleaseStep(j)
    <3>1. <<k, session>> # NoWait
          BY CoordinatorAssumption DEF Wait
    <3>2. task'[k].waitingFor = <<k, session>>
          BY <1>1, <2>0, <2>6 DEF WaitProcess, TaskRecord
    <3>3. \A i \in Task \ {k} : task'[i] = task[i]
          BY <1>1, <2>6 DEF WaitProcess
    <3> QED
        BY <3>1, <3>2, <3>3, KeptOccupied DEF Occupied
  <2>7. ASSUME NEW d \in Dispatch, Claim(k, d)
        PROVE  ReleaseStep(j)
    <3>1. task' = [task EXCEPT ![k].state = "running"]
          BY <2>7 DEF Claim
    <3>2. task'[k].currentRun = task[k].currentRun
          /\ task'[k].waitingFor = task[k].waitingFor
          BY <1>1, <2>0, <3>1 DEF TaskRecord
    <3>3. \A i \in Task \ {k} : task'[i] = task[i]
          BY <1>1, <3>1
    <3> QED
        BY <3>2, <3>3, KeptOccupied DEF Occupied
  <2>8. ASSUME NEW d \in Dispatch, NEW key \in Dedup,
               External(key, k, d) \/ \E target \in Task : DispatchTo(k, target, key, d)
        PROVE  ReleaseStep(j)
        BY <2>8, PlainMinting, MintingRelease DEF External, DispatchTo
  <2> QED
      BY <1>3, <2>1, <2>2, <2>3, <2>4, <2>5, <2>6, <2>7, <2>8 DEF TaskStep
<1>4. ASSUME NEW d \in Dispatch, LeaseTick(d)
      PROVE  ReleaseStep(j)
      BY <1>2, <1>4 DEF LeaseTick
<1>5. ASSUME NEW w \in Wait, NEW d \in Dispatch, ResumeProcessWait(w, d)
      PROVE  ReleaseStep(j)
  <2>1. w[1] \in Task
        BY DEF Wait
  <2> QED
      BY <1>5, <2>1, ResumeMinting, MintingRelease
<1>6. ASSUME NEW w \in Wait, RecordProcessObservation(w)
      PROVE  ReleaseStep(j)
      BY <1>2, <1>6 DEF RecordProcessObservation
<1>7. CASE UNCHANGED workVars \/ UNCHANGED vars
      BY <1>2, <1>7 DEF workVars, vars
<1>8. CASE Sync
      BY <1>8, SyncRelease DEF Sync, ReleaseStep
<1> QED
    BY <1>3, <1>4, <1>5, <1>6, <1>7, <1>8 DEF Next

-----------------------------------------------------------------------------
(* The Chat that a task's run is delivered to.                               *)

Bound(k) ==
    task[k].currentRun # NoDispatch =>
        task[k].sub \in Sub /\ row[task[k].currentRun].sub = task[k].sub

BoundRuns == \A k \in Task : Bound(k)

\* A step that mints no run leaves the one of task k with its subscription.
KeepsRun(k) ==
    task'[k].currentRun # NoDispatch =>
        task'[k].currentRun = task[k].currentRun /\ task'[k].sub = task[k].sub

(* No step of the outbox moves a row to another subscription.                *)
LEMMA DeliveryKeepsSub ==
    ASSUME DeliveryTypeOK, NEW e \in Dispatch,
           \/ DeliveryStep
           \/ \E d \in Dispatch \cup {NoDispatch} : CancelRow(d)
           \/ UNCHANGED deliveryVars
    PROVE  row'[e].sub = row[e].sub
<1>1. row \in [Dispatch -> Row] /\ row[e] \in Row
      BY DEF DeliveryTypeOK
<1>2. ASSUME NEW D, row' = CancelRows(D)
      PROVE  row'[e].sub = row[e].sub
  <2>1. row'[e] = row[e] \/ row'[e] = [row[e] EXCEPT !.state = "cancelled"]
        BY <1>2 DEF CancelRows
  <2> QED
      BY <1>1, <2>1 DEF Row
<1>3. ASSUME NEW d \in Dispatch, ClaimRow(d)
      PROVE  row'[e].sub = row[e].sub
  <2>1. row' = [row EXCEPT ![d] = Claimed(row[d])] /\ row[d] \in Row
        BY <1>1, <1>3 DEF ClaimRow
  <2>2. Claimed(row[d]).sub = row[d].sub
        BY <2>1 DEF Claimed, Row
  <2> QED
      BY <1>1, <2>1, <2>2
<1>4. ASSUME NEW d \in Dispatch, DropRow(d)
      PROVE  row'[e].sub = row[e].sub
      BY <1>1, <1>4 DEF DropRow, Row
<1>5. ASSUME NEW d \in Dispatch, NEW resp \in Response, SettleRow(d, resp)
      PROVE  row'[e].sub = row[e].sub
  <2>1. PICK state, doubt : row' = [row EXCEPT ![d].state = state, ![d].ambiguous = doubt]
        BY <1>5 DEF SettleRow
  <2> QED
      BY <1>1, <2>1 DEF Row
<1>6. ASSUME NEW d \in Dispatch, Arrive(d)
      PROVE  row'[e].sub = row[e].sub
      BY <1>6 DEF Arrive
<1>7. ASSUME NEW s \in Sub, Subscribe(s) \/ Expire(s)
      PROVE  row'[e].sub = row[e].sub
      BY <1>7 DEF Subscribe, Expire
<1>8. ASSUME NEW s \in Sub, Unsubscribe(s)
      PROVE  row'[e].sub = row[e].sub
      BY <1>2, <1>8 DEF Unsubscribe
<1>9. ASSUME NEW d, CancelRow(d)
      PROVE  row'[e].sub = row[e].sub
      BY <1>2, <1>9 DEF CancelRow
<1>10. CASE UNCHANGED deliveryVars
       BY <1>10 DEF deliveryVars
<1> QED
    BY <1>3, <1>4, <1>5, <1>6, <1>7, <1>8, <1>9, <1>10 DEF DeliveryStep

\* A task that keeps its run, whose row keeps its subscription, stays bound.
LEMMA KeepsBound ==
    ASSUME Coherent(task, run, wait, recorded), NEW k \in Task, Bound(k), KeepsRun(k),
           task[k].currentRun # NoDispatch =>
               row'[task[k].currentRun].sub = row[task[k].currentRun].sub
    PROVE  Bound(k)'
BY DEF Bound, KeepsRun

LEMMA SyncKeepsRun ==
    ASSUME Coherent(task, run, wait, recorded), NEW k \in Task,
           task'[k].currentRun = SyncedTask[k].currentRun,
           task'[k].sub = SyncedTask[k].sub
    PROVE  KeepsRun(k)
<1>1. task[k] \in TaskRecord
      BY DEF Coherent, Typed
<1>2. SyncedTask[k].currentRun \in {NoDispatch, task[k].currentRun}
      BY <1>1, SyncedTaskCases DEF TaskRecord
<1>3. SyncedTask[k].sub = task[k].sub
      BY SyncTaskEffect
<1> QED
    BY <1>2, <1>3 DEF KeepsRun

LEMMA MintingBound ==
    ASSUME Coherent(task, run, wait, recorded), DeliveryTypeOK, NEW T, NEW o,
           NEW k \in Task, NEW d \in Dispatch, Minting(T, o, k, d),
           NEW j \in Task, Bound(j)
    PROVE  Bound(j)'
<1>1. PICK s \in Sub : task'[k].sub = s /\ EnqueueRow(d, s)
      BY MintingEffect
<1>2. row' = [row EXCEPT ![d] = FreshRow(s)] /\ row \in [Dispatch -> Row]
      BY <1>1 DEF EnqueueRow, DeliveryTypeOK
<1>3. CASE j = k
  <2>1. task'[k].currentRun = d
        BY MintingEffect
  <2>2. row'[d].sub = s
        BY <1>2 DEF FreshRow
  <2> QED
      BY <1>1, <1>3, <2>1, <2>2 DEF Bound
<1>4. CASE j # k
  <2>1. task'[j] = SyncedTask[j]
        BY <1>4, MintingOthers
  <2>2. KeepsRun(j)
        BY <1>4, <2>1, SyncKeepsRun
  <2>3. run[d].state = "none"
        BY MintingEffect
  <2>4. task[j].currentRun # NoDispatch =>
            task[j].currentRun \in Dispatch \ {d}
        BY <2>3, TaskFacts DEF LiveRun
  <2> QED
      BY <1>2, <2>2, <2>4, KeepsBound
<1> QED
    BY <1>3, <1>4

LEMMA StepKeepsRun ==
    ASSUME Coherent(task, run, wait, recorded), NEW k \in Task, NEW j \in Task,
           Bound(j),
           \/ Register(k) \/ Heartbeat(k) \/ CancelProcessWait(k) \/ Reconcile(k)
           \/ \E s \in Sub : Bind(k, s)
           \/ \E enabled \in BOOLEAN : SetEnabled(k, enabled)
           \/ \E outcome \in ReportedState : Finish(k, outcome)
           \/ \E session \in Session : WaitProcess(k, session)
           \/ \E d \in Dispatch : Claim(k, d)
    PROVE  KeepsRun(j)
<1>1. task \in [Task -> TaskRecord] /\ task[k] \in TaskRecord
      BY DEF Coherent, Typed
<1>2. ASSUME NEW t, task' = [task EXCEPT ![k] = t],
             t.currentRun \in {NoDispatch, task[k].currentRun}, t.sub = task[k].sub
      PROVE  KeepsRun(j)
      BY <1>1, <1>2 DEF KeepsRun
<1>3. CASE Register(k)
      BY <1>1, <1>2, <1>3 DEF Register, TaskRecord
<1>4. CASE Heartbeat(k)
      BY <1>4 DEF Heartbeat, KeepsRun
<1>5. CASE CancelProcessWait(k)
      BY <1>1, <1>2, <1>5 DEF CancelProcessWait, TaskRecord
<1>6. CASE Reconcile(k)
      BY <1>1, <1>2, <1>6 DEF Reconcile, TaskRecord
<1>7. ASSUME NEW s \in Sub, Bind(k, s)
      PROVE  KeepsRun(j)
  <2>1. CASE j = k
        BY <1>1, <1>7, <2>1, SentinelAssumption DEF Bind, Bound, KeepsRun, TaskRecord
  <2>2. CASE j # k
        BY <1>1, <1>7, <2>2 DEF Bind, KeepsRun
  <2> QED
      BY <2>1, <2>2
<1>8. ASSUME NEW enabled \in BOOLEAN, SetEnabled(k, enabled)
      PROVE  KeepsRun(j)
  <2>1. SyncedTask \in [Task -> TaskRecord]
        BY SyncCoherent DEF Coherent, Typed
  <2>2. task'[j] = SyncedTask[j]
        \/ task'[j] = [SyncedTask[j] EXCEPT !.enabled = enabled]
        BY <1>8, <2>1 DEF SetEnabled, Put
  <2>3. task'[j].currentRun = SyncedTask[j].currentRun
        /\ task'[j].sub = SyncedTask[j].sub
        BY <2>1, <2>2 DEF TaskRecord
  <2> QED
      BY <2>3, SyncKeepsRun
<1>9. ASSUME NEW outcome \in ReportedState, Finish(k, outcome)
      PROVE  KeepsRun(j)
      BY <1>1, <1>2, <1>9 DEF Finish, TaskRecord
<1>10. ASSUME NEW session \in Session, WaitProcess(k, session)
       PROVE  KeepsRun(j)
       BY <1>1, <1>2, <1>10 DEF WaitProcess, TaskRecord
<1>11. ASSUME NEW d \in Dispatch, Claim(k, d)
       PROVE  KeepsRun(j)
       BY <1>1, <1>2, <1>11 DEF Claim, TaskRecord
<1> QED
    BY <1>3, <1>4, <1>5, <1>6, <1>7, <1>8, <1>9, <1>10, <1>11

LEMMA StepBound ==
    ASSUME Coherent(task, run, wait, recorded), DeliveryTypeOK, [Next]_vars,
           NEW j \in Task, Bound(j)
    PROVE  Bound(j)'
<1>1. task[j].currentRun # NoDispatch => task[j].currentRun \in Dispatch
      BY TaskFacts
<1>2. ASSUME KeepsRun(j), UNCHANGED deliveryVars
      PROVE  Bound(j)'
      BY <1>1, <1>2, KeepsBound, DeliveryKeepsSub
<1>3. ASSUME task' = task,
             DeliveryStep \/ UNCHANGED deliveryVars
      PROVE  Bound(j)'
      BY <1>1, <1>3, KeepsBound, DeliveryKeepsSub DEF KeepsRun
<1>4. ASSUME NEW k \in Task, TaskStep(k)
      PROVE  Bound(j)'
  <2>1. CASE Register(k) \/ Heartbeat(k) \/ CancelProcessWait(k)
             \/ \E s \in Sub : Bind(k, s)
        BY <1>2, <2>1, StepKeepsRun DEF Register, Heartbeat, CancelProcessWait, Bind
  <2>2. CASE Reconcile(k)
    <3>1. task[k].currentRun \in Dispatch \cup {NoDispatch}
          /\ CancelRow(task[k].currentRun)
          BY <2>2, TaskFacts DEF Reconcile
    <3> QED
        BY <1>1, <2>2, <3>1, KeepsBound, StepKeepsRun, DeliveryKeepsSub
  <2>3. ASSUME NEW enabled \in BOOLEAN, SetEnabled(k, enabled)
        PROVE  Bound(j)'
        BY <1>2, <2>3, StepKeepsRun DEF SetEnabled
  <2>4. ASSUME NEW outcome \in ReportedState, Finish(k, outcome)
        PROVE  Bound(j)'
        BY <1>2, <2>4, StepKeepsRun DEF Finish
  <2>5. ASSUME NEW session \in Session, WaitProcess(k, session)
        PROVE  Bound(j)'
        BY <1>2, <2>5, StepKeepsRun DEF WaitProcess
  <2>6. ASSUME NEW d \in Dispatch, Claim(k, d)
        PROVE  Bound(j)'
        BY <1>2, <2>6, StepKeepsRun DEF Claim
  <2>7. ASSUME NEW d \in Dispatch, NEW key \in Dedup,
               External(key, k, d) \/ \E target \in Task : DispatchTo(k, target, key, d)
        PROVE  Bound(j)'
        BY <2>7, PlainMinting, MintingBound DEF External, DispatchTo
  <2> QED
      BY <1>4, <2>1, <2>2, <2>3, <2>4, <2>5, <2>6, <2>7 DEF TaskStep
<1>5. ASSUME NEW d \in Dispatch, LeaseTick(d)
      PROVE  Bound(j)'
      BY <1>3, <1>5 DEF LeaseTick
<1>6. ASSUME NEW w \in Wait, NEW d \in Dispatch, ResumeProcessWait(w, d)
      PROVE  Bound(j)'
  <2>1. w[1] \in Task
        BY DEF Wait
  <2> QED
      BY <1>6, <2>1, ResumeMinting, MintingBound
<1>7. ASSUME NEW w \in Wait, RecordProcessObservation(w)
      PROVE  Bound(j)'
      BY <1>3, <1>7 DEF RecordProcessObservation
<1>8. CASE DeliveryStep /\ UNCHANGED workVars
      BY <1>3, <1>8 DEF workVars
<1>9. CASE UNCHANGED vars
      BY <1>3, <1>9 DEF vars, deliveryVars
<1>10. CASE Sync
       BY <1>2, <1>10, SyncKeepsRun DEF Sync
<1> QED
    BY <1>4, <1>5, <1>6, <1>7, <1>8, <1>9, <1>10 DEF Next

-----------------------------------------------------------------------------
(* What follows from it.                                                     *)

(* Nothing that comes late changes a finished or cancelled run, and no       *)
(* dispatch is leased twice.                                                 *)
THEOREM RunsEnd == Spec => RunsEndOnce
<1>1. IInv /\ [Next]_vars =>
          [\A d \in Dispatch :
              run[d].state \in {"finished", "cancelled"} => run'[d] = run[d]]_run
      BY StepRun DEF IInv, RunStep
<1> QED
    BY <1>1, Invariance, PTL DEF Spec, RunsEndOnce

(* A paused task starts no run, claims none and asks for none.               *)
THEOREM PauseHolds == Spec => PausedStartsNothing
<1> DEFINE Quiet == \A k \in Task, d \in Dispatch :
              ~task[k].enabled =>
                 /\ run[d].state = "none" /\ run'[d].state = "queued" =>
                       /\ run'[d].task # k
                       /\ task[k].currentRun # NoDispatch =>
                             run'[d].origin.run # task[k].currentRun
                 /\ run[d].state = "queued" /\ run'[d].state = "running" =>
                       run[d].task # k
<1>1. ASSUME IInv, [Next]_vars
      PROVE  Quiet
  <2>1. SUFFICES ASSUME NEW k \in Task, NEW d \in Dispatch, ~task[k].enabled
                 PROVE  /\ run[d].state = "none" /\ run'[d].state = "queued" =>
                              /\ run'[d].task # k
                              /\ task[k].currentRun # NoDispatch =>
                                    run'[d].origin.run # task[k].currentRun
                        /\ run[d].state = "queued" /\ run'[d].state = "running" =>
                              run[d].task # k
        OBVIOUS
  <2>2. Coherent(task, run, wait, recorded) /\ RunStep(d)
        BY <1>1, StepRun DEF IInv
  <2>3. ASSUME NEW j \in Task, task[j].currentRun # NoDispatch,
               task[j].currentRun = task[k].currentRun
        PROVE  j = k
        BY <2>2, <2>3, TaskFacts
  <2> QED
      BY <2>1, <2>2, <2>3 DEF RunStep, Started
<1> QED
    BY <1>1, Invariance, PTL DEF Spec, PausedStartsNothing

(* A task gives its workspace up for a reason: a report in time, a rejection *)
(* on a clean row, or a reconciliation.                                      *)
THEOREM ReleasesAreJustified == Spec => ReleaseJustified
<1>1. IInv /\ [Next]_vars => \A k \in Task : ReleaseStep(k)
      BY StepRelease DEF IInv
<1> QED
    BY <1>1, Invariance, PTL DEF Spec, ReleaseJustified, ReleaseStep, Justified

(* The event of a task's current run goes to the Chat the task is bound to.  *)
THEOREM DeliveriesFollowBinding == Spec => []DeliveredToBinding
<1>1. Init => BoundRuns
      BY DEF Init, BoundRuns, Bound
<1>2. IInv /\ BoundRuns /\ [Next]_vars => BoundRuns'
      BY StepBound DEF IInv, DeliveryInv, BoundRuns
<1>3. BoundRuns => DeliveredToBinding
      BY DEF BoundRuns, Bound, DeliveredToBinding
<1> QED
    BY <1>1, <1>2, <1>3, Invariance, PTL DEF Spec
=============================================================================
