----------------------- MODULE LocalChatContinuation -----------------------
(***************************************************************************)
(* The local inbox (src/local-chat-continuation.ts): events wait in        *)
(* local_deliveries until a dispatcher process has locked their Chat in    *)
(* local_targets, has looked at it and submits them through the Desktop    *)
(* bridge.  Each transaction is an action, each await lets other processes *)
(* in.  A process may stop anywhere; what it wrote stays.                  *)
(*                                                                         *)
(* Abstractions.  A token stands for the random token of a lock and for    *)
(* the id of the message that is submitted under it.  What a read of the   *)
(* Chat shows may be old: a first look may always find it idle, and only   *)
(* that a message is there and answered can be relied on.  Reasons, times  *)
(* and the contents of events are left out; a route that is paused or has  *)
(* changed refuses like a locked target, which Leave stands for.           *)
(***************************************************************************)
EXTENDS Naturals

CONSTANTS
    Delivery, NoDelivery,
    Thread,         \* Chats
    TargetOf,       \* the Chat of a delivery's route
    Process,        \* calls of dispatch, recover and settle under way
    Token, NoToken, \* bound: locks that are ever taken
    MaxAttempts     \* six

ASSUME LocalAssumption ==
    /\ NoDelivery \notin Delivery
    /\ NoToken \notin Token
    /\ TargetOf \in [Delivery -> Thread]
    /\ MaxAttempts \in Nat \ {0}

VARIABLES
    row,        \* local_deliveries
    lock,       \* local_targets
    proc,       \* the locals of each call
    \* The bridge and the Chats.
    message     \* what has become of the message of each token

vars == <<row, lock, proc, message>>

RowState == {"none", "pending", "checking", "sending", "held", "submitted", "cancelled"}
Row == [state : RowState, attempts : 0..MaxAttempts, due : BOOLEAN,
        receipt : Token \cup {NoToken}]
Lock == [token : Token \cup {NoToken}, phase : {"none", "checking", "sending", "submitted"},
         expired : BOOLEAN]
Call == [at : {"idle", "acquiring", "releasing", "settling", "checking", "sending",
               "recovering"},
         of : Delivery \cup {NoDelivery}, token : Token \cup {NoToken},
         receipt : Token \cup {NoToken}]
\* Out: the bridge was asked to submit it; it may still appear in the Chat.
Message == [of : Delivery \cup {NoDelivery},
            state : {"unsent", "out", "refused", "running", "answered"}]

NoRow == [state |-> "none", attempts |-> 0, due |-> TRUE, receipt |-> NoToken]
NoLock == [token |-> NoToken, phase |-> "none", expired |-> FALSE]
NoCall == [at |-> "idle", of |-> NoDelivery, token |-> NoToken, receipt |-> NoToken]
NoMessage == [of |-> NoDelivery, state |-> "unsent"]

LocalTypeOK ==
    /\ row \in [Delivery -> Row]
    /\ lock \in [Thread -> Lock]
    /\ proc \in [Process -> Call]
    /\ message \in [Token -> Message]

Init ==
    /\ row = [d \in Delivery |-> NoRow]
    /\ lock = [t \in Thread |-> NoLock]
    /\ proc = [p \in Process |-> NoCall]
    /\ message = [m \in Token |-> NoMessage]

-----------------------------------------------------------------------------
(* Faults that mutation runs swap in for the definitions below: any old lock *)
(* is reclaimed, a lock is not looked at again after an await, the limit is  *)
(* compared one late, the journal is believed without a look at the Chat, a  *)
(* delivery is cancelled while it is checked.                                *)
FaultReclaimable(t) == lock[t].phase \in {"checking", "sending"}
FaultHoldsLock(p) == TRUE
FaultExhausted(r) == r.attempts > MaxAttempts
FaultFound(p) == TRUE
FaultCancellable(d) == row[d].state \in {"pending", "checking"}

-----------------------------------------------------------------------------
ThreadOf(p) == TargetOf[proc[p].of]
LockedBy(t) == IF lock[t].token = NoToken THEN NoDelivery ELSE message[lock[t].token].of
HoldsLock(p) == lock[ThreadOf(p)].token = proc[p].token
InChat(m) == m # NoToken /\ message[m].state \in {"running", "answered"}

Enqueue(d) ==
    /\ row[d].state = "none"
    /\ row' = [row EXCEPT ![d].state = "pending"]
    /\ UNCHANGED <<lock, proc, message>>

\* The call ends without writing: refused, deferred, dispatch_lock_lost, or its
\* process has died.
Leave(p) ==
    /\ proc[p].at # "idle"
    /\ proc' = [proc EXCEPT ![p] = NoCall]
    /\ UNCHANGED <<row, lock, message>>

-----------------------------------------------------------------------------
(* releaseCompletedTarget                                                    *)

Acquiring(d) == [NoCall EXCEPT !.at = "acquiring", !.of = d]

\* The lock and the receipt of its delivery, as they are before the await.
Releasing(at, d) ==
    LET held == lock[TargetOf[d]] IN
    [at |-> at, of |-> d, token |-> held.token,
     receipt |-> row[LockedBy(TargetOf[d])].receipt]

\* The Chat shows that message and a final answer after it.
ReleaseCompletedTarget(p) ==
    /\ proc[p].at \in {"releasing", "settling"}
    /\ proc[p].receipt # NoToken /\ message[proc[p].receipt].state = "answered"
    /\ lock' = IF HoldsLock(p) /\ lock[ThreadOf(p)].phase = "submitted"
               THEN [lock EXCEPT ![ThreadOf(p)] = NoLock] ELSE lock
    /\ proc' = [proc EXCEPT ![p] =
                   IF @.at = "releasing" THEN Acquiring(@.of) ELSE NoCall]
    /\ UNCHANGED <<row, message>>

Settle(p, d) ==
    /\ proc[p].at = "idle"
    /\ row[d].state = "submitted"
    /\ LockedBy(TargetOf[d]) = d
    /\ lock[TargetOf[d]].phase = "submitted"
    /\ proc' = [proc EXCEPT ![p] = Releasing("settling", d)]
    /\ UNCHANGED <<row, lock, message>>

-----------------------------------------------------------------------------
(* dispatch                                                                  *)

Dispatchable(d) == row[d].state \in {"pending", "checking"}

Dispatch(p, d) ==
    /\ proc[p].at = "idle"
    /\ Dispatchable(d)
    /\ proc' = [proc EXCEPT ![p] =
                   IF lock[TargetOf[d]].phase = "submitted" THEN Releasing("releasing", d)
                   ELSE Acquiring(d)]
    /\ UNCHANGED <<row, lock, message>>

\* Only an expired lock of a call that has sent nothing can be taken over.
Reclaimable(t) == lock[t].phase = "checking" /\ lock[t].expired

Acquire(p, m) ==
    LET d == proc[p].of
        t == ThreadOf(p)
    IN
    /\ proc[p].at = "acquiring"
    /\ Dispatchable(d) /\ row[d].due
    /\ lock[t] = NoLock \/ Reclaimable(t)
    /\ message[m] = NoMessage
    /\ row' = [row EXCEPT ![d].state = "checking"]
    /\ lock' = [lock EXCEPT ![t] = [token |-> m, phase |-> "checking", expired |-> FALSE]]
    /\ message' = [message EXCEPT ![m].of = d]
    /\ proc' = [proc EXCEPT ![p].at = "checking", ![p].token = m]

\* finishLocked: the row is settled and the lock given back, or kept.
Finish(p, r) ==
    /\ HoldsLock(p)
    /\ row' = [row EXCEPT ![proc[p].of] = r]
    /\ proc' = [proc EXCEPT ![p] = NoCall]
Unlock(p) == lock' = [lock EXCEPT ![ThreadOf(p)] = NoLock]

\* The Chat is not idle or the reference has changed; or it could not be read,
\* which calls for a pause and leaves an error for a receipt.
PutBack(p, due) ==
    /\ proc[p].at = "checking"
    /\ Finish(p, [row[proc[p].of] EXCEPT !.state = "pending", !.due = due,
                                         !.receipt = IF due THEN @ ELSE NoToken])
    /\ Unlock(p)
    /\ UNCHANGED message

\* The Chat is idle: the side-effect boundary is stored, then send is called.
Send(p) ==
    LET actual == row[proc[p].of]
    IN
    /\ proc[p].at = "checking"
    /\ HoldsLock(p)
    /\ row' = [row EXCEPT ![proc[p].of] =
                  [actual EXCEPT !.state = "sending", !.attempts = actual.attempts + 1,
                                 !.receipt = NoToken]]
    /\ lock' = [lock EXCEPT ![ThreadOf(p)].phase = "sending"]
    /\ proc' = [proc EXCEPT ![p].at = "sending"]
    /\ message' = [message EXCEPT ![proc[p].token].state = "out"]

\* committed or committed_recovered.
Committed(p) ==
    /\ proc[p].at = "sending"
    /\ InChat(proc[p].token)
    /\ Finish(p, [row[proc[p].of] EXCEPT !.state = "submitted", !.due = TRUE,
                                         !.receipt = proc[p].token])
    /\ lock' = [lock EXCEPT ![ThreadOf(p)].phase = "submitted"]
    /\ UNCHANGED message

Exhausted(r) == r.attempts >= MaxAttempts

\* not_started and safe_to_resubmit: the bridge will not submit it any more.
NotStarted(p) ==
    LET d == proc[p].of
    IN
    /\ proc[p].at = "sending"
    /\ message[proc[p].token].state = "out"
    /\ \E receipt \in {proc[p].token, NoToken} :
          Finish(p, [row[d] EXCEPT !.state = IF Exhausted(row[d]) THEN "held" ELSE "pending",
                                   !.due = FALSE, !.receipt = receipt])
    /\ Unlock(p)
    /\ message' = [message EXCEPT ![proc[p].token].state = "refused"]

\* An error, or any other outcome, with or without a message id: the lock stays.
Unknown(p) ==
    /\ proc[p].at = "sending"
    /\ \E receipt \in {proc[p].token, NoToken} :
          Finish(p, [row[proc[p].of] EXCEPT !.state = "held", !.due = TRUE,
                                            !.receipt = receipt])
    /\ UNCHANGED <<lock, message>>

-----------------------------------------------------------------------------
(* recover and cancelPending                                                 *)

Unsettled(d) == row[d].state \in {"held", "sending"}

\* The receipt, or the bridge's journal, names a message.
Recover(p, d, m) ==
    /\ proc[p].at = "idle"
    /\ Unsettled(d)
    /\ IF row[d].receipt # NoToken THEN m = row[d].receipt
       ELSE message[m].of = d /\ message[m].state # "unsent"
    /\ proc' = [proc EXCEPT ![p] = [NoCall EXCEPT !.at = "recovering", !.of = d,
                                                  !.receipt = m]]
    /\ UNCHANGED <<row, lock, message>>

\* That message is in the Chat, word for word.
Found(p) == InChat(proc[p].receipt)

Recovered(p) ==
    LET d == proc[p].of
        t == ThreadOf(p)
    IN
    /\ proc[p].at = "recovering"
    /\ Found(p)
    /\ IF Unsettled(d)
       THEN /\ row' = [row EXCEPT ![d].state = "submitted", ![d].receipt = proc[p].receipt]
            /\ lock' = IF LockedBy(t) = d THEN [lock EXCEPT ![t].phase = "submitted"]
                       ELSE lock
       ELSE UNCHANGED <<row, lock>>
    /\ proc' = [proc EXCEPT ![p] = NoCall]
    /\ UNCHANGED message

Cancellable(d) == row[d].state = "pending" /\ LockedBy(TargetOf[d]) # d

CancelPending(d) ==
    /\ Cancellable(d)
    /\ row' = [row EXCEPT ![d].state = "cancelled"]
    /\ UNCHANGED <<lock, proc, message>>

-----------------------------------------------------------------------------
(* Time, the bridge and the Chats                                            *)

ExpireLock(t) ==
    /\ lock[t].phase = "checking" /\ ~lock[t].expired
    /\ lock' = [lock EXCEPT ![t].expired = TRUE]
    /\ UNCHANGED <<row, proc, message>>

RetryDue(d) ==
    /\ ~row[d].due
    /\ row' = [row EXCEPT ![d].due = TRUE]
    /\ UNCHANGED <<lock, proc, message>>

\* The message appears in its Chat, whether or not anybody still waits for it.
Appear(m) ==
    /\ message[m].state = "out"
    /\ message' = [message EXCEPT ![m].state = "running"]
    /\ UNCHANGED <<row, lock, proc>>

Answer(m) ==
    /\ message[m].state = "running"
    /\ message' = [message EXCEPT ![m].state = "answered"]
    /\ UNCHANGED <<row, lock, proc>>

-----------------------------------------------------------------------------
CallStep(p) ==
    \/ Leave(p) \/ ReleaseCompletedTarget(p) \/ Send(p) \/ Committed(p)
    \/ NotStarted(p) \/ Unknown(p) \/ Recovered(p)
    \/ \E due \in BOOLEAN : PutBack(p, due)
    \/ \E m \in Token : Acquire(p, m)
    \/ \E d \in Delivery :
          \/ Dispatch(p, d)
          \/ Settle(p, d)
          \/ \E m \in Token : Recover(p, d, m)

Next ==
    \/ \E p \in Process : CallStep(p)
    \/ \E d \in Delivery : Enqueue(d) \/ CancelPending(d) \/ RetryDue(d)
    \/ \E t \in Thread : ExpireLock(t)
    \/ \E m \in Token : Appear(m) \/ Answer(m)

Spec == Init /\ [][Next]_vars

-----------------------------------------------------------------------------
(* A delivery that may still be sent, or was cancelled, has no message in    *)
(* its Chat or on the way there: no retry, reclaimed lock, late process or   *)
(* cancellation hides a submission (dispatch, finishLocked, cancelPending).  *)
ResendableUnsent ==
    \A d \in Delivery :
        row[d].state \in {"none", "pending", "checking", "cancelled"} =>
            \A m \in Token : message[m].of = d => message[m].state \in {"unsent", "refused"}

(* What is reported as submitted is in the Chat, under the stored receipt,   *)
(* also when it was recovered from the journal of an earlier attempt.        *)
SubmittedIsReal ==
    \A d \in Delivery :
        row[d].state = "submitted" =>
            InChat(row[d].receipt) /\ message[row[d].receipt].of = d

(* Every lock has a row in a state from which an operation of the inbox goes *)
(* on to release it: no crash or race leaves a Chat locked for ever behind a *)
(* row that nobody may touch (cancelPending against delivery_key included).  *)
LocksMatchRows ==
    \A t \in Thread : lock[t] # NoLock =>
        LET d == LockedBy(t) IN
        /\ d # NoDelivery /\ TargetOf[d] = t
        /\ \/ lock[t].phase = "checking" /\ row[d].state = "checking"
           \/ lock[t].phase = "sending" /\ row[d].state \in {"sending", "held"}
           \/ lock[t].phase = "submitted" /\ row[d].state \in {"submitted", "held"}

(* Each event starts one turn at most, and none starts while another event's *)
(* turn is under way in the Chat: the abstract specification, implemented    *)
(* through crashes, expired locks, retries and recoveries.                   *)
Submitted(d) == {m \in Token : message[m].of = d /\ InChat(m)}
Answered == {m \in Token : message[m].state = "answered"}
Turns == INSTANCE ChatTurns WITH Message <- Token, over <- Answered,
                                 turns <- [d \in Delivery |-> Submitted(d)]
KeepsTurns == Turns!TurnsSpec
=============================================================================
