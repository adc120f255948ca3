-------------------------- MODULE LocalChat_proofs --------------------------
(* Proofs about the local inbox, for any deliveries, Chats, processes, locks *)
(* and any attempt limit.                                                    *)
EXTENDS LocalChatContinuation, TLAPS

\* The message may be in the Chat or appear there; it has no answer yet.
Sent(m) == message[m].state \in {"out", "running", "answered"}
Open(m) == message[m].state \in {"out", "running"}

MessagesOwned ==
    \A m \in Token : message[m].state # "unsent" => message[m].of \in Delivery

\* The three uses of a lock, by phase.
LockFits(t) ==
    LET m == lock[t].token
        d == message[m].of
    IN
    /\ m \in Token /\ d \in Delivery /\ TargetOf[d] = t
    /\ \/ /\ lock[t].phase = "checking" /\ message[m].state = "unsent"
          /\ row[d].state = "checking"
       \/ /\ lock[t].phase = "sending" /\ Sent(m)
          /\ row[d].state \in {"sending", "held"}
       \/ /\ lock[t].phase = "submitted" /\ InChat(m)
          /\ row[d].state \in {"submitted", "held"}

LocksFit == \A t \in Thread : lock[t] = NoLock \/ LockFits(t)

\* Nothing is under way in a Chat without its lock.
OpenLocked ==
    \A m \in Token : Open(m) => lock[TargetOf[message[m].of]].token = m

SentOnce ==
    \A m, n \in Token : Sent(m) /\ Sent(n) /\ message[m].of = message[n].of => m = n

ReceiptsOwned ==
    \A d \in Delivery : row[d].receipt # NoToken =>
        message[row[d].receipt].of = d /\ message[row[d].receipt].state # "unsent"

\* What a call knows after an await.
CallFits(c) ==
    /\ c.at # "idle" => c.of \in Delivery
    /\ c.at \in {"checking", "sending"} =>
          c.token \in Token /\ message[c.token].of = c.of
    /\ c.at = "checking" => message[c.token].state = "unsent"
    /\ c.at = "sending" => message[c.token].state # "unsent"
    /\ c.at \in {"releasing", "settling"} =>
          /\ c.token \in Token /\ InChat(c.token)
          /\ message[c.token].of \in Delivery
          /\ c.receipt # NoToken => message[c.receipt].of = message[c.token].of
    /\ c.at = "recovering" =>
          c.receipt \in Token /\ message[c.receipt].of = c.of

CallsFit == \A p \in Process : CallFits(proc[p])

CallsApart ==
    \A p, q \in Process :
        /\ p # q
        /\ proc[p].at \in {"checking", "sending"} /\ proc[q].at \in {"checking", "sending"}
        => proc[p].token # proc[q].token

\* Every attempt that is counted was one of those allowed.
AttemptsLeft ==
    \A d \in Delivery : row[d].state \in {"none", "pending", "checking"} =>
        row[d].attempts < MaxAttempts

Chats == LocksFit /\ OpenLocked /\ SentOnce /\ MessagesOwned
Rows == ResendableUnsent /\ SubmittedIsReal /\ ReceiptsOwned /\ AttemptsLeft
Calls == CallsFit /\ CallsApart

LInv == LocalTypeOK /\ Chats /\ Rows /\ Calls

-----------------------------------------------------------------------------
(* Consequences                                                              *)

LEMMA NoCallFits == NoCall \in Call /\ NoCall.at = "idle" /\ CallFits(NoCall)
BY DEF NoCall, Call, CallFits

\* A call that still holds its lock.
LEMMA HolderFacts ==
    ASSUME LInv, NEW p \in Process, proc[p].at \in {"checking", "sending"}, HoldsLock(p)
    PROVE  /\ proc[p].of \in Delivery /\ proc[p].token \in Token
           /\ ThreadOf(p) \in Thread
           /\ message[proc[p].token].of = proc[p].of
           /\ lock[ThreadOf(p)].token = proc[p].token
           /\ LockFits(ThreadOf(p))
           /\ proc[p].at = "checking" => lock[ThreadOf(p)].phase = "checking"
           /\ proc[p].at = "sending" => lock[ThreadOf(p)].phase \in {"sending", "submitted"}
<1>1. CallFits(proc[p]) /\ proc[p] \in Call
      BY DEF LInv, Calls, CallsFit, LocalTypeOK
<1>2. proc[p].of \in Delivery /\ proc[p].token \in Token
      /\ message[proc[p].token].of = proc[p].of
      BY <1>1 DEF CallFits
<1>3. ThreadOf(p) \in Thread
      BY <1>2, LocalAssumption DEF ThreadOf
<1>4. lock[ThreadOf(p)].token = proc[p].token
      BY DEF HoldsLock
<1>5. lock[ThreadOf(p)] # NoLock
      BY <1>2, <1>4, LocalAssumption DEF NoLock
<1>6. LockFits(ThreadOf(p))
      BY <1>3, <1>5 DEF LInv, Chats, LocksFit
<1>7. /\ proc[p].at = "checking" => message[proc[p].token].state = "unsent"
      /\ proc[p].at = "sending" => message[proc[p].token].state # "unsent"
      BY <1>1 DEF CallFits
<1> QED
    BY <1>2, <1>3, <1>4, <1>6, <1>7 DEF LockFits, Sent, InChat

\* Locks of one delivery are on its Chat.
LEMMA LockedByFacts ==
    ASSUME LInv, NEW t \in Thread, lock[t] # NoLock
    PROVE  /\ LockFits(t)
           /\ lock[t].token # NoToken
           /\ LockedBy(t) = message[lock[t].token].of
           /\ LockedBy(t) \in Delivery
<1>1. LockFits(t)
      BY DEF LInv, Chats, LocksFit
<1>2. lock[t].token # NoToken
      BY <1>1, LocalAssumption DEF LockFits
<1> QED
    BY <1>1, <1>2 DEF LockFits, LockedBy

-----------------------------------------------------------------------------
(* Steps of one call                                                         *)

\* A call that moves on, without touching what others see.
LEMMA CallMoves ==
    ASSUME LInv, NEW p \in Process, NEW r \in Call, proc' = [proc EXCEPT ![p] = r],
           CallFits(r), r.at \notin {"checking", "sending"},
           UNCHANGED <<row, lock, message>>
    PROVE  LInv'
<1>1. LocalTypeOK'
      BY DEF LInv, LocalTypeOK
<1>2. Chats' /\ Rows'
      BY SMTT(30) DEF LInv, Chats, LocksFit, LockFits, OpenLocked, Open, SentOnce, Sent,
             MessagesOwned, InChat, Rows, ResendableUnsent, SubmittedIsReal, ReceiptsOwned, AttemptsLeft
<1>3. CallsFit'
  <2>1. ASSUME NEW q \in Process PROVE CallFits(proc[q])'
    <3>1. CallFits(proc'[q])
          BY DEF LInv, LocalTypeOK, Calls, CallsFit
    <3> QED
        BY <3>1 DEF CallFits, InChat
  <2> QED
      BY <2>1 DEF CallsFit
<1>4. CallsApart'
      BY DEF LInv, LocalTypeOK, Calls, CallsApart
<1> QED
    BY <1>1, <1>2, <1>3, <1>4 DEF LInv, Calls

\* What others' calls rely on survives a step that only moves messages on.
LEMMA OthersFit ==
    ASSUME LInv, NEW p \in Process, NEW r \in Call, proc' = [proc EXCEPT ![p] = r],
           CallFits(r)',
           \A m \in Token :
              /\ message[m].of = NoDelivery \/ message'[m].of = message[m].of
              /\ InChat(m) => InChat(m)'
              /\ message[m].state # "unsent" => message'[m].state # "unsent"
              /\ message'[m].state = message[m].state
                 \/ message[m].state # "unsent" \/ m = proc[p].token,
           proc[p].at \in {"checking", "sending"} \/ UNCHANGED message,
           r.at \in {"checking", "sending"} => r.token = proc[p].token
              /\ proc[p].at \in {"checking", "sending"}
    PROVE  Calls'
<1>1. proc \in [Process -> Call] /\ CallsFit /\ CallsApart
      BY DEF LInv, LocalTypeOK, Calls
<1>2. ASSUME NEW q \in Process PROVE CallFits(proc[q])'
  <2>1. CASE q = p
        BY <1>1, <2>1 DEF CallFits, InChat
  <2>2. CASE q # p
    <3>1. proc'[q] = proc[q] /\ CallFits(proc[q]) /\ proc[q] \in Call
          BY <1>1, <2>2 DEF CallsFit
    <3>2. proc[q].at \in {"checking", "sending"} /\ proc[p].at \in {"checking", "sending"}
          => proc[q].token # proc[p].token
          BY <1>1, <2>2 DEF CallsApart
    <3>3. CASE UNCHANGED message
          BY <3>1, <3>3 DEF CallFits, InChat
    <3>4. CASE proc[p].at \in {"checking", "sending"}
      <4>1. proc[q].receipt \in Token \cup {NoToken}
            BY <3>1 DEF Call
      <4> QED
          BY <3>1, <3>2, <3>4, <4>1, LocalAssumption DEF CallFits, InChat
    <3> QED
        BY <3>3, <3>4
  <2> QED
      BY <2>1, <2>2
<1>3. CallsApart'
      BY <1>1 DEF CallsApart
<1> QED
    BY <1>2, <1>3 DEF Calls, CallsFit

LEMMA LeaveStep ==
    ASSUME LInv, NEW p \in Process, Leave(p)
    PROVE  LInv'
BY NoCallFits, CallMoves DEF Leave

\* A call that has read a lock in phase "submitted".
LEMMA ReleasingFits ==
    ASSUME LInv, NEW d \in Delivery, lock[TargetOf[d]].phase = "submitted",
           NEW at \in {"releasing", "settling"}
    PROVE  Releasing(at, d) \in Call /\ Releasing(at, d).at = at /\ CallFits(Releasing(at, d))
<1> DEFINE t == TargetOf[d]
           e == LockedBy(t)
<1>1. t \in Thread /\ lock[t] # NoLock
      BY LocalAssumption DEF NoLock
<1>2. LockFits(t) /\ e = message[lock[t].token].of /\ e \in Delivery
      BY <1>1, LockedByFacts
<1>3. lock[t].token \in Token /\ InChat(lock[t].token)
      BY <1>2 DEF LockFits
<1>4. row[e] \in Row /\ (row[e].receipt # NoToken => message[row[e].receipt].of = e)
      BY <1>2 DEF LInv, LocalTypeOK, Rows, ReceiptsOwned
<1>5. row[e].receipt \in Token \cup {NoToken}
      BY <1>4 DEF Row
<1> QED
    BY <1>2, <1>3, <1>4, <1>5 DEF Releasing, Call, CallFits

LEMMA AcquiringFits ==
    ASSUME NEW d \in Delivery
    PROVE  /\ Acquiring(d) \in Call /\ CallFits(Acquiring(d))
           /\ Acquiring(d).at = "acquiring" /\ Acquiring(d).token = NoToken
BY DEF Acquiring, NoCall, Call, CallFits

LEMMA DispatchStep ==
    ASSUME LInv, NEW p \in Process, NEW d \in Delivery, Dispatch(p, d)
    PROVE  LInv'
<1>1. CASE lock[TargetOf[d]].phase = "submitted"
      BY <1>1, ReleasingFits, CallMoves DEF Dispatch
<1>2. CASE lock[TargetOf[d]].phase # "submitted"
      BY <1>2, AcquiringFits, CallMoves DEF Dispatch
<1> QED
    BY <1>1, <1>2

LEMMA SettleStep ==
    ASSUME LInv, NEW p \in Process, NEW d \in Delivery, Settle(p, d)
    PROVE  LInv'
BY ReleasingFits, CallMoves DEF Settle

LEMMA RecoverStep ==
    ASSUME LInv, NEW p \in Process, NEW d \in Delivery, NEW m \in Token, Recover(p, d, m)
    PROVE  LInv'
<1> DEFINE c == [NoCall EXCEPT !.at = "recovering", !.of = d, !.receipt = m]
<1>1. message[m].of = d
      BY DEF Recover, LInv, Rows, ReceiptsOwned
<1>2. c \in Call /\ c.at = "recovering" /\ CallFits(c)
      BY <1>1 DEF NoCall, Call, CallFits
<1> QED
    BY <1>2, CallMoves DEF Recover

-----------------------------------------------------------------------------
(* Steps without a call                                                      *)

LEMMA CallsStay ==
    ASSUME LInv, UNCHANGED proc,
           \A m \in Token :
              /\ message'[m].of = message[m].of
              /\ InChat(m) => InChat(m)'
              /\ message[m].state # "unsent" => message'[m].state # "unsent"
              /\ message[m].state = "unsent" => message'[m].state = "unsent"
    PROVE  Calls'
<1>1. ASSUME NEW p \in Process PROVE CallFits(proc[p])'
  <2>1. CallFits(proc[p]) /\ proc[p] \in Call /\ proc'[p] = proc[p]
        BY DEF LInv, LocalTypeOK, Calls, CallsFit
  <2>2. proc[p].receipt \in Token \cup {NoToken}
        BY <2>1 DEF Call
  <2> QED
      BY <2>1, <2>2 DEF CallFits, InChat
<1> QED
    BY <1>1 DEF LInv, Calls, CallsFit, CallsApart

LEMMA EnqueueStep ==
    ASSUME LInv, NEW d \in Delivery, Enqueue(d)
    PROVE  LInv'
<1>1. LocalTypeOK'
      BY DEF LInv, LocalTypeOK, Enqueue, Row, RowState
<1>2. Chats'
  <2>1. ASSUME NEW t \in Thread PROVE (lock[t] = NoLock \/ LockFits(t))'
        BY DEF LInv, LocalTypeOK, Chats, LocksFit, LockFits, Sent, InChat, Enqueue
  <2> QED
      BY <2>1 DEF LInv, Chats, LocksFit, OpenLocked, Open, SentOnce, Sent, MessagesOwned, Enqueue
<1>3. Rows'
      BY DEF LInv, LocalTypeOK, Rows, ResendableUnsent, SubmittedIsReal, ReceiptsOwned,
             AttemptsLeft, InChat, Enqueue
<1>4. Calls'
      BY CallsStay DEF Enqueue, InChat
<1> QED
    BY <1>1, <1>2, <1>3, <1>4 DEF LInv

LEMMA CancelPendingStep ==
    ASSUME LInv, NEW d \in Delivery, CancelPending(d)
    PROVE  LInv'
<1>1. LocalTypeOK'
      BY DEF LInv, LocalTypeOK, CancelPending, Row, RowState
<1>2. Chats'
  <2>1. ASSUME NEW t \in Thread PROVE (lock[t] = NoLock \/ LockFits(t))'
        BY DEF LInv, LocalTypeOK, Chats, LocksFit, LockFits, Sent, InChat, CancelPending,
               Cancellable
  <2> QED
      BY <2>1 DEF LInv, Chats, LocksFit, OpenLocked, Open, SentOnce, Sent, MessagesOwned,
                  CancelPending
<1>3. Rows'
      BY DEF LInv, LocalTypeOK, Rows, ResendableUnsent, SubmittedIsReal, ReceiptsOwned,
             AttemptsLeft, InChat, CancelPending, Cancellable
<1>4. Calls'
      BY CallsStay DEF CancelPending, InChat
<1> QED
    BY <1>1, <1>2, <1>3, <1>4 DEF LInv

LEMMA RetryDueStep ==
    ASSUME LInv, NEW d \in Delivery, RetryDue(d)
    PROVE  LInv'
<1>1. LocalTypeOK'
      BY DEF LInv, LocalTypeOK, RetryDue, Row
<1>2. Chats'
  <2>1. ASSUME NEW t \in Thread PROVE (lock[t] = NoLock \/ LockFits(t))'
        BY DEF LInv, LocalTypeOK, Chats, LocksFit, LockFits, Sent, InChat, RetryDue
  <2> QED
      BY <2>1 DEF LInv, Chats, LocksFit, OpenLocked, Open, SentOnce, Sent, MessagesOwned,
                  RetryDue
<1>3. Rows'
      BY DEF LInv, LocalTypeOK, Rows, ResendableUnsent, SubmittedIsReal, ReceiptsOwned,
             AttemptsLeft, InChat, RetryDue
<1>4. Calls'
      BY CallsStay DEF RetryDue, InChat
<1> QED
    BY <1>1, <1>2, <1>3, <1>4 DEF LInv

LEMMA ExpireLockStep ==
    ASSUME LInv, NEW t \in Thread, ExpireLock(t)
    PROVE  LInv'
<1>1. LocalTypeOK'
      BY DEF LInv, LocalTypeOK, ExpireLock, Lock
<1>2. lock[t] # NoLock
      BY DEF ExpireLock, NoLock
<1>3. ASSUME NEW s \in Thread
      PROVE  lock'[s].token = lock[s].token /\ lock'[s].phase = lock[s].phase
      BY DEF LInv, LocalTypeOK, Lock, ExpireLock
<1>4. Chats'
  <2>1. ASSUME NEW s \in Thread PROVE (lock[s] = NoLock \/ LockFits(s))'
        BY <1>2, <1>3, SMTT(30) DEF LInv, LocalTypeOK, Chats, LocksFit, LockFits, Sent, InChat, ExpireLock
  <2>2. OpenLocked'
        BY <1>3, LocalAssumption
        DEF LInv, Chats, OpenLocked, Open, MessagesOwned, ExpireLock
  <2> QED
      BY <2>1, <2>2 DEF LInv, Chats, LocksFit, SentOnce, Sent, MessagesOwned, ExpireLock
<1>5. Rows'
      BY DEF LInv, Rows, ResendableUnsent, SubmittedIsReal, ReceiptsOwned, AttemptsLeft, InChat, ExpireLock
<1>6. Calls'
      BY CallsStay DEF ExpireLock, InChat
<1> QED
    BY <1>1, <1>4, <1>5, <1>6 DEF LInv

\* A message that was sent moves on in its Chat.
LEMMA MessageMoves ==
    ASSUME LInv, NEW m \in Token, NEW s \in {"running", "answered"},
           message[m].state \in {"out", "running"},
           message' = [message EXCEPT ![m].state = s], UNCHANGED <<row, lock, proc>>
    PROVE  LInv'
<1> USE DEF Sent, Open, InChat
<1>1. LocalTypeOK'
      BY DEF LInv, LocalTypeOK, Message
<1>2. \A n \in Token :
         /\ message'[n].of = message[n].of
         /\ n # m => message'[n].state = message[n].state
         /\ n = m => message'[n].state = s
      BY DEF LInv, LocalTypeOK, Message
<1>3. LocksFit'
  <2>1. ASSUME NEW t \in Thread PROVE (lock[t] = NoLock \/ LockFits(t))'
        BY <1>2 DEF LInv, Chats, LocksFit, LockFits
  <2> QED
      BY <2>1 DEF LocksFit
<1>4. OpenLocked' /\ SentOnce' /\ MessagesOwned'
      BY <1>2 DEF LInv, Chats, OpenLocked, SentOnce, MessagesOwned
<1>5. Rows'
  <2>1. ResendableUnsent'
        BY <1>2 DEF LInv, Rows, ResendableUnsent
  <2>2. ASSUME NEW d \in Delivery, row[d].receipt # NoToken PROVE row[d].receipt \in Token
        BY <2>2 DEF LInv, LocalTypeOK, Row
  <2> QED
      BY <1>2, <2>1, <2>2 DEF LInv, Rows, SubmittedIsReal, ReceiptsOwned, AttemptsLeft
<1>6. Calls'
      BY <1>2, CallsStay
<1> QED
    BY <1>1, <1>3, <1>4, <1>5, <1>6 DEF LInv, Chats

LEMMA AppearStep ==
    ASSUME LInv, NEW m \in Token, Appear(m)
    PROVE  LInv'
BY MessageMoves DEF Appear

LEMMA AnswerStep ==
    ASSUME LInv, NEW m \in Token, Answer(m)
    PROVE  LInv'
BY MessageMoves DEF Answer

-----------------------------------------------------------------------------
(* Steps of a call that touch the row of its delivery and its lock           *)

\* The locks of other Chats belong to other deliveries.
LEMMA OtherLocks ==
    ASSUME LInv, NEW t \in Thread, NEW d \in Delivery, TargetOf[d] = t,
           \A s \in Thread \ {t} : lock'[s] = lock[s],
           \A e \in Delivery \ {d} : row'[e] = row[e],
           \A m \in Token :
              message[m].of \in Delivery \ {d} => message'[m] = message[m]
    PROVE  \A s \in Thread \ {t} : (lock[s] = NoLock \/ LockFits(s))'
<1> SUFFICES ASSUME NEW s \in Thread \ {t}, lock[s] # NoLock
             PROVE  LockFits(s)'
    OBVIOUS
<1> DEFINE m == lock[s].token
           e == message[m].of
<1>1. LockFits(s)
      BY LockedByFacts
<1>2. m \in Token /\ e \in Delivery \ {d} /\ TargetOf[e] = s
      BY <1>1 DEF LockFits
<1>3. lock'[s] = lock[s] /\ row'[e] = row[e] /\ message'[m] = message[m]
      BY <1>2
<1> QED
    BY <1>1, <1>2, <1>3, LocalAssumption, SMTT(30) DEF LockFits, Sent, InChat

LEMMA AcquireStep ==
    ASSUME LInv, NEW p \in Process, NEW m \in Token, Acquire(p, m)
    PROVE  LInv'
<1> DEFINE d == proc[p].of
           t == ThreadOf(p)
<1>1. d \in Delivery /\ t \in Thread /\ t = TargetOf[d]
      BY LocalAssumption DEF LInv, Calls, CallsFit, CallFits, Acquire, ThreadOf
<1>2. /\ message[m].of = NoDelivery /\ message[m].state = "unsent"
      /\ message'[m].of = d /\ message'[m].state = "unsent"
      /\ \A n \in Token \ {m} : message'[n] = message[n]
      BY DEF LInv, LocalTypeOK, Message, Acquire, NoMessage
<1>3. /\ row'[d].state = "checking" /\ row'[d].receipt = row[d].receipt
      /\ row'[d].attempts = row[d].attempts
      /\ \A e \in Delivery \ {d} : row'[e] = row[e]
      BY <1>1 DEF LInv, LocalTypeOK, Row, Acquire
<1>4. /\ lock'[t].token = m /\ lock'[t].phase = "checking"
      /\ \A s \in Thread \ {t} : lock'[s] = lock[s]
      BY <1>1 DEF LInv, LocalTypeOK, Acquire
<1>5. /\ proc' = [proc EXCEPT ![p] = [proc[p] EXCEPT !.at = "checking", !.token = m]]
      /\ proc[p].at = "acquiring"
      BY DEF Acquire
<1>6. LocalTypeOK'
  <2>1. row' \in [Delivery -> Row]
    <3>1. [row[d] EXCEPT !.state = "checking"] \in Row
          BY <1>1 DEF LInv, LocalTypeOK, Row, RowState
    <3>2. row' = [row EXCEPT ![d] = [row[d] EXCEPT !.state = "checking"]]
          BY DEF Acquire
    <3> QED
        BY <3>1, <3>2 DEF LInv, LocalTypeOK
  <2>2. lock' \in [Thread -> Lock]
        BY DEF LInv, LocalTypeOK, Lock, Acquire
  <2>3. proc' \in [Process -> Call]
        BY <1>5 DEF LInv, LocalTypeOK, Call
  <2>4. message' \in [Token -> Message]
        BY <1>1 DEF LInv, LocalTypeOK, Message, Acquire
  <2> QED
      BY <2>1, <2>2, <2>3, <2>4 DEF LocalTypeOK
<1>7. LocksFit'
  <2>1. ASSUME NEW s \in Thread, s = t PROVE LockFits(s)'
        BY <1>1, <1>2, <1>3, <1>4, <2>1 DEF LockFits
  <2>2. \A s \in Thread \ {t} : (lock[s] = NoLock \/ LockFits(s))'
        BY <1>1, <1>2, <1>3, <1>4, OtherLocks, LocalAssumption
  <2> QED
      BY <2>1, <2>2 DEF LocksFit
<1>8. OpenLocked'
  <2> SUFFICES ASSUME NEW n \in Token, Open(n)'
               PROVE  lock'[TargetOf[message'[n].of]].token = n
      BY DEF OpenLocked
  <2>1. n # m /\ message'[n] = message[n] /\ Open(n)
        BY <1>2 DEF Open
  <2>2. message[n].of \in Delivery /\ TargetOf[message[n].of] \in Thread
        BY <2>1, LocalAssumption DEF LInv, Chats, MessagesOwned, Open
  <2>3. lock[TargetOf[message[n].of]].token = n
        BY <2>1 DEF LInv, Chats, OpenLocked
  <2>4. CASE TargetOf[message[n].of] = t
    <3>1. lock[t] # NoLock
          BY <2>3, <2>4, LocalAssumption DEF NoLock
    <3>2. LockFits(t) /\ lock[t].phase = "checking"
          BY <1>1, <3>1, LockedByFacts DEF Acquire, Reclaimable
    <3> QED
        BY <2>1, <2>3, <2>4, <3>2 DEF LockFits, Open
  <2> QED
      BY <1>4, <2>1, <2>2, <2>3, <2>4
<1>9. SentOnce' /\ MessagesOwned'
      BY <1>2 DEF LInv, Chats, SentOnce, Sent, MessagesOwned
<1>10. Rows'
  <2>1. ResendableUnsent'
        BY <1>1, <1>2, <1>3 DEF LInv, Rows, ResendableUnsent, Acquire, Dispatchable
  <2>2. ASSUME NEW e \in Delivery, row[e].receipt # NoToken
        PROVE  /\ row[e].receipt \in Token \ {m}
               /\ message'[row[e].receipt] = message[row[e].receipt]
        BY <1>2, <2>2 DEF LInv, LocalTypeOK, Row, Rows, ReceiptsOwned
  <2>3. SubmittedIsReal' /\ ReceiptsOwned'
        BY <1>1, <1>3, <2>2 DEF LInv, Rows, SubmittedIsReal, ReceiptsOwned, InChat
  <2>4. AttemptsLeft'
        BY <1>1, <1>3 DEF LInv, Rows, AttemptsLeft, Acquire, Dispatchable
  <2> QED
      BY <2>1, <2>3, <2>4 DEF Rows
<1>11. CallsFit'
  <2>1. CallFits(proc[p])'
        BY <1>1, <1>2, <1>5 DEF LInv, LocalTypeOK, Call, CallFits
  <2>2. ASSUME NEW q \in Process \ {p} PROVE CallFits(proc[q])'
    <3>1. CallFits(proc[q]) /\ proc[q] \in Call /\ proc'[q] = proc[q]
          BY <1>5 DEF LInv, LocalTypeOK, Calls, CallsFit
    <3>2. proc[q].receipt \in Token \cup {NoToken} /\ NoDelivery \notin Delivery
          BY <3>1, LocalAssumption DEF Call
    <3> QED
        BY <1>2, <3>1, <3>2 DEF CallFits, InChat
  <2> QED
      BY <2>1, <2>2 DEF CallsFit
<1>12. CallsApart'
  <2>1. ASSUME NEW q \in Process, proc[q].at \in {"checking", "sending"}
        PROVE  proc[q].token # m
        BY <1>2, <2>1, LocalAssumption DEF LInv, Calls, CallsFit, CallFits
  <2> QED
      BY <1>5, <2>1 DEF LInv, LocalTypeOK, Calls, CallsApart
<1> QED
    BY <1>6, <1>7, <1>8, <1>9, <1>10, <1>11, <1>12 DEF LInv, Chats, Calls

LEMMA PutBackStep ==
    ASSUME LInv, NEW p \in Process, NEW due \in BOOLEAN, PutBack(p, due)
    PROVE  LInv'
<1> DEFINE d == proc[p].of
           t == ThreadOf(p)
           m == proc[p].token
<1>1. /\ proc[p].at = "checking" /\ HoldsLock(p) /\ message' = message
      /\ proc' = [proc EXCEPT ![p] = NoCall]
      BY DEF PutBack, Finish
<1>2. /\ d \in Delivery /\ m \in Token /\ t \in Thread /\ t = TargetOf[d]
      /\ message[m].of = d /\ lock[t].token = m /\ LockFits(t)
      /\ lock[t].phase = "checking"
      BY <1>1, HolderFacts DEF ThreadOf
<1>3. message[m].state = "unsent" /\ row[d].state = "checking"
      BY <1>2 DEF LockFits
<1>4. /\ row'[d].state = "pending" /\ row'[d].receipt \in {row[d].receipt, NoToken}
      /\ row'[d].attempts = row[d].attempts
      /\ \A e \in Delivery \ {d} : row'[e] = row[e]
      BY <1>2 DEF LInv, LocalTypeOK, Row, PutBack, Finish
<1>5. lock'[t] = NoLock /\ \A s \in Thread \ {t} : lock'[s] = lock[s]
      BY <1>2 DEF LInv, LocalTypeOK, PutBack, Unlock
<1>6. LocalTypeOK'
  <2>1. row' \in [Delivery -> Row]
    <3>1. PICK receipt \in {row[d].receipt, NoToken} :
             row' = [row EXCEPT ![d] = [row[d] EXCEPT !.state = "pending", !.due = due,
                                                      !.receipt = receipt]]
          BY DEF PutBack, Finish
    <3>2. [row[d] EXCEPT !.state = "pending", !.due = due, !.receipt = receipt] \in Row
      <4>1. row[d] \in Row
            BY <1>2 DEF LInv, LocalTypeOK
      <4>2. {"pending"} \subseteq RowState /\ receipt \in Token \cup {NoToken}
            BY <3>1, <4>1 DEF Row, RowState
      <4> QED
          BY <1>2, <4>1, <4>2 DEF Row
    <3> QED
        BY <3>1, <3>2 DEF LInv, LocalTypeOK
  <2>2. lock' \in [Thread -> Lock]
        BY DEF LInv, LocalTypeOK, Lock, PutBack, Unlock, NoLock
  <2> QED
      BY <1>1, <2>1, <2>2, NoCallFits DEF LInv, LocalTypeOK
<1>7. LocksFit'
      BY <1>1, <1>2, <1>4, <1>5, OtherLocks DEF LocksFit
<1>8. OpenLocked'
      BY <1>1, <1>2, <1>3, <1>5, LocalAssumption
      DEF LInv, Chats, OpenLocked, Open, MessagesOwned
<1>9. SentOnce' /\ MessagesOwned'
      BY <1>1 DEF LInv, Chats, SentOnce, Sent, MessagesOwned
<1>10. Rows'
      BY <1>1, <1>2, <1>3, <1>4, SMTT(30)
      DEF LInv, Rows, ResendableUnsent, SubmittedIsReal, ReceiptsOwned, AttemptsLeft, InChat
<1>11. Calls'
      BY <1>1, NoCallFits, OthersFit DEF CallFits, InChat, NoCall
<1> QED
    BY <1>6, <1>7, <1>8, <1>9, <1>10, <1>11 DEF LInv, Chats

LEMMA SendStep ==
    ASSUME LInv, NEW p \in Process, Send(p)
    PROVE  LInv'
<1> DEFINE d == proc[p].of
           t == ThreadOf(p)
           m == proc[p].token
<1> PICK c \in Call : c = [proc[p] EXCEPT !.at = "sending"]
    BY DEF LInv, LocalTypeOK, Call
<1>1. proc[p].at = "checking" /\ HoldsLock(p) /\ proc' = [proc EXCEPT ![p] = c]
      BY DEF Send
<1>2. /\ d \in Delivery /\ m \in Token /\ t \in Thread /\ t = TargetOf[d]
      /\ message[m].of = d /\ lock[t].token = m /\ LockFits(t)
      /\ lock[t].phase = "checking"
      BY <1>1, HolderFacts DEF ThreadOf
<1>3. message[m].state = "unsent" /\ row[d].state = "checking"
      BY <1>2 DEF LockFits
<1>4. /\ row'[d].state = "sending" /\ row'[d].receipt = NoToken
      /\ \A e \in Delivery \ {d} : row'[e] = row[e]
      BY <1>2 DEF LInv, LocalTypeOK, Row, Send
<1>5. /\ lock'[t].token = m /\ lock'[t].phase = "sending"
      /\ \A s \in Thread \ {t} : lock'[s] = lock[s]
      BY <1>2 DEF LInv, LocalTypeOK, Lock, Send
<1>6. /\ message'[m].of = d /\ message'[m].state = "out"
      /\ \A n \in Token \ {m} : message'[n] = message[n]
      BY <1>2 DEF LInv, LocalTypeOK, Message, Send
<1>7. \A n \in Token : message[n].of = d => ~Sent(n)
      BY <1>2, <1>3 DEF LInv, Rows, ResendableUnsent, Sent
<1>8. LocalTypeOK'
  <2>1. row[d].attempts + 1 \in 0..MaxAttempts
        BY <1>2, <1>3, LocalAssumption DEF LInv, LocalTypeOK, Row, Rows, AttemptsLeft
  <2>2. row' \in [Delivery -> Row]
    <3> DEFINE r == [row[d] EXCEPT !.state = "sending", !.attempts = row[d].attempts + 1,
                                   !.receipt = NoToken]
    <3>1. r \in Row
          BY <1>2, <2>1, ZenonT(40) DEF LInv, LocalTypeOK, Row, RowState
    <3>2. row' = [row EXCEPT ![d] = r]
          BY DEF Send
    <3> HIDE DEF r
    <3> QED
        BY <3>1, <3>2 DEF LInv, LocalTypeOK
  <2>3. lock' \in [Thread -> Lock]
        BY DEF LInv, LocalTypeOK, Lock, Send
  <2>4. proc' \in [Process -> Call]
        BY <1>1 DEF LInv, LocalTypeOK, Call
  <2>5. message' \in [Token -> Message]
        BY DEF LInv, LocalTypeOK, Message, Send
  <2> QED
      BY <2>2, <2>3, <2>4, <2>5 DEF LocalTypeOK
<1>9. LocksFit'
  <2>1. ASSUME NEW s \in Thread, s = t PROVE LockFits(s)'
        BY <1>2, <1>4, <1>5, <1>6, <2>1 DEF LockFits, Sent
  <2>2. \A s \in Thread \ {t} : (lock[s] = NoLock \/ LockFits(s))'
        BY <1>2, <1>4, <1>5, <1>6, OtherLocks
  <2> QED
      BY <2>1, <2>2 DEF LocksFit
<1>10. OpenLocked'
  <2>1. \A s \in Thread : lock'[s].token = lock[s].token
        BY <1>2, <1>5
  <2> QED
      BY <1>2, <1>5, <1>6, <2>1, LocalAssumption
      DEF LInv, Chats, OpenLocked, Open, MessagesOwned
<1>11. SentOnce' /\ MessagesOwned'
      BY <1>2, <1>6, <1>7 DEF LInv, Chats, SentOnce, Sent, MessagesOwned
<1>12. Rows'
  <2>1. ResendableUnsent' /\ AttemptsLeft'
        BY <1>2, <1>4, <1>6 DEF LInv, Rows, ResendableUnsent, AttemptsLeft
  <2>2. ASSUME NEW e \in Delivery, row[e].receipt # NoToken
        PROVE  message'[row[e].receipt] = message[row[e].receipt]
        BY <1>3, <1>6, <2>2 DEF LInv, LocalTypeOK, Row, Rows, ReceiptsOwned
  <2> QED
      BY <1>2, <1>4, <2>1, <2>2 DEF LInv, Rows, SubmittedIsReal, ReceiptsOwned, InChat
<1>13. Calls'
  <2>1. CallFits(c)'
        BY <1>1, <1>2, <1>6 DEF LInv, LocalTypeOK, Call, CallFits
  <2>2. c.at = "sending" /\ c.token = m
        BY DEF LInv, LocalTypeOK, Call
  <2>3. \A n \in Token :
           /\ message'[n].of = message[n].of
           /\ InChat(n) => InChat(n)'
           /\ message[n].state # "unsent" => message'[n].state # "unsent"
           /\ message'[n].state = message[n].state \/ n = m
        BY <1>2, <1>3, <1>6 DEF InChat
  <2> QED
      BY <1>1, <2>1, <2>2, <2>3, OthersFit
<1> QED
    BY <1>8, <1>9, <1>10, <1>11, <1>12, <1>13 DEF LInv, Chats

LEMMA CommittedStep ==
    ASSUME LInv, NEW p \in Process, Committed(p)
    PROVE  LInv'
<1> DEFINE d == proc[p].of
           t == ThreadOf(p)
           m == proc[p].token
<1>1. /\ proc[p].at = "sending" /\ HoldsLock(p) /\ message' = message
      /\ proc' = [proc EXCEPT ![p] = NoCall] /\ InChat(m)
      BY DEF Committed, Finish
<1>2. /\ d \in Delivery /\ m \in Token /\ t \in Thread /\ t = TargetOf[d]
      /\ message[m].of = d /\ lock[t].token = m
      BY <1>1, HolderFacts DEF ThreadOf
<1>3. /\ row'[d].state = "submitted" /\ row'[d].receipt = m
      /\ \A e \in Delivery \ {d} : row'[e] = row[e]
      BY <1>2 DEF LInv, LocalTypeOK, Row, Committed, Finish
<1>4. /\ lock'[t].token = m /\ lock'[t].phase = "submitted"
      /\ \A s \in Thread \ {t} : lock'[s] = lock[s]
      BY <1>2 DEF LInv, LocalTypeOK, Lock, Committed
<1>5. LocalTypeOK'
  <2>1. row' \in [Delivery -> Row]
    <3>1. [row[d] EXCEPT !.state = "submitted", !.due = TRUE, !.receipt = m] \in Row
          BY <1>2, ZenonT(40) DEF LInv, LocalTypeOK, Row, RowState
    <3> QED
        BY <3>1 DEF LInv, LocalTypeOK, Committed, Finish
  <2>2. lock' \in [Thread -> Lock]
        BY DEF LInv, LocalTypeOK, Lock, Committed
  <2> QED
      BY <1>1, <2>1, <2>2, NoCallFits DEF LInv, LocalTypeOK
<1>6. LocksFit'
  <2>1. ASSUME NEW s \in Thread, s = t PROVE LockFits(s)'
        BY <1>1, <1>2, <1>3, <1>4, <2>1 DEF LockFits, InChat
  <2>2. \A s \in Thread \ {t} : (lock[s] = NoLock \/ LockFits(s))'
        BY <1>1, <1>2, <1>3, <1>4, OtherLocks
  <2> QED
      BY <2>1, <2>2 DEF LocksFit
<1>7. OpenLocked'
  <2>1. \A s \in Thread : lock'[s].token = lock[s].token
        BY <1>2, <1>4
  <2> QED
      BY <1>1, <2>1, LocalAssumption DEF LInv, Chats, OpenLocked, Open, MessagesOwned
<1>8. SentOnce' /\ MessagesOwned'
      BY <1>1 DEF LInv, Chats, SentOnce, Sent, MessagesOwned
<1>9. Rows'
      BY <1>1, <1>2, <1>3
      DEF LInv, Rows, ResendableUnsent, SubmittedIsReal, ReceiptsOwned, AttemptsLeft, InChat
<1>10. Calls'
      BY <1>1, NoCallFits, OthersFit DEF CallFits, InChat, NoCall
<1> QED
    BY <1>5, <1>6, <1>7, <1>8, <1>9, <1>10 DEF LInv, Chats

LEMMA NotStartedStep ==
    ASSUME LInv, NEW p \in Process, NotStarted(p)
    PROVE  LInv'
<1> DEFINE d == proc[p].of
           t == ThreadOf(p)
           m == proc[p].token
<1>1. /\ proc[p].at = "sending" /\ HoldsLock(p) /\ message[m].state = "out"
      /\ proc' = [proc EXCEPT ![p] = NoCall]
      BY DEF NotStarted, Finish
<1>2. /\ d \in Delivery /\ m \in Token /\ t \in Thread /\ t = TargetOf[d]
      /\ message[m].of = d /\ lock[t].token = m /\ LockFits(t)
      BY <1>1, HolderFacts DEF ThreadOf
<1>3. /\ row'[d].state \in {"held", "pending"}
      /\ row'[d].state = "pending" => row'[d].attempts < MaxAttempts
      /\ row'[d].receipt \in {m, NoToken}
      /\ \A e \in Delivery \ {d} : row'[e] = row[e]
  <2>1. row[d].attempts \in 0..MaxAttempts
        BY <1>2 DEF LInv, LocalTypeOK, Row
  <2> QED
      BY <1>2, <2>1, LocalAssumption
      DEF LInv, LocalTypeOK, Row, NotStarted, Finish, Exhausted
<1>4. lock'[t] = NoLock /\ \A s \in Thread \ {t} : lock'[s] = lock[s]
      BY <1>2 DEF LInv, LocalTypeOK, NotStarted, Unlock
<1>5. /\ message'[m].of = d /\ message'[m].state = "refused"
      /\ \A n \in Token \ {m} : message'[n] = message[n]
      BY <1>2 DEF LInv, LocalTypeOK, Message, NotStarted
<1>6. LocalTypeOK'
  <2>1. row' \in [Delivery -> Row]
    <3>1. PICK receipt \in {m, NoToken}, s \in {"held", "pending"} :
             row' = [row EXCEPT ![d] = [row[d] EXCEPT !.state = s, !.due = FALSE,
                                                      !.receipt = receipt]]
          BY DEF NotStarted, Finish
    <3>2. [row[d] EXCEPT !.state = s, !.due = FALSE, !.receipt = receipt] \in Row
      <4>1. row[d] \in Row
            BY <1>2 DEF LInv, LocalTypeOK
      <4>2. s \in RowState /\ receipt \in Token \cup {NoToken}
            BY <1>2, <3>1 DEF RowState
      <4> QED
          BY <4>1, <4>2 DEF Row
    <3> QED
        BY <3>1, <3>2 DEF LInv, LocalTypeOK
  <2>2. lock' \in [Thread -> Lock]
        BY DEF LInv, LocalTypeOK, Lock, NotStarted, Unlock, NoLock
  <2>3. message' \in [Token -> Message]
        BY DEF LInv, LocalTypeOK, Message, NotStarted
  <2> QED
      BY <1>1, <2>1, <2>2, <2>3, NoCallFits DEF LInv, LocalTypeOK
<1>7. LocksFit'
      BY <1>2, <1>3, <1>4, <1>5, OtherLocks DEF LocksFit
<1>8. OpenLocked'
  <2> SUFFICES ASSUME NEW n \in Token, Open(n)'
               PROVE  lock'[TargetOf[message'[n].of]].token = n
      BY DEF OpenLocked
  <2>1. n # m /\ message'[n] = message[n] /\ Open(n)
        BY <1>5 DEF Open
  <2>2. TargetOf[message[n].of] \in Thread /\ lock[TargetOf[message[n].of]].token = n
        BY <2>1, LocalAssumption DEF LInv, Chats, MessagesOwned, OpenLocked, Open
  <2> QED
      BY <1>2, <1>4, <2>1, <2>2
<1>9. SentOnce' /\ MessagesOwned'
      BY <1>2, <1>5 DEF LInv, Chats, SentOnce, Sent, MessagesOwned
<1>10. Rows'
  <2>1. ASSUME NEW n \in Token, message'[n].of = d
        PROVE  message'[n].state \in {"unsent", "refused"}
    <3>1. message[m].of = d /\ Sent(m)
          BY <1>1, <1>2 DEF Sent
    <3>2. n # m => ~Sent(n)
          BY <1>2, <1>5, <2>1, <3>1 DEF LInv, Chats, SentOnce
    <3>3. message[n].state \in {"unsent", "out", "refused", "running", "answered"}
          BY DEF LInv, LocalTypeOK, Message
    <3> QED
        BY <1>5, <3>2, <3>3 DEF Sent
  <2>2. ResendableUnsent'
        BY <1>2, <1>3, <1>5, <2>1 DEF LInv, Rows, ResendableUnsent
  <2>3. ASSUME NEW e \in Delivery, row[e].state = "submitted" PROVE row[e].receipt # m
        BY <1>1, <2>3 DEF LInv, Rows, SubmittedIsReal, InChat
  <2>4. SubmittedIsReal'
        BY <1>3, <1>5, <2>3 DEF LInv, LocalTypeOK, Row, Rows, SubmittedIsReal, InChat
  <2>5. ReceiptsOwned'
        BY <1>1, <1>2, <1>3, <1>5 DEF LInv, LocalTypeOK, Row, Rows, ReceiptsOwned
  <2>6. AttemptsLeft'
        BY <1>3 DEF LInv, Rows, AttemptsLeft
  <2> QED
      BY <2>2, <2>4, <2>5, <2>6 DEF Rows
<1>11. Calls'
  <2>1. CallFits(NoCall)' /\ NoCall.at = "idle"
        BY DEF CallFits, NoCall
  <2> QED
      BY <1>1, <1>2, <1>5, <2>1, NoCallFits, OthersFit, ZenonT(40) DEF InChat
<1> QED
    BY <1>6, <1>7, <1>8, <1>9, <1>10, <1>11 DEF LInv, Chats

LEMMA UnknownStep ==
    ASSUME LInv, NEW p \in Process, Unknown(p)
    PROVE  LInv'
<1> DEFINE d == proc[p].of
           t == ThreadOf(p)
           m == proc[p].token
<1>1. /\ proc[p].at = "sending" /\ HoldsLock(p) /\ message' = message /\ lock' = lock
      /\ proc' = [proc EXCEPT ![p] = NoCall]
      BY DEF Unknown, Finish
<1>2. /\ d \in Delivery /\ m \in Token /\ t \in Thread /\ t = TargetOf[d]
      /\ message[m].of = d /\ lock[t].token = m /\ LockFits(t)
      /\ lock[t].phase \in {"sending", "submitted"}
      BY <1>1, HolderFacts DEF ThreadOf
<1>3. message[m].state # "unsent"
      BY <1>1 DEF LInv, Calls, CallsFit, CallFits
<1>4. /\ row'[d].state = "held" /\ row'[d].receipt \in {m, NoToken}
      /\ \A e \in Delivery \ {d} : row'[e] = row[e]
      BY <1>2 DEF LInv, LocalTypeOK, Row, Unknown, Finish
<1>5. LocalTypeOK'
  <2>1. row' \in [Delivery -> Row]
    <3>1. PICK receipt \in {m, NoToken} :
             row' = [row EXCEPT ![d] = [row[d] EXCEPT !.state = "held", !.due = TRUE,
                                                      !.receipt = receipt]]
          BY DEF Unknown, Finish
    <3>2. [row[d] EXCEPT !.state = "held", !.due = TRUE, !.receipt = receipt] \in Row
      <4>1. row[d] \in Row
            BY <1>2 DEF LInv, LocalTypeOK
      <4>2. {"held"} \subseteq RowState /\ receipt \in Token \cup {NoToken}
            BY <1>2, <3>1 DEF RowState
      <4> QED
          BY <4>1, <4>2 DEF Row
    <3> QED
        BY <3>1, <3>2 DEF LInv, LocalTypeOK
  <2> QED
      BY <1>1, <2>1, NoCallFits DEF LInv, LocalTypeOK
<1>6. LocksFit'
  <2>1. ASSUME NEW s \in Thread, s = t PROVE LockFits(s)'
        BY <1>1, <1>2, <1>4, <2>1 DEF LockFits, InChat, Sent
  <2>2. \A s \in Thread \ {t} : (lock[s] = NoLock \/ LockFits(s))'
        BY <1>1, <1>2, <1>4, OtherLocks
  <2> QED
      BY <2>1, <2>2 DEF LocksFit
<1>7. OpenLocked' /\ SentOnce' /\ MessagesOwned'
      BY <1>1 DEF LInv, Chats, OpenLocked, Open, SentOnce, Sent, MessagesOwned
<1>8. Rows'
      BY <1>1, <1>2, <1>3, <1>4
      DEF LInv, Rows, ResendableUnsent, SubmittedIsReal, ReceiptsOwned, AttemptsLeft, InChat
<1>9. Calls'
      BY <1>1, NoCallFits, OthersFit DEF CallFits, InChat, NoCall
<1> QED
    BY <1>5, <1>6, <1>7, <1>8, <1>9 DEF LInv, Chats

LEMMA RecoveredStep ==
    ASSUME LInv, NEW p \in Process, Recovered(p)
    PROVE  LInv'
<1> DEFINE d == proc[p].of
           t == ThreadOf(p)
           m == proc[p].receipt
<1>1. /\ proc[p].at = "recovering" /\ InChat(m) /\ message' = message
      /\ proc' = [proc EXCEPT ![p] = NoCall]
      BY DEF Recovered, Found
<1>2. /\ d \in Delivery /\ m \in Token /\ t \in Thread /\ t = TargetOf[d]
      /\ message[m].of = d
      BY <1>1, LocalAssumption DEF LInv, Calls, CallsFit, CallFits, ThreadOf
<1>3. CASE ~Unsettled(d)
      BY <1>1, <1>3, NoCallFits, CallMoves DEF Recovered
<1>4. CASE Unsettled(d)
  <2>1. /\ row'[d].state = "submitted" /\ row'[d].receipt = m
        /\ \A e \in Delivery \ {d} : row'[e] = row[e]
        BY <1>2, <1>4 DEF LInv, LocalTypeOK, Row, Recovered
  <2>2. /\ \A s \in Thread : lock'[s].token = lock[s].token
        /\ \A s \in Thread \ {t} : lock'[s] = lock[s]
        /\ LockedBy(t) = d => lock'[t].phase = "submitted"
        /\ LockedBy(t) # d => lock' = lock
        BY <1>2, <1>4 DEF LInv, LocalTypeOK, Lock, Recovered
  <2>3. LocalTypeOK'
    <3>1. row' \in [Delivery -> Row]
      <4>1. [row[d] EXCEPT !.state = "submitted", !.receipt = m] \in Row
            BY <1>2 DEF LInv, LocalTypeOK, Row, RowState
      <4>2. row' = [row EXCEPT ![d] = [row[d] EXCEPT !.state = "submitted", !.receipt = m]]
            BY <1>4 DEF LInv, LocalTypeOK, Recovered
      <4> QED
          BY <4>1, <4>2 DEF LInv, LocalTypeOK
    <3>2. lock' \in [Thread -> Lock]
          BY <1>4 DEF LInv, LocalTypeOK, Lock, Recovered
    <3> QED
        BY <1>1, <3>1, <3>2, NoCallFits DEF LInv, LocalTypeOK
  <2>4. LocksFit'
    <3>1. ASSUME NEW s \in Thread, s = t PROVE (lock[s] = NoLock \/ LockFits(s))'
      <4>1. CASE lock[t] = NoLock
        <5>1. LockedBy(t) # d
              BY <1>2, <4>1, LocalAssumption DEF LockedBy, NoLock
        <5> QED
            BY <2>2, <3>1, <4>1, <5>1
      <4>2. CASE lock[t] # NoLock
        <5>1. LockFits(t) /\ LockedBy(t) = message[lock[t].token].of /\ LockedBy(t) \in Delivery
              BY <1>2, <4>2, LockedByFacts
        <5>2. CASE LockedBy(t) = d
          <6>1. lock[t].token \in Token /\ Sent(lock[t].token)
                BY <1>2, <1>4, <5>1, <5>2 DEF LockFits, Unsettled, Sent, InChat
          <6>2. lock[t].token = m
                BY <1>1, <1>2, <5>1, <5>2, <6>1 DEF LInv, Chats, SentOnce, Sent, InChat
          <6> QED
              BY <1>1, <1>2, <2>1, <2>2, <3>1, <5>2, <6>2, ZenonT(40) DEF LockFits, InChat
        <5>3. CASE LockedBy(t) # d
              BY <1>1, <2>1, <2>2, <3>1, <5>1, <5>3, SMTT(30) DEF LockFits, Sent, InChat
        <5> QED
            BY <5>2, <5>3
      <4> QED
          BY <4>1, <4>2
    <3>2. \A s \in Thread \ {t} : (lock[s] = NoLock \/ LockFits(s))'
          BY <1>1, <1>2, <2>1, <2>2, OtherLocks
    <3> QED
        BY <3>1, <3>2 DEF LocksFit
  <2>5. OpenLocked'
        BY <1>1, <2>2, LocalAssumption DEF LInv, Chats, OpenLocked, Open, MessagesOwned
  <2>6. SentOnce' /\ MessagesOwned'
        BY <1>1 DEF LInv, Chats, SentOnce, Sent, MessagesOwned
  <2>7. Rows'
        BY <1>1, <1>2, <2>1
        DEF LInv, Rows, ResendableUnsent, SubmittedIsReal, ReceiptsOwned, AttemptsLeft, InChat
  <2>8. Calls'
        BY <1>1, NoCallFits, OthersFit DEF CallFits, InChat, NoCall
  <2> QED
      BY <2>3, <2>4, <2>5, <2>6, <2>7, <2>8 DEF LInv, Chats
<1> QED
    BY <1>3, <1>4

LEMMA ReleaseCompletedTargetStep ==
    ASSUME LInv, NEW p \in Process, ReleaseCompletedTarget(p)
    PROVE  LInv'
<1> DEFINE d == proc[p].of
           t == ThreadOf(p)
           m == proc[p].token
<1> PICK c \in Call : c = IF proc[p].at = "releasing" THEN Acquiring(d) ELSE NoCall
  <2>1. d \in Delivery
        BY DEF LInv, Calls, CallsFit, CallFits, ReleaseCompletedTarget
  <2> QED
      BY <2>1, AcquiringFits, NoCallFits
<1>1. /\ proc[p].at \in {"releasing", "settling"} /\ message' = message /\ row' = row
      /\ proc' = [proc EXCEPT ![p] = c]
      /\ lock' = IF HoldsLock(p) /\ lock[t].phase = "submitted"
                 THEN [lock EXCEPT ![t] = NoLock] ELSE lock
      BY DEF ReleaseCompletedTarget
<1>2. /\ d \in Delivery /\ m \in Token /\ t \in Thread /\ InChat(m)
      /\ proc[p].receipt \in Token /\ message[proc[p].receipt].of = message[m].of
      /\ message[proc[p].receipt].state = "answered"
  <2>1. CallFits(proc[p]) /\ proc[p] \in Call /\ proc[p].receipt # NoToken
        /\ message[proc[p].receipt].state = "answered"
        BY DEF LInv, LocalTypeOK, Calls, CallsFit, ReleaseCompletedTarget
  <2>2. proc[p].receipt \in Token
        BY <2>1 DEF Call
  <2>3. d \in Delivery /\ t \in Thread
        BY <1>1, <2>1, LocalAssumption DEF CallFits, ThreadOf
  <2> QED
      BY <1>1, <2>1, <2>2, <2>3 DEF CallFits
<1>3. proc[p].receipt = m
      BY <1>2 DEF LInv, Chats, SentOnce, Sent, InChat
<1>4. c.at \notin {"checking", "sending"} /\ CallFits(c)
      BY <1>2, AcquiringFits, NoCallFits
<1>5. CASE ~(HoldsLock(p) /\ lock[t].phase = "submitted")
      BY <1>1, <1>4, <1>5, CallMoves
<1>6. CASE HoldsLock(p) /\ lock[t].phase = "submitted"
  <2>1. /\ lock[t].token = m /\ lock'[t] = NoLock
        /\ \A s \in Thread \ {t} : lock'[s] = lock[s]
        BY <1>1, <1>2, <1>6 DEF LInv, LocalTypeOK, HoldsLock
  <2>2. LocalTypeOK'
    <3>1. lock' \in [Thread -> Lock]
          BY <1>1, <1>6 DEF LInv, LocalTypeOK, Lock, NoLock
    <3> QED
        BY <1>1, <3>1 DEF LInv, LocalTypeOK
  <2>3. LocksFit'
    <3>1. ASSUME NEW s \in Thread \ {t} PROVE lock[s] = NoLock \/ LockFits(s)
          BY DEF LInv, Chats, LocksFit
    <3>2. ASSUME NEW s \in Thread \ {t} PROVE LockFits(s)' <=> LockFits(s)
          BY <1>1, <2>1, <3>2 DEF LockFits, Sent, InChat
    <3>3. ASSUME NEW s \in Thread \ {t} PROVE lock'[s] = NoLock \/ LockFits(s)'
          BY <2>1, <3>1, <3>2, <3>3
    <3> QED
        BY <2>1, <3>3 DEF LocksFit
  <2>4. OpenLocked'
        BY <1>1, <1>2, <1>3, <2>1, LocalAssumption
        DEF LInv, Chats, OpenLocked, Open, MessagesOwned
  <2>5. SentOnce' /\ MessagesOwned'
        BY <1>1 DEF LInv, Chats, SentOnce, Sent, MessagesOwned
  <2>6. Rows'
        BY <1>1
        DEF LInv, Rows, ResendableUnsent, SubmittedIsReal, ReceiptsOwned, AttemptsLeft, InChat
  <2>7. CallFits(c)'
        BY <1>1, <1>4 DEF CallFits, InChat
  <2>8. Calls'
        BY <1>1, <1>4, <2>7, OthersFit DEF InChat
  <2> QED
      BY <2>2, <2>3, <2>4, <2>5, <2>6, <2>8 DEF LInv, Chats
<1> QED
    BY <1>5, <1>6

-----------------------------------------------------------------------------
(* The invariant                                                             *)

LEMMA LInvInit == Init => LInv
<1> SUFFICES ASSUME Init PROVE LInv
    OBVIOUS
<1>1. LocalTypeOK
      BY LocalAssumption
      DEF Init, LocalTypeOK, NoRow, Row, RowState, NoLock, Lock, NoCall, Call, NoMessage, Message
<1>2. Chats
      BY DEF Init, Chats, LocksFit, OpenLocked, Open, SentOnce, Sent, MessagesOwned, NoMessage
<1>3. Rows
      BY LocalAssumption
      DEF Init, Rows, ResendableUnsent, SubmittedIsReal, ReceiptsOwned, AttemptsLeft, NoRow,
          NoMessage
<1>4. Calls
      BY NoCallFits DEF Init, Calls, CallsFit, CallsApart
<1> QED
    BY <1>1, <1>2, <1>3, <1>4 DEF LInv

LEMMA LInvStep == LInv /\ [Next]_vars => LInv'
<1> SUFFICES ASSUME LInv, [Next]_vars PROVE LInv'
    OBVIOUS
<1>1. ASSUME NEW p \in Process, CallStep(p) PROVE LInv'
  <2>1. CASE Leave(p)
        BY <2>1, LeaveStep
  <2>2. CASE ReleaseCompletedTarget(p)
        BY <2>2, ReleaseCompletedTargetStep
  <2>3. CASE Send(p)
        BY <2>3, SendStep
  <2>4. CASE Committed(p)
        BY <2>4, CommittedStep
  <2>5. CASE NotStarted(p)
        BY <2>5, NotStartedStep
  <2>6. CASE Unknown(p)
        BY <2>6, UnknownStep
  <2>7. CASE Recovered(p)
        BY <2>7, RecoveredStep
  <2>8. ASSUME NEW due \in BOOLEAN, PutBack(p, due) PROVE LInv'
        BY <2>8, PutBackStep
  <2>9. ASSUME NEW m \in Token, Acquire(p, m) PROVE LInv'
        BY <2>9, AcquireStep
  <2>10. ASSUME NEW d \in Delivery, Dispatch(p, d) PROVE LInv'
        BY <2>10, DispatchStep
  <2>11. ASSUME NEW d \in Delivery, Settle(p, d) PROVE LInv'
        BY <2>11, SettleStep
  <2>12. ASSUME NEW d \in Delivery, NEW m \in Token, Recover(p, d, m) PROVE LInv'
        BY <2>12, RecoverStep
  <2> QED
      BY <1>1, <2>1, <2>2, <2>3, <2>4, <2>5, <2>6, <2>7, <2>8, <2>9, <2>10, <2>11, <2>12
      DEF CallStep
<1>2. ASSUME NEW d \in Delivery, Enqueue(d) PROVE LInv'
      BY <1>2, EnqueueStep
<1>3. ASSUME NEW d \in Delivery, CancelPending(d) PROVE LInv'
      BY <1>3, CancelPendingStep
<1>4. ASSUME NEW d \in Delivery, RetryDue(d) PROVE LInv'
      BY <1>4, RetryDueStep
<1>5. ASSUME NEW t \in Thread, ExpireLock(t) PROVE LInv'
      BY <1>5, ExpireLockStep
<1>6. ASSUME NEW m \in Token, Appear(m) PROVE LInv'
      BY <1>6, AppearStep
<1>7. ASSUME NEW m \in Token, Answer(m) PROVE LInv'
      BY <1>7, AnswerStep
<1>8. CASE UNCHANGED vars
  <2>1. LocalTypeOK'
        BY <1>8 DEF LInv, LocalTypeOK, vars
  <2>2. Chats'
        BY <1>8 DEF LInv, Chats, LocksFit, LockFits, OpenLocked, Open, SentOnce, Sent,
                    MessagesOwned, InChat, vars
  <2>3. Rows'
        BY <1>8 DEF LInv, Rows, ResendableUnsent, SubmittedIsReal, ReceiptsOwned, AttemptsLeft,
                    InChat, vars
  <2>4. Calls'
        BY <1>8, CallsStay DEF InChat, vars
  <2> QED
      BY <2>1, <2>2, <2>3, <2>4 DEF LInv
<1> QED
    BY <1>1, <1>2, <1>3, <1>4, <1>5, <1>6, <1>7, <1>8 DEF Next

(* The inductive invariant of the local inbox: locks, rows, messages and     *)
(* what calls remember over their awaits agree (dispatch, recover, settle).  *)
THEOREM LocalInvariance == Spec => []LInv
<1>1. Init => LInv
      BY LInvInit
<1>2. LInv /\ [Next]_vars => LInv'
      BY LInvStep
<1> QED
    BY <1>1, <1>2, PTL DEF Spec

(* Rows, locks, calls and messages have their types, the attempts of a row   *)
(* never exceed the retry budget of dispatch.                                *)
THEOREM LocalTypes == Spec => []LocalTypeOK
<1>1. LInv => LocalTypeOK
      BY DEF LInv
<1> QED
    BY <1>1, LocalInvariance, PTL

(* What may be sent again was never submitted (dispatch, finishLocked).      *)
THEOREM ResendsAreSafe == Spec => []ResendableUnsent
<1>1. LInv => ResendableUnsent
      BY DEF LInv, Rows
<1> QED
    BY <1>1, LocalInvariance, PTL

(* A delivery that is reported as submitted is in the Chat (dispatch and     *)
(* recover).                                                                 *)
THEOREM SubmissionsAreReal == Spec => []SubmittedIsReal
<1>1. LInv => SubmittedIsReal
      BY DEF LInv, Rows
<1> QED
    BY <1>1, LocalInvariance, PTL

(* Every lock has a row in a state that goes with its phase, after any       *)
(* crash and any race (local_targets and local_deliveries).                  *)
THEOREM LocksHaveRows == Spec => []LocksMatchRows
<1>1. ASSUME LInv PROVE LocksMatchRows
  <2> SUFFICES ASSUME NEW t \in Thread, lock[t] # NoLock
               PROVE  LET d == LockedBy(t) IN
                      /\ d # NoDelivery /\ TargetOf[d] = t
                      /\ \/ lock[t].phase = "checking" /\ row[d].state = "checking"
                         \/ lock[t].phase = "sending" /\ row[d].state \in {"sending", "held"}
                         \/ lock[t].phase = "submitted"
                            /\ row[d].state \in {"submitted", "held"}
      BY DEF LocksMatchRows
  <2>1. LockFits(t) /\ LockedBy(t) = message[lock[t].token].of
        BY <1>1, LockedByFacts
  <2> QED
      BY <2>1, LocalAssumption DEF LockFits
<1> QED
    BY <1>1, LocalInvariance, PTL

-----------------------------------------------------------------------------
(* Refinement                                                                *)

\* A step that only touches messages before they are in a Chat.
LEMMA QuietSteps ==
    ASSUME \A m \in Token :
              \/ message'[m] = message[m]
              \/ ~InChat(m) /\ message'[m].state \notin {"running", "answered"}
    PROVE  (\A d \in Delivery : Submitted(d)' = Submitted(d)) /\ Answered' = Answered
<1>1. ASSUME NEW m \in Token
      PROVE  /\ InChat(m)' <=> InChat(m)
             /\ InChat(m) => message'[m].of = message[m].of
             /\ message'[m].state = "answered" <=> message[m].state = "answered"
      BY LocalAssumption DEF InChat
<1>2. ASSUME NEW d \in Delivery PROVE Submitted(d)' = Submitted(d)
      BY <1>1 DEF Submitted
<1>3. Answered' = Answered
      BY <1>1 DEF Answered
<1> QED
    BY <1>2, <1>3

LEMMA CallsAreQuiet ==
    ASSUME LInv, NEW p \in Process, CallStep(p)
    PROVE  (\A d \in Delivery : Submitted(d)' = Submitted(d)) /\ Answered' = Answered
<1>1. ASSUME UNCHANGED message
      PROVE  (\A d \in Delivery : Submitted(d)' = Submitted(d)) /\ Answered' = Answered
      BY <1>1, QuietSteps
<1>2. ASSUME NEW m \in Token, message[m].state \in {"unsent", "out"},
             message'[m].state \in {"unsent", "out", "refused"},
             \A n \in Token \ {m} : message'[n] = message[n]
      PROVE  (\A d \in Delivery : Submitted(d)' = Submitted(d)) /\ Answered' = Answered
      BY <1>2, QuietSteps DEF InChat
<1>3. CASE Send(p) \/ NotStarted(p)
  <2>1. /\ proc[p].at \in {"checking", "sending"} /\ HoldsLock(p)
        /\ Send(p) => proc[p].at = "checking"
        /\ NotStarted(p) => message[proc[p].token].state = "out"
        BY <1>3 DEF Send, NotStarted, Finish
  <2>2. proc[p].token \in Token
        BY <2>1, HolderFacts
  <2>3. message[proc[p].token].state \in {"unsent", "out"}
        BY <1>3, <2>1 DEF LInv, Calls, CallsFit, CallFits
  <2>4. /\ message'[proc[p].token].state \in {"out", "refused"}
        /\ \A n \in Token \ {proc[p].token} : message'[n] = message[n]
        BY <1>3, <2>2 DEF LInv, LocalTypeOK, Message, Send, NotStarted
  <2> QED
      BY <1>2, <2>2, <2>3, <2>4
<1>4. ASSUME NEW m \in Token, Acquire(p, m)
      PROVE  (\A d \in Delivery : Submitted(d)' = Submitted(d)) /\ Answered' = Answered
      BY <1>2, <1>4 DEF LInv, LocalTypeOK, Message, Acquire, NoMessage
<1> QED
    BY <1>1, <1>3, <1>4
    DEF CallStep, Leave, ReleaseCompletedTarget, Committed, Unknown, Recovered, PutBack,
        Dispatch, Settle, Recover

LEMMA AppearStarts ==
    ASSUME LInv, NEW m \in Token, Appear(m)
    PROVE  Turns!Start(message[m].of, m)
<1> DEFINE d == message[m].of
           t == TargetOf[d]
<1>1. message[m].state = "out" /\ Open(m) /\ Sent(m) /\ d \in Delivery /\ m # NoToken
      BY LocalAssumption DEF Appear, Open, Sent, LInv, Chats, MessagesOwned
<1>2. Submitted(d) = {}
      BY <1>1 DEF Submitted, InChat, LInv, Chats, SentOnce, Sent
<1>3. ASSUME NEW e \in Delivery, TargetOf[e] = t, NEW n \in Submitted(e)
      PROVE  n \in Answered
  <2>1. n \in Token /\ message[n].of = e /\ message[n].state \in {"running", "answered"}
        BY <1>3 DEF Submitted, InChat
  <2>2. Open(n) => n = m
        BY <1>1, <1>3, <2>1 DEF LInv, Chats, OpenLocked
  <2> QED
      BY <1>1, <2>1, <2>2 DEF Answered, Open
<1>4. /\ message'[m].of = d /\ message'[m].state = "running"
      /\ \A n \in Token \ {m} : message'[n] = message[n]
      BY <1>1 DEF LInv, LocalTypeOK, Message, Appear
<1>5. ASSUME NEW e \in Delivery
      PROVE  Submitted(e)' = IF e = d THEN {m} ELSE Submitted(e)
  <2>1. CASE e = d
        BY <1>1, <1>2, <1>4, <2>1 DEF Submitted, InChat
  <2>2. CASE e # d
        BY <1>1, <1>4, <2>2 DEF Submitted, InChat
  <2> QED
      BY <2>1, <2>2
<1>6. Answered' = Answered
      BY <1>1, <1>4 DEF Answered
<1>7. [e \in Delivery |-> Submitted(e)']
      = [[e \in Delivery |-> Submitted(e)] EXCEPT ![d] = {m}]
      BY <1>1, <1>5
<1> QED
    BY <1>1, <1>2, <1>3, <1>6, <1>7 DEF Turns!Start

LEMMA AnswerEnds ==
    ASSUME LInv, NEW m \in Token, Answer(m)
    PROVE  Turns!End(m)
<1>1. /\ message[m].state = "running" /\ message'[m].state = "answered"
      /\ message'[m].of = message[m].of
      /\ \A n \in Token \ {m} : message'[n] = message[n]
      BY DEF LInv, LocalTypeOK, Message, Answer
<1>2. \A d \in Delivery : Submitted(d)' = Submitted(d)
      BY <1>1 DEF Submitted, InChat
<1>3. Answered' = Answered \cup {m}
      BY <1>1 DEF Answered
<1> QED
    BY <1>2, <1>3 DEF Turns!End

LEMMA TurnsStep == LInv /\ [Next]_vars => [Turns!TurnsNext]_(Turns!turnVars)
<1> SUFFICES ASSUME LInv, [Next]_vars PROVE [Turns!TurnsNext]_(Turns!turnVars)
    OBVIOUS
<1>1. ASSUME \A d \in Delivery : Submitted(d)' = Submitted(d), Answered' = Answered
      PROVE  UNCHANGED Turns!turnVars
      BY <1>1 DEF Turns!turnVars
<1>2. ASSUME UNCHANGED message PROVE UNCHANGED Turns!turnVars
      BY <1>1, <1>2, QuietSteps
<1>3. ASSUME NEW m \in Token, Appear(m) PROVE Turns!TurnsNext
  <2>1. message[m].of \in Delivery
        BY <1>3 DEF LInv, Chats, MessagesOwned, Appear
  <2> QED
      BY <1>3, <2>1, AppearStarts DEF Turns!TurnsNext
<1>4. ASSUME NEW m \in Token, Answer(m) PROVE Turns!TurnsNext
      BY <1>4, AnswerEnds DEF Turns!TurnsNext
<1>5. ASSUME NEW p \in Process, CallStep(p) PROVE UNCHANGED Turns!turnVars
      BY <1>1, <1>5, CallsAreQuiet
<1> QED
    BY <1>2, <1>3, <1>4, <1>5
    DEF Next, Enqueue, CancelPending, RetryDue, ExpireLock, vars

(* The inbox implements its abstract specification: an event starts at most  *)
(* one turn, and none while another event's turn is under way in the Chat    *)
(* (dispatch, releaseCompletedTarget, recover).                              *)
THEOREM InboxKeepsTurns == Spec => KeepsTurns
<1>1. Init => Turns!TurnsInit
  <2> SUFFICES ASSUME Init PROVE Turns!TurnsInit
      OBVIOUS
  <2>1. Answered = {} /\ \A d \in Delivery : Submitted(d) = {}
        BY DEF Init, NoMessage, Answered, Submitted, InChat
  <2> QED
      BY <2>1 DEF Turns!TurnsInit
<1>2. LInv /\ [Next]_vars => [Turns!TurnsNext]_(Turns!turnVars)
      BY TurnsStep
<1> QED
    BY <1>1, <1>2, LocalInvariance, PTL DEF Spec, KeepsTurns, Turns!TurnsSpec
=============================================================================
