---------------------------- MODULE EventOutbox ----------------------------
(***************************************************************************)
(* The event outbox (src/events.ts): several flushers, in the HTTP server  *)
(* and in CLI processes, share one table of rows.  Each reads a snapshot   *)
(* of the due rows, then for one row after the other claims it in a        *)
(* transaction, posts it without holding anything, and settles it in a     *)
(* second transaction.  Flushers die or hang between those steps, answers  *)
(* get lost, claims expire and are taken over, subscriptions come and go.  *)
(*                                                                         *)
(* Abstractions.  A row's key is the event it carries (the coordinator     *)
(* enqueues for one subscription).  attempts grows with every claim, so a  *)
(* claim id, which is random, is the attempt number it was issued with.    *)
(* Times are reduced to what is compared with now: nextAttemptAt to due,   *)
(* claimUntil to stale.  The snapshot is taken in any order and without    *)
(* its limit of 32 rows.  A subscription is "idle" when it is stored but   *)
(* disabled or expired.                                                    *)
(***************************************************************************)
EXTENDS Naturals, FiniteSets

CONSTANTS
    Dispatch, NoDispatch,
    Sub, NoSub,
    Flusher,        \* processes that call flush
    Server,         \* the one that does so every two seconds
    MaxAttempts,    \* 6 in the code
    MaxFaults       \* bound: crashes, and senders that outlive their claim

ASSUME OutboxAssumption ==
    /\ NoDispatch \notin Dispatch
    /\ NoSub \notin Sub
    /\ Server \in Flusher
    /\ MaxAttempts \in Nat \ {0}
    /\ MaxFaults \in Nat

VARIABLES
    outbox,     \* bucket "outbox"
    subs,       \* bucket "subscriptions"
    flusher,    \* what each flush call holds in its locals
    late,       \* events of a POST given up by its sender, still on the wire
    received,   \* events the platform has received
    faults,     \* crashes and hangs so far
    \* History: what the delivery contract remembers.
    posted, stray

vars == <<outbox, subs, flusher, late, received, faults, posted, stray>>

MaxClaims == MaxAttempts + MaxFaults
RowState == {"none", "pending", "sending", "accepted", "failed", "cancelled"}
Undelivered == {"pending", "sending"}
Response == {"ok", "gone", "throttled", "refused", "unknown"}

OutboxRow == [state : RowState, attempts : 0..MaxClaims,
              ambiguousAttempts : 0..2 * MaxClaims, sub : Sub \cup {NoSub},
              due : BOOLEAN, stale : BOOLEAN]
Flush == [todo : SUBSET Dispatch, on : Dispatch \cup {NoDispatch},
          claim : 0..MaxClaims, answer : Response \cup {"none"}]
Idle == [todo |-> {}, on |-> NoDispatch, claim |-> 0, answer |-> "none"]

(* Types, and with them the bound on the attempts of one row: as many as    *)
(* allowed, and one more for each claim that was taken over.                *)
OutboxTypeOK ==
    /\ outbox \in [Dispatch -> OutboxRow]
    /\ subs \in [Sub -> {"absent", "active", "idle"}]
    /\ flusher \in [Flusher -> Flush]
    /\ late \subseteq Dispatch
    /\ received \subseteq Dispatch
    /\ faults \in 0..MaxFaults
    /\ posted \subseteq Dispatch
    /\ stray \subseteq posted

OutboxInit ==
    /\ outbox = [d \in Dispatch |-> [state |-> "none", attempts |-> 0,
                                     ambiguousAttempts |-> 0, sub |-> NoSub,
                                     due |-> TRUE, stale |-> FALSE]]
    /\ subs = [s \in Sub |-> "absent"]
    /\ flusher = [f \in Flusher |-> Idle]
    /\ late = {} /\ received = {} /\ posted = {} /\ stray = {}
    /\ faults = 0

Active(s) == s \in Sub /\ subs[s] = "active"
Sending(f) == flusher[f].on # NoDispatch /\ flusher[f].answer = "none"
Answered(f) == flusher[f].on # NoDispatch /\ flusher[f].answer # "none"

-----------------------------------------------------------------------------
(* Faults that mutation runs swap in for the definitions below: a snapshot    *)
(* taken for the present, claims that never expire, a verdict without the    *)
(* claim test, retries without end, a lost answer taken for a refusal.       *)
FaultTrustSnapshot(r) == TRUE
FaultAnyVerdict(f) == outbox[flusher[f].on].state = "sending"
FaultClaimsForEver(r) == r.state = "pending" /\ r.due
FaultEndlessRetry(r, answer) == answer \in {"unknown", "throttled"}
FaultTimeoutIsRefusal(answer) == FALSE

-----------------------------------------------------------------------------
(* flush                                                                     *)

\* Due for a claim: the condition of the snapshot, and of the claim transaction.
Claimable(r) ==
    /\ r.state = "pending" \/ (r.state = "sending" /\ r.stale)
    /\ r.due

StillClaimable(r) == Claimable(r)

\* flush() takes all due rows, flush(eventId) those of one event.
FlushStart(f, D) ==
    /\ flusher[f] = Idle
    /\ \E d \in D : Claimable(outbox[d])
    /\ flusher' = [flusher EXCEPT ![f].todo = {d \in D : Claimable(outbox[d])}]
    /\ UNCHANGED <<outbox, subs, late, received, faults, posted, stray>>

\* The claim transaction on a row of the snapshot: nothing when the row has
\* moved on, "cancelled" when its subscription has, a claim otherwise.
Claim(f, d) ==
    LET r == outbox[d] IN
    /\ flusher[f].on = NoDispatch
    /\ d \in flusher[f].todo
    /\ \/ /\ ~StillClaimable(r)
          /\ flusher' = [flusher EXCEPT ![f].todo = @ \ {d}]
          /\ UNCHANGED <<outbox, posted, stray>>
       \/ /\ StillClaimable(r) /\ ~Active(r.sub)
          /\ flusher' = [flusher EXCEPT ![f].todo = @ \ {d}]
          /\ outbox' = [outbox EXCEPT ![d].state = "cancelled"]
          /\ UNCHANGED <<posted, stray>>
       \/ /\ StillClaimable(r) /\ Active(r.sub)
          /\ outbox' = [outbox EXCEPT
                ![d].state = "sending",
                ![d].attempts = @ + 1,
                ![d].ambiguousAttempts = IF r.state = "sending" THEN @ + 1 ELSE @,
                ![d].stale = FALSE]
          /\ flusher' = [flusher EXCEPT ![f].todo = @ \ {d}, ![f].on = d,
                                        ![f].claim = r.attempts + 1]
          /\ posted' = posted \cup {d}
          /\ stray' = IF r.state = "sending" THEN stray \cup {d} ELSE stray
    /\ UNCHANGED <<subs, late, received, faults>>

\* The sender resolves.  The platform takes the event or not; whichever it is,
\* its answer may be a 5xx or 408.
Answer(f, taken, answer) ==
    /\ Sending(f)
    /\ answer = "ok" => taken
    /\ answer \in {"gone", "throttled", "refused"} => ~taken
    /\ received' = IF taken THEN received \cup {flusher[f].on} ELSE received
    /\ flusher' = [flusher EXCEPT ![f].answer = answer]
    /\ UNCHANGED <<outbox, subs, late, faults, posted, stray>>

\* The sender rejects (transport_error, ten seconds at the latest): the POST may
\* still be on its way.
GiveUp(f) ==
    /\ Sending(f)
    /\ flusher' = [flusher EXCEPT ![f].answer = "unknown"]
    /\ late' = late \cup {flusher[f].on}
    /\ UNCHANGED <<outbox, subs, received, faults, posted, stray>>

\* The settling transaction drops a verdict whose claim is not the row's.
HoldsClaim(f) ==
    /\ outbox[flusher[f].on].state = "sending"
    /\ outbox[flusher[f].on].attempts = flusher[f].claim

Ambiguous(answer) == answer = "unknown"
Retried(r, answer) ==
    /\ Ambiguous(answer) \/ answer = "throttled"
    /\ r.attempts < MaxAttempts

Verdict(r, answer) ==
    [r EXCEPT !.state = IF answer = "ok" THEN "accepted"
                        ELSE IF Retried(r, answer) THEN "pending" ELSE "failed",
              !.ambiguousAttempts = IF Ambiguous(answer) THEN @ + 1 ELSE @,
              !.due = FALSE]

Settle(f) ==
    LET d == flusher[f].on
        answer == flusher[f].answer
        s == outbox[d].sub
    IN
    /\ Answered(f)
    /\ flusher' = [flusher EXCEPT ![f] = [Idle EXCEPT !.todo = flusher[f].todo]]
    /\ IF HoldsClaim(f)
       THEN /\ outbox' = [outbox EXCEPT ![d] = Verdict(@, answer)]
            /\ subs' = IF answer = "gone" /\ subs[s] # "absent"
                       THEN [subs EXCEPT ![s] = "idle"] ELSE subs
            /\ stray' = IF answer = "unknown" THEN stray \cup {d} ELSE stray
            /\ posted' = IF d \in stray' THEN posted ELSE posted \ {d}
       ELSE UNCHANGED <<outbox, subs, posted, stray>>
    /\ UNCHANGED <<late, received, faults>>

-----------------------------------------------------------------------------
(* Time, the network and dying processes                                     *)

RetryDue(d) ==
    /\ outbox[d].state = "pending" /\ ~outbox[d].due
    /\ outbox' = [outbox EXCEPT ![d].due = TRUE]
    /\ UNCHANGED <<subs, flusher, late, received, faults, posted, stray>>

\* Thirty seconds after a claim.  The sender's ten seconds are over by then,
\* unless its process was suspended: a fault.
Holder(d) == \E f \in Flusher : flusher[f].on = d /\ flusher[f].claim = outbox[d].attempts
ClaimExpires(d) ==
    /\ outbox[d].state = "sending" /\ ~outbox[d].stale
    /\ Holder(d) => faults < MaxFaults
    /\ faults' = IF Holder(d) THEN faults + 1 ELSE faults
    /\ outbox' = [outbox EXCEPT ![d].stale = TRUE]
    /\ UNCHANGED <<subs, flusher, late, received, posted, stray>>

Crash(f) ==
    /\ flusher[f] # Idle
    /\ faults < MaxFaults
    /\ faults' = faults + 1
    /\ flusher' = [flusher EXCEPT ![f] = Idle]
    /\ late' = IF Sending(f) THEN late \cup {flusher[f].on} ELSE late
    /\ UNCHANGED <<outbox, subs, received, posted, stray>>

ArriveLate(d) ==
    /\ d \in late
    /\ late' = late \ {d}
    /\ received' = received \cup {d}
    /\ UNCHANGED <<outbox, subs, flusher, faults, posted, stray>>

-----------------------------------------------------------------------------
(* Other operations on the two buckets                                       *)

EnqueueContinue(d, s) ==
    /\ outbox[d].state = "none"
    /\ Active(s)
    /\ outbox' = [outbox EXCEPT ![d].state = "pending", ![d].sub = s]
    /\ UNCHANGED <<subs, flusher, late, received, faults, posted, stray>>

\* subscribe, once its callback is verified: a new, renewed or re-enabled one.
Subscribe(s) ==
    /\ subs[s] # "active"
    /\ subs' = [subs EXCEPT ![s] = "active"]
    /\ UNCHANGED <<outbox, flusher, late, received, faults, posted, stray>>

\* refreshBefore passes.
Expire(s) ==
    /\ subs[s] = "active"
    /\ subs' = [subs EXCEPT ![s] = "idle"]
    /\ UNCHANGED <<outbox, flusher, late, received, faults, posted, stray>>

CancelRows(D) ==
    [d \in Dispatch |-> IF d \in D /\ outbox[d].state \in Undelivered
                        THEN [outbox[d] EXCEPT !.state = "cancelled"]
                        ELSE outbox[d]]

Unsubscribe(s) ==
    /\ subs[s] # "absent"
    /\ subs' = [subs EXCEPT ![s] = "absent"]
    /\ outbox' = CancelRows({d \in Dispatch : outbox[d].sub = s})
    /\ UNCHANGED <<flusher, late, received, faults, posted, stray>>

\* The coordinator's reconcile.
Reconcile(d) ==
    /\ outbox[d].state \in Undelivered
    /\ outbox' = CancelRows({d})
    /\ UNCHANGED <<subs, flusher, late, received, faults, posted, stray>>

-----------------------------------------------------------------------------
Resolve(f) ==
    \/ \E taken \in BOOLEAN, answer \in Response : Answer(f, taken, answer)
    \/ GiveUp(f)
Work(f) == Resolve(f) \/ Settle(f) \/ \E d \in Dispatch : Claim(f, d)

OutboxNext ==
    \/ \E f \in Flusher : Work(f) \/ Crash(f) \/ FlushStart(f, Dispatch)
    \/ \E f \in Flusher \ {Server}, d \in Dispatch : FlushStart(f, {d})
    \/ \E d \in Dispatch :
          RetryDue(d) \/ ClaimExpires(d) \/ ArriveLate(d) \/ Reconcile(d)
    \/ \E d \in Dispatch, s \in Sub : EnqueueContinue(d, s)
    \/ \E s \in Sub : Subscribe(s) \/ Expire(s) \/ Unsubscribe(s)

OutboxSpec == OutboxInit /\ [][OutboxNext]_vars

(***************************************************************************)
(* Fairness: a flush call that is alive goes on (its sender has a ten      *)
(* second limit), the server starts one every two seconds, and clocks run. *)
(***************************************************************************)
FairOutboxSpec ==
    /\ OutboxSpec
    /\ \A f \in Flusher : WF_vars(Work(f))
    /\ WF_vars(FlushStart(Server, Dispatch))
    /\ \A d \in Dispatch : WF_vars(RetryDue(d)) /\ WF_vars(ClaimExpires(d))

-----------------------------------------------------------------------------
(* The delivery contract, as the outbox implements it.                       *)
Contract == INSTANCE DeliveryRows WITH
    row <- [d \in Dispatch |->
              [state |-> outbox[d].state, sub |-> outbox[d].sub,
               ambiguous |-> outbox[d].ambiguousAttempts > 0]],
    active <- {s \in Sub : Active(s)}

(* However flushers race, hang and die, the outbox keeps the contract the    *)
(* coordinator relies on: in particular no attempt whose fate is unknown     *)
(* goes uncounted, and a row settles once (flush, both transactions).        *)
KeepsContract == Contract!DeliverySpec

(* No verdict is recorded while the attempt that holds the claim is still    *)
(* out: a superseded sender cannot settle the row under the sender that took *)
(* it over (the claimId test of flush).                                      *)
VerdictWaitsForHolder ==
    \A f \in Flusher :
        LET r == outbox[flusher[f].on] IN
        flusher[f].on # NoDispatch /\ flusher[f].claim = r.attempts =>
            r.state \in {"sending", "cancelled"}

(* Six attempts at most for one event: what the delivery documentation says. *)
AttemptsLimited == \A d \in Dispatch : outbox[d].attempts <= MaxAttempts

(* Every enqueued event comes to an end, in spite of the crashes and hangs   *)
(* of its senders: no row stays pending or claimed for ever (the retry and   *)
(* takeover conditions of flush, run by the server's timer).                 *)
EveryRowSettles ==
    \A d \in Dispatch :
        outbox[d].state \in Undelivered ~> outbox[d].state \notin Undelivered
=============================================================================
