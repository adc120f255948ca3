---------------------------- MODULE DeliveryRows ----------------------------
(***************************************************************************)
(* The delivery contract of the event outbox (src/events.ts), one row per  *)
(* dispatched event: what a row goes through between the transaction that  *)
(* enqueues it and the one that settles it, and what the platform may have *)
(* seen meanwhile.  The WorkflowCoordinator module relies on this contract *)
(* and the EventOutbox module implements it.                               *)
(*                                                                         *)
(* Abstractions.  An event id and a run id are minted together and never   *)
(* reused, so Dispatch stands for both.  ambiguousAttempts is only ever    *)
(* compared with 0, so it is a Boolean.  Clocks are left out: a claim      *)
(* (30 s) may expire, and a retry time may come, at any moment.  Whether a *)
(* retryable answer was the last allowed attempt is a free choice here;    *)
(* EventOutbox counts attempts.                                            *)
(***************************************************************************)
EXTENDS Naturals

CONSTANTS
    Dispatch,   \* ids of dispatched events
    Sub,        \* webhook subscriptions of the one local owner
    NoSub       \* sentinel: no subscription

ASSUME SentinelAssumption == NoSub \notin Sub

VARIABLES
    row,        \* bucket "outbox", keyed by the event it carries
    active,     \* subscriptions stored, not disabled and not expired
    posted,     \* events of which some POST may still reach the platform
    stray,      \* events with an earlier POST whose sender never learned its fate
    received    \* events the platform has received, a Chat run may act on them

deliveryVars == <<row, active, posted, stray, received>>

RowState == {"none", "pending", "sending", "accepted", "failed", "cancelled"}
Row == [state : RowState, ambiguous : BOOLEAN, sub : Sub \cup {NoSub}]
Undelivered == {"pending", "sending"}

NoRow == [state |-> "none", ambiguous |-> FALSE, sub |-> NoSub]

DeliveryTypeOK ==
    /\ row \in [Dispatch -> Row]
    /\ active \subseteq Sub
    /\ posted \subseteq Dispatch
    /\ stray \subseteq Dispatch
    /\ received \subseteq Dispatch

DeliveryInit ==
    /\ row = [d \in Dispatch |-> NoRow]
    /\ active = {}
    /\ posted = {}
    /\ stray = {}
    /\ received = {}

-----------------------------------------------------------------------------
(* Faults that mutation runs swap in for the definitions below: a row stored *)
(* with the run's state, a cancellation that does not look at the row's      *)
(* state, a takeover that does not count as ambiguous.                       *)
FaultQueuedRow(s) == [state |-> "queued", ambiguous |-> FALSE, sub |-> s]
FaultCancelAnyRows(D) ==
    [d \in Dispatch |-> IF d \in D THEN [row[d] EXCEPT !.state = "cancelled"] ELSE row[d]]
FaultReclaimForgets(r) == [r EXCEPT !.state = "sending"]

-----------------------------------------------------------------------------
\* A stored row as the enqueueing transaction leaves it.
FreshRow(s) == [state |-> "pending", ambiguous |-> FALSE, sub |-> s]

\* The rows after the undelivered ones among those of D are cancelled.
CancelRows(D) ==
    [d \in Dispatch |-> IF row[d].state \in Undelivered /\ d \in D
                        THEN [row[d] EXCEPT !.state = "cancelled"]
                        ELSE row[d]]

\* A claimed row: taking over a row that is already "sending" means that its
\* sender died or hung, so what happened to its POST is unknown.
Claimed(r) == [r EXCEPT !.state = "sending",
                        !.ambiguous = @ \/ r.state = "sending"]

\* The answers of a webhook: 2xx; 410; 429; any other refusal; and no answer,
\* 408 or 5xx, which say nothing about whether the event got in.
Response == {"ok", "gone", "throttled", "refused", "unknown"}
Ambiguous(resp) == resp = "unknown"
Transient(resp) == Ambiguous(resp) \/ resp = "throttled"

-----------------------------------------------------------------------------
\* flush, claim transaction: the row is pending, or its claim has expired, and
\* the subscription is active; the POST then leaves.
ClaimRow(d) ==
    /\ row[d].state \in Undelivered
    /\ row[d].sub \in active
    /\ row' = [row EXCEPT ![d] = Claimed(@)]
    /\ posted' = posted \cup {d}
    /\ stray' = IF row[d].state = "sending" THEN stray \cup {d} ELSE stray
    /\ UNCHANGED <<active, received>>

\* flush, claim transaction, on a row whose subscription is gone, disabled or
\* expired.
DropRow(d) ==
    /\ row[d].state \in Undelivered
    /\ row[d].sub \notin active
    /\ row' = [row EXCEPT ![d].state = "cancelled"]
    /\ UNCHANGED <<active, posted, stray, received>>

\* flush, settling transaction of the sender that still holds the claim.  The
\* platform answers 2xx only for an event it has received, and refuses only an
\* attempt it has not taken; a stray earlier attempt may have been taken
\* whatever the last answer says.
SettleRow(d, resp) ==
    /\ row[d].state = "sending"
    /\ resp = "ok" => d \in received
    /\ resp \in {"gone", "throttled", "refused"} =>
          d \in stray \/ d \notin received
    /\ \E exhausted \in BOOLEAN :
          row' = [row EXCEPT ![d].state =
                                IF resp = "ok" THEN "accepted"
                                ELSE IF Transient(resp) /\ ~exhausted THEN "pending"
                                ELSE "failed",
                             ![d].ambiguous = @ \/ Ambiguous(resp)]
    /\ stray' = IF resp = "unknown" THEN stray \cup {d} ELSE stray
    /\ posted' = IF d \in stray' THEN posted ELSE posted \ {d}
    /\ active' = IF resp = "gone" THEN active \ {row[d].sub} ELSE active
    /\ UNCHANGED received

\* The platform receives a POST that left, possibly long after its sender gave
\* up on it or its row was cancelled.
Arrive(d) ==
    /\ d \in posted \ received
    /\ received' = received \cup {d}
    /\ UNCHANGED <<row, active, posted, stray>>

\* subscribe, after its callback passed verification.
Subscribe(s) ==
    /\ s \notin active
    /\ active' = active \cup {s}
    /\ UNCHANGED <<row, posted, stray, received>>

\* refreshBefore passes.
Expire(s) ==
    /\ s \in active
    /\ active' = active \ {s}
    /\ UNCHANGED <<row, posted, stray, received>>

\* unsubscribe: the subscription and its undelivered rows go together.
Unsubscribe(s) ==
    /\ active' = active \ {s}
    /\ row' = CancelRows({d \in Dispatch : row[d].sub = s})
    /\ UNCHANGED <<posted, stray, received>>

\* enqueueContinue for one chosen active subscription.
EnqueueRow(d, s) ==
    /\ row[d].state = "none"
    /\ s \in active
    /\ row' = [row EXCEPT ![d] = FreshRow(s)]
    /\ UNCHANGED <<active, posted, stray, received>>

\* The outbox part of reconcile.
CancelRow(d) ==
    /\ row' = CancelRows({d})
    /\ UNCHANGED <<active, posted, stray, received>>

DeliveryStep ==
    \/ \E d \in Dispatch : ClaimRow(d) \/ DropRow(d) \/ Arrive(d)
    \/ \E d \in Dispatch, resp \in Response : SettleRow(d, resp)
    \/ \E s \in Sub : Subscribe(s) \/ Expire(s) \/ Unsubscribe(s)

DeliveryNext ==
    \/ DeliveryStep
    \/ \E d \in Dispatch, s \in Sub : EnqueueRow(d, s)
    \/ \E d \in Dispatch : CancelRow(d)

DeliverySpec == DeliveryInit /\ [][DeliveryNext]_deliveryVars

-----------------------------------------------------------------------------
(* Unknown outcomes are never forgotten while a row can still be retried or *)
(* has failed: a row with no ambiguous attempt on record, other than the    *)
(* one in flight or a cancelled or accepted one, was not received and has   *)
(* no POST on its way (ambiguousAttempts in flush, events.ts).              *)
CleanRowNotReceived ==
    \A d \in Dispatch :
        row[d].state \in {"none", "pending", "failed"} /\ ~row[d].ambiguous =>
            d \notin received /\ d \notin posted

(* A row leaves the outbox once: accepted, failed and cancelled rows keep   *)
(* their state and their ambiguity, whatever late answers, reclaims,        *)
(* unsubscriptions or reconciliations come afterwards.                      *)
FinalRowsStay ==
    [][\A d \in Dispatch :
          row[d].state \in {"accepted", "failed", "cancelled"} => row'[d] = row[d]]_row
=============================================================================
