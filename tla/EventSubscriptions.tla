------------------------- MODULE EventSubscriptions -------------------------
(***************************************************************************)
(* subscribe and unsubscribe (src/events.ts) for one subscription, that is *)
(* one callback and topic: a subscribe call awaits the validation of the   *)
(* callback, reads what is stored, may await a signed challenge to the     *)
(* callback, and stores what it has computed from its old reading.  Calls  *)
(* in several processes, unsubscriptions and 410 answers come in between.  *)
(*                                                                         *)
(* Abstractions.  Time is counted in ticks longer than the ten seconds a   *)
(* verification may take; Window is the five minutes of both the           *)
(* verification cache and the double signature.  refreshBefore is left     *)
(* out: subscribe does not read it.                                        *)
(***************************************************************************)
EXTENDS Naturals

CONSTANTS
    Secret, NoSecret,
    Caller,         \* subscribe calls that may be under way at once
    Window,
    MaxTime,        \* bound: ticks
    MaxCancels      \* bound: unsubscriptions

ASSUME SubscriptionAssumption ==
    /\ NoSecret \notin Secret
    /\ Window \in Nat /\ Window > 1
    /\ MaxTime \in Nat
    /\ MaxCancels \in Nat

VARIABLES
    now,
    stored,     \* bucket "subscriptions"; its secret is NoSecret when absent
    epoch,      \* bucket "subscription-cancel-epochs"
    call,       \* the locals of each subscribe call
    \* History.
    proved,     \* secrets that a callback has answered a challenge under, and when
    cancelled   \* calls during which the subscription was cancelled

vars == <<now, stored, epoch, call, proved, cancelled>>

Time == 0..MaxTime
Phase == {"idle", "validating", "verifying", "storing"}
Subscription == [secret : Secret \cup {NoSecret}, verifiedAt : Time,
                 previousSecret : Secret \cup {NoSecret},
                 previousUntil : 0..MaxTime + Window, disabled : BOOLEAN]
Call == [phase : Phase, secret : Secret \cup {NoSecret}, epoch : 0..MaxCancels,
         prior : Subscription, at : Time]

Absent == [secret |-> NoSecret, verifiedAt |-> 0, previousSecret |-> NoSecret,
           previousUntil |-> 0, disabled |-> FALSE]
NoCall == [phase |-> "idle", secret |-> NoSecret, epoch |-> 0, prior |-> Absent,
           at |-> 0]

SubscriptionTypeOK ==
    /\ now \in Time
    /\ stored \in Subscription
    /\ epoch \in 0..MaxCancels
    /\ call \in [Caller -> Call]
    /\ proved \subseteq Secret \X Time
    /\ cancelled \subseteq Caller

Init ==
    /\ now = 0
    /\ stored = Absent
    /\ epoch = 0
    /\ call = [c \in Caller |-> NoCall]
    /\ proved = {}
    /\ cancelled = {}

-----------------------------------------------------------------------------
(* Faults that mutation runs swap in for the definitions below: a cache that *)
(* does not compare secrets, one that never grows old, a cancellation that   *)
(* is forgotten, a rotation that drops the old secret, a call that fails     *)
(* without ending.                                                           *)
FaultCacheAnySecret(c) ==
    /\ call[c].prior.secret # NoSecret
    /\ call[c].at < call[c].prior.verifiedAt + Window
FaultCacheForEver(c) ==
    call[c].prior.secret = call[c].secret /\ ~call[c].prior.disabled
FaultRenewedByCache(c) == call[c].at
FaultForgetsCancel(c) == TRUE
FaultDropsPrevious(c) == FALSE
FaultEnded(c) == [call EXCEPT ![c].phase = "failed"]

-----------------------------------------------------------------------------
Ended(c) == [call EXCEPT ![c] = NoCall]

\* The epoch is read before the first await.
Begin(c, secret) ==
    /\ call[c].phase = "idle"
    /\ call' = [call EXCEPT ![c] = [NoCall EXCEPT !.phase = "validating",
                                                  !.secret = secret, !.epoch = epoch]]
    /\ cancelled' = cancelled \ {c}
    /\ UNCHANGED <<now, stored, epoch, proved>>

\* The prior subscription is enabled, has this secret and was verified lately.
CacheHit(c) ==
    LET prior == call[c].prior IN
    /\ prior.secret = call[c].secret
    /\ ~prior.disabled
    /\ call[c].at < prior.verifiedAt + Window

\* The callback's address is public: time and the stored subscription are read.
Read(c) ==
    /\ call[c].phase = "validating"
    /\ call' = [call EXCEPT ![c].phase = "verifying", ![c].prior = stored,
                            ![c].at = now]
    /\ UNCHANGED <<now, stored, epoch, proved, cancelled>>

\* The cache stands in for the challenge.
Reuse(c) ==
    /\ call[c].phase = "verifying"
    /\ CacheHit(c)
    /\ call' = [call EXCEPT ![c].phase = "storing"]
    /\ UNCHANGED <<now, stored, epoch, proved, cancelled>>

\* The callback echoes the challenge that was signed with the new secret.
Verify(c) ==
    /\ call[c].phase = "verifying"
    /\ ~CacheHit(c)
    /\ call' = [call EXCEPT ![c].phase = "storing"]
    /\ proved' = proved \cup {<<call[c].secret, call[c].at>>}
    /\ UNCHANGED <<now, stored, epoch, cancelled>>

\* invalid_url, timeout or challenge_failed.
Fail(c) ==
    /\ \/ call[c].phase = "validating"
       \/ call[c].phase = "verifying" /\ ~CacheHit(c)
    /\ call' = Ended(c)
    /\ UNCHANGED <<now, stored, epoch, proved, cancelled>>

VerifiedAt(c) == IF CacheHit(c) THEN call[c].prior.verifiedAt ELSE call[c].at

\* The prior secret is being replaced.
Rotates(c) == call[c].prior.secret \notin {NoSecret, call[c].secret}

StillCurrent(c) == epoch = call[c].epoch

\* What the call stores, from what it has read.
Candidate(c) ==
    LET prior == call[c].prior
        kept == prior.previousSecret # NoSecret /\ prior.previousUntil > call[c].at
    IN
    [secret |-> call[c].secret, verifiedAt |-> VerifiedAt(c), disabled |-> FALSE,
     previousSecret |-> IF Rotates(c) THEN prior.secret
                        ELSE IF kept THEN prior.previousSecret ELSE NoSecret,
     previousUntil |-> IF Rotates(c) THEN call[c].at + Window
                       ELSE IF kept THEN prior.previousUntil ELSE 0]

\* The transaction at the end refuses only a cancellation in between.
Store(c) ==
    /\ call[c].phase = "storing"
    /\ stored' = IF StillCurrent(c) THEN Candidate(c) ELSE stored
    /\ call' = Ended(c)
    /\ UNCHANGED <<now, epoch, proved, cancelled>>

Unsubscribe ==
    /\ epoch < MaxCancels
    /\ epoch' = epoch + 1
    /\ stored' = Absent
    /\ cancelled' = {c \in Caller : call[c].phase # "idle"}
    /\ UNCHANGED <<now, call, proved>>

\* flush meets a 410.
Disable ==
    /\ stored.secret # NoSecret
    /\ stored' = [stored EXCEPT !.disabled = TRUE]
    /\ UNCHANGED <<now, epoch, call, proved, cancelled>>

\* A call that has read its time ends, by its timeouts, within a tick.
Tick ==
    /\ now < MaxTime
    /\ \A c \in Caller : call[c].phase \in {"verifying", "storing"} => call[c].at = now
    /\ now' = now + 1
    /\ UNCHANGED <<stored, epoch, call, proved, cancelled>>

-----------------------------------------------------------------------------
CallStep(c) ==
    \/ \E secret \in Secret : Begin(c, secret)
    \/ Read(c) \/ Reuse(c) \/ Verify(c) \/ Fail(c) \/ Store(c)

Next == Unsubscribe \/ Disable \/ Tick \/ \E c \in Caller : CallStep(c)

Spec == Init /\ [][Next]_vars

-----------------------------------------------------------------------------
(* A subscribe call that was overtaken by an unsubscription stores nothing,  *)
(* even when others have subscribed again meanwhile (the cancel epochs of    *)
(* subscribe and unsubscribe).                                               *)
CancelledStoresNothing ==
    [][\A c \in cancelled :
          call[c].phase = "storing" /\ call'[c].phase = "idle" => stored' = stored]_vars

(* No secret is stored that the callback has not answered for, and the cache *)
(* does not renew itself: the stored time is that of a real challenge under  *)
(* the stored secret (cacheHit and verifiedAt of subscribe).                 *)
VerificationHonest ==
    stored.secret # NoSecret => <<stored.secret, stored.verifiedAt>> \in proved

(* However a subscription comes to be stored, its callback has answered for  *)
(* its secret within the five minutes before (the cache of subscribe).       *)
RecentlyVerified ==
    [][\A c \in Caller :
          call[c].phase = "storing" /\ call'[c].phase = "idle" /\ stored' # stored =>
              \E t \in Time : /\ <<stored'.secret, t>> \in proved
                              /\ now <= t + Window]_vars

\* The secrets that deliveries are signed with at present (headers).
Signing == {stored.secret} \cup
           {secret \in Secret : stored.previousSecret = secret /\ stored.previousUntil > now}

(* A secret that is replaced goes on signing next to the new one: the double *)
(* signature that the delivery documentation promises of a rotation.         *)
RotationKeepsPrevious ==
    [][stored.secret # NoSecret /\ stored'.secret \notin {NoSecret, stored.secret} =>
          stored.secret \in Signing']_vars

(* It does as long as no other call or unsubscription has come between what  *)
(* a call reads and what it stores; renewing a subscription does not end a   *)
(* double signature before its time either (previousSecret of subscribe).    *)
UndisturbedRotation ==
    [][\A c \in Caller :
          /\ call[c].phase = "storing" /\ call'[c].phase = "idle"
          /\ call[c].prior = stored /\ stored.secret # NoSecret
          => /\ stored.secret \in Signing'
             /\ stored'.secret = stored.secret => Signing' = Signing]_vars
=============================================================================
