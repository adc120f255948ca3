---------------------- MODULE EventSubscriptions_proofs ----------------------
(* Proofs about subscribe and unsubscribe, for any secrets, any number of    *)
(* concurrent calls and any bounds.                                          *)
EXTENDS EventSubscriptions, TLAPS

\* What call c knows: its prior subscription was verified when it says so, and a
\* challenge that the cache does not replace has been answered.
CallHonest(c) ==
    /\ call[c].prior.secret # NoSecret =>
          <<call[c].prior.secret, call[c].prior.verifiedAt>> \in proved
    /\ call[c].phase = "storing" /\ ~CacheHit(c) =>
          <<call[c].secret, call[c].at>> \in proved

\* Its epoch is behind once it was cancelled.
CallEpoch(c) ==
    /\ call[c].epoch <= epoch
    /\ c \in cancelled /\ call[c].phase # "idle" => call[c].epoch < epoch

\* It has an actual secret, and what it read is at most a tick old.
CallFresh(c) ==
    /\ call[c].at <= now
    /\ call[c].phase # "idle" => call[c].secret \in Secret
    /\ call[c].phase \in {"verifying", "storing"} => now <= call[c].at + 1

CallInv(c) == CallHonest(c) /\ CallEpoch(c) /\ CallFresh(c)

SInv ==
    /\ SubscriptionTypeOK
    /\ VerificationHonest
    /\ \A c \in Caller : CallInv(c)

-----------------------------------------------------------------------------
(* What is stored at the end of a call is a subscription, verified for its   *)
(* secret at a time within the window.                                       *)
LEMMA CandidateFacts ==
    ASSUME SInv, NEW c \in Caller, call[c].phase = "storing"
    PROVE  /\ Candidate(c) \in Subscription
           /\ Candidate(c).secret = call[c].secret
           /\ call[c].secret \in Secret
           /\ Candidate(c).verifiedAt = VerifiedAt(c)
           /\ VerifiedAt(c) \in Time
           /\ <<call[c].secret, VerifiedAt(c)>> \in proved
           /\ now <= VerifiedAt(c) + Window
<1>1. /\ call[c] \in Call /\ CallInv(c) /\ now \in Time
      /\ Window \in Nat \ {0} /\ MaxTime \in Nat
      BY SubscriptionAssumption DEF SInv, SubscriptionTypeOK
<1>2. call[c].prior \in Subscription /\ call[c].at \in Time /\ call[c].secret \in Secret
      BY <1>1 DEF Call, CallInv, CallFresh
<1>3. VerifiedAt(c) \in Time
      BY <1>2 DEF VerifiedAt, Subscription
<1>4. now <= call[c].at + 1
      BY <1>1 DEF CallInv, CallFresh
<1>5. <<call[c].secret, VerifiedAt(c)>> \in proved /\ now <= VerifiedAt(c) + Window
  <2>1. CASE CacheHit(c)
    <3>1. call[c].prior.secret = call[c].secret
          /\ call[c].at < call[c].prior.verifiedAt + Window
          BY <2>1 DEF CacheHit
    <3>2. VerifiedAt(c) = call[c].prior.verifiedAt /\ call[c].prior.secret # NoSecret
          BY <1>2, <2>1, <3>1, SubscriptionAssumption DEF VerifiedAt
    <3>3. <<call[c].secret, VerifiedAt(c)>> \in proved
          BY <1>1, <3>1, <3>2 DEF CallInv, CallHonest
    <3>4. now <= VerifiedAt(c) + Window
          BY <1>1, <1>2, <1>3, <1>4, <3>1, <3>2 DEF Time
    <3> QED
        BY <3>3, <3>4
  <2>2. CASE ~CacheHit(c)
    <3>1. VerifiedAt(c) = call[c].at /\ <<call[c].secret, call[c].at>> \in proved
          BY <1>1, <2>2 DEF VerifiedAt, CallInv, CallHonest
    <3>2. now <= VerifiedAt(c) + Window
          BY <1>1, <1>2, <1>4, <3>1 DEF Time
    <3> QED
        BY <3>1, <3>2
  <2> QED
      BY <2>1, <2>2
<1>6. call[c].at + Window \in 0..MaxTime + Window
      BY <1>1, <1>2 DEF Time
<1>7. Candidate(c) \in Subscription
  <2>1. ASSUME NEW secret \in Secret \cup {NoSecret}, NEW at \in Time,
               NEW previous \in Secret \cup {NoSecret},
               NEW until \in 0..MaxTime + Window
        PROVE  [secret |-> secret, verifiedAt |-> at, disabled |-> FALSE,
                previousSecret |-> previous, previousUntil |-> until]
               \in Subscription
        BY DEF Subscription
  <2>2. /\ Candidate(c).previousSecret \in Secret \cup {NoSecret}
        /\ Candidate(c).previousUntil \in 0..MaxTime + Window
        BY <1>1, <1>2, <1>6 DEF Candidate, Subscription
  <2>3. Candidate(c) = [secret |-> call[c].secret, verifiedAt |-> VerifiedAt(c),
                        disabled |-> FALSE,
                        previousSecret |-> Candidate(c).previousSecret,
                        previousUntil |-> Candidate(c).previousUntil]
        BY DEF Candidate
  <2>4. call[c].secret \in Secret \cup {NoSecret}
        BY <1>2
  <2> HIDE DEF Candidate, VerifiedAt
  <2> QED
      BY <1>3, <2>1, <2>2, <2>3, <2>4
<1> QED
    BY <1>2, <1>3, <1>5, <1>7 DEF Candidate

LEMMA SInvInit == Init => SInv
<1> SUFFICES ASSUME Init
             PROVE  SInv
    OBVIOUS
<1>1. Absent \in Subscription /\ 0 \in Time
      BY SubscriptionAssumption DEF Absent, Subscription, Time
<1>2. NoCall \in Call
      BY <1>1, SubscriptionAssumption DEF NoCall, Call, Phase
<1>3. SubscriptionTypeOK
      BY <1>1, <1>2, SubscriptionAssumption DEF Init, SubscriptionTypeOK
<1>4. VerificationHonest
      BY DEF Init, VerificationHonest, Absent
<1>5. ASSUME NEW c \in Caller
      PROVE  CallInv(c)
      BY DEF Init, CallInv, CallHonest, CallEpoch, CallFresh, NoCall, Absent
<1> QED
    BY <1>3, <1>4, <1>5 DEF SInv

\* A step of call c leaves the others, and what they are measured by, alone.
LEMMA OtherCalls ==
    ASSUME SInv, NEW c \in Caller, NEW r, call' = [call EXCEPT ![c] = r],
           proved \subseteq proved', cancelled' \subseteq cancelled,
           UNCHANGED <<now, epoch>>
    PROVE  \A b \in Caller \ {c} : CallInv(b)'
<1>1. ASSUME NEW b \in Caller \ {c}
      PROVE  CallInv(b)'
  <2>1. call'[b] = call[b] /\ CallInv(b)
        BY <1>1 DEF SInv, SubscriptionTypeOK
  <2>2. CacheHit(b)' <=> CacheHit(b)
        BY <2>1 DEF CacheHit
  <2> QED
      BY <2>1, <2>2 DEF CallInv, CallHonest, CallEpoch, CallFresh
<1> QED
    BY <1>1

LEMMA CallStepInv ==
    ASSUME SInv, NEW c \in Caller, CallStep(c)
    PROVE  SInv'
<1>1. /\ call \in [Caller -> Call] /\ call[c] \in Call /\ CallInv(c)
      /\ now \in Time /\ stored \in Subscription /\ epoch \in 0..MaxCancels
      /\ proved \subseteq Secret \X Time /\ cancelled \subseteq Caller
      /\ VerificationHonest
      BY DEF SInv, SubscriptionTypeOK
<1>2. NoCall \in Call /\ 0 \in Time
  <2>1. Absent \in Subscription /\ 0 \in Time
        BY SubscriptionAssumption DEF Absent, Subscription, Time
  <2> QED
      BY <2>1, SubscriptionAssumption DEF NoCall, Call, Phase
<1>3. ASSUME NEW r \in Call, call' = [call EXCEPT ![c] = r], UNCHANGED <<now, epoch>>,
             stored' \in Subscription, proved \subseteq proved',
             proved' \subseteq Secret \X Time,
             cancelled' \subseteq cancelled, VerificationHonest', CallInv(c)'
      PROVE  SInv'
  <2>1. \A b \in Caller : CallInv(b)'
        BY <1>3, OtherCalls
  <2>2. SubscriptionTypeOK'
        BY <1>1, <1>3 DEF SubscriptionTypeOK
  <2> QED
      BY <1>3, <2>1, <2>2 DEF SInv
<1>4. ASSUME call' = Ended(c), UNCHANGED <<now, epoch, proved, cancelled>>
      PROVE  /\ call' = [call EXCEPT ![c] = NoCall]
             /\ CallInv(c)'
  <2>1. call' = [call EXCEPT ![c] = NoCall] /\ call'[c] = NoCall
        BY <1>1, <1>4 DEF Ended
  <2>2. epoch \in Nat /\ now \in Nat
        BY <1>1, SubscriptionAssumption DEF Time
  <2> QED
      BY <1>4, <2>1, <2>2
      DEF CallInv, CallHonest, CallEpoch, CallFresh, NoCall, Absent
<1>5. ASSUME NEW secret \in Secret, Begin(c, secret)
      PROVE  SInv'
  <2> DEFINE r == [NoCall EXCEPT !.phase = "validating", !.secret = secret,
                                 !.epoch = epoch]
  <2>1. r \in Call /\ call' = [call EXCEPT ![c] = r] /\ call'[c] = r
        BY <1>1, <1>2, <1>5 DEF Begin, Call, Phase
  <2>2. r.phase = "validating" /\ r.secret = secret /\ r.epoch = epoch
        /\ r.prior.secret = NoSecret /\ r.at = 0
        BY DEF NoCall, Absent
  <2>3. CallInv(c)'
        BY <1>1, <1>5, <2>1, <2>2, SubscriptionAssumption
        DEF Begin, CallInv, CallHonest, CallEpoch, CallFresh, Time
  <2>4. VerificationHonest'
        BY <1>1, <1>5 DEF Begin, VerificationHonest
  <2> QED
      BY <1>1, <1>3, <1>5, <2>1, <2>3, <2>4 DEF Begin
<1>6. CASE Read(c)
  <2> DEFINE r == [call[c] EXCEPT !.phase = "verifying", !.prior = stored, !.at = now]
  <2>1. r \in Call /\ call' = [call EXCEPT ![c] = r] /\ call'[c] = r
        BY <1>1, <1>6 DEF Read, Call, Phase
  <2>2. /\ r.phase = "verifying" /\ r.secret = call[c].secret
        /\ r.epoch = call[c].epoch /\ r.prior = stored /\ r.at = now
        BY <1>1 DEF Call
  <2>3. CallInv(c)'
        BY <1>1, <1>6, <2>1, <2>2
        DEF Read, CallInv, CallHonest, CallEpoch, CallFresh, VerificationHonest, Time
  <2>4. VerificationHonest'
        BY <1>1, <1>6 DEF Read, VerificationHonest
  <2> QED
      BY <1>1, <1>3, <1>6, <2>1, <2>3, <2>4 DEF Read
<1>7. CASE Reuse(c) \/ Verify(c)
  <2> DEFINE r == [call[c] EXCEPT !.phase = "storing"]
  <2>1. r \in Call /\ call' = [call EXCEPT ![c] = r] /\ call'[c] = r
        BY <1>1, <1>7 DEF Reuse, Verify, Call, Phase
  <2>2. /\ r.phase = "storing" /\ r.secret = call[c].secret
        /\ r.epoch = call[c].epoch /\ r.prior = call[c].prior /\ r.at = call[c].at
        BY <1>1 DEF Call
  <2>3. CacheHit(c)' <=> CacheHit(c)
        BY <2>1, <2>2 DEF CacheHit
  <2>4. call[c].secret \in Secret /\ call[c].at \in Time
        BY <1>1, <1>7 DEF CallInv, CallFresh, Call, Reuse, Verify
  <2>5. /\ proved \subseteq proved' /\ proved' \subseteq Secret \X Time
        /\ CacheHit(c) \/ <<call[c].secret, call[c].at>> \in proved'
        BY <1>1, <1>7, <2>4 DEF Reuse, Verify
  <2>6. UNCHANGED <<now, stored, epoch, cancelled>> /\ call[c].phase = "verifying"
        BY <1>7 DEF Reuse, Verify
  <2>7. CallInv(c)'
        BY <1>1, <2>1, <2>2, <2>3, <2>5, <2>6
        DEF CallInv, CallHonest, CallEpoch, CallFresh
  <2>8. VerificationHonest'
        BY <1>1, <2>5, <2>6 DEF VerificationHonest
  <2> QED
      BY <1>1, <1>3, <2>1, <2>5, <2>6, <2>7, <2>8
<1>8. CASE Fail(c)
  <2>1. VerificationHonest'
        BY <1>1, <1>8 DEF Fail, VerificationHonest
  <2> QED
      BY <1>1, <1>2, <1>3, <1>4, <1>8, <2>1 DEF Fail
<1>9. CASE Store(c)
  <2>1. stored' \in Subscription /\ VerificationHonest'
        BY <1>1, <1>9, CandidateFacts DEF Store, VerificationHonest
  <2> QED
      BY <1>1, <1>2, <1>3, <1>4, <1>9, <2>1 DEF Store
<1> QED
    BY <1>5, <1>6, <1>7, <1>8, <1>9 DEF CallStep

LEMMA SInvStep == SInv /\ [Next]_vars => SInv'
<1> SUFFICES ASSUME SInv, [Next]_vars
             PROVE  SInv'
    OBVIOUS
<1>1. /\ SubscriptionTypeOK /\ VerificationHonest
      /\ \A c \in Caller : CallInv(c) /\ call[c] \in Call
      BY DEF SInv, SubscriptionTypeOK
<1>2. \A c \in Caller : call' = call => (CacheHit(c)' <=> CacheHit(c))
      BY DEF CacheHit
<1>3. CASE Unsubscribe
  <2>1. SubscriptionTypeOK'
        BY <1>1, <1>3, SubscriptionAssumption
        DEF Unsubscribe, SubscriptionTypeOK, Subscription, Absent, Time
  <2>2. ASSUME NEW c \in Caller
        PROVE  CallInv(c)'
    <3>1. call[c].epoch \in Nat /\ epoch \in Nat
          BY <1>1, SubscriptionAssumption DEF Call, SubscriptionTypeOK
    <3> QED
        BY <1>1, <1>2, <1>3, <3>1
        DEF Unsubscribe, CallInv, CallHonest, CallEpoch, CallFresh
  <2>3. VerificationHonest'
        BY <1>3 DEF Unsubscribe, VerificationHonest, Absent
  <2> QED
      BY <2>1, <2>2, <2>3 DEF SInv
<1>4. CASE Disable
  <2>1. stored \in Subscription
        BY <1>1 DEF SubscriptionTypeOK
  <2>2. /\ stored' \in Subscription /\ stored'.secret = stored.secret
        /\ stored'.verifiedAt = stored.verifiedAt
        BY <1>4, <2>1 DEF Disable, Subscription
  <2>3. UNCHANGED <<now, epoch, call, proved, cancelled>>
        BY <1>4 DEF Disable
  <2>4. ASSUME NEW c \in Caller
        PROVE  CallInv(c)'
        BY <1>1, <1>2, <2>3 DEF CallInv, CallHonest, CallEpoch, CallFresh
  <2> QED
      BY <1>1, <2>2, <2>3, <2>4 DEF SInv, SubscriptionTypeOK, VerificationHonest
<1>5. CASE Tick
  <2>1. now' \in Time /\ now' = now + 1 /\ UNCHANGED <<stored, epoch, call, proved, cancelled>>
        BY <1>1, <1>5, SubscriptionAssumption DEF Tick, SubscriptionTypeOK, Time
  <2>2. ASSUME NEW c \in Caller
        PROVE  CallInv(c)'
    <3>1. /\ call[c].phase \in {"verifying", "storing"} => now' <= call[c].at + 1
          /\ call[c].at <= now'
          BY <1>1, <1>5, <2>1
          DEF Tick, SubscriptionTypeOK, Time, Call, CallInv, CallFresh
    <3> QED
        BY <1>1, <1>2, <2>1, <3>1 DEF CallInv, CallHonest, CallEpoch, CallFresh
  <2> QED
      BY <1>1, <2>1, <2>2 DEF SInv, SubscriptionTypeOK, VerificationHonest
<1>6. CASE UNCHANGED vars
  <2>1. ASSUME NEW c \in Caller
        PROVE  CallInv(c)'
        BY <1>1, <1>2, <1>6 DEF vars, CallInv, CallHonest, CallEpoch, CallFresh
  <2> QED
      BY <1>1, <1>6, <2>1 DEF vars, SInv, SubscriptionTypeOK, VerificationHonest
<1> QED
    BY <1>3, <1>4, <1>5, <1>6, CallStepInv DEF Next

THEOREM SubscriptionInvariance == Spec => []SInv
BY SInvInit, SInvStep, PTL DEF Spec

-----------------------------------------------------------------------------
(* The locals of calls, the epochs and the stored subscription keep to their *)
(* types.                                                                    *)
THEOREM SubscriptionTypes == Spec => []SubscriptionTypeOK
<1>1. SInv => SubscriptionTypeOK
      BY DEF SInv
<1> QED
    BY <1>1, SubscriptionInvariance, PTL

(* Whatever calls race, the stored secret is one that the callback has       *)
(* answered a challenge for at the stored time.                              *)
THEOREM SecretsAreVerified == Spec => []VerificationHonest
<1>1. SInv => VerificationHonest
      BY DEF SInv
<1> QED
    BY <1>1, SubscriptionInvariance, PTL

\* Only the end of a call takes it from storing to idle.
LEMMA StoringEnds ==
    ASSUME SInv, [Next]_vars, NEW c \in Caller,
           call[c].phase = "storing", call'[c].phase = "idle"
    PROVE  Store(c)
<1>1. call \in [Caller -> Call] /\ call[c] \in Call
      BY DEF SInv, SubscriptionTypeOK
<1>2. call' # call
      OBVIOUS
<1>3. PICK b \in Caller : CallStep(b)
      BY <1>2 DEF Next, vars, Unsubscribe, Disable, Tick
<1>4. b = c
      BY <1>1, <1>3 DEF CallStep, Begin, Read, Reuse, Verify, Fail, Store, Ended
<1> QED
    BY <1>1, <1>3, <1>4 DEF CallStep, Begin, Read, Reuse, Verify, Fail

(* A call that an unsubscription has overtaken stores nothing.               *)
THEOREM OvertakenCallsStoreNothing == Spec => CancelledStoresNothing
<1>1. ASSUME SInv, [Next]_vars, NEW c \in cancelled,
             call[c].phase = "storing", call'[c].phase = "idle"
      PROVE  stored' = stored
  <2>1. c \in Caller
        BY <1>1 DEF SInv, SubscriptionTypeOK
  <2>2. Store(c)
        BY <1>1, <2>1, StoringEnds
  <2>3. call[c].epoch < epoch /\ call[c].epoch \in Nat /\ epoch \in Nat
        BY <1>1, <2>1, SubscriptionAssumption
        DEF SInv, CallInv, CallEpoch, SubscriptionTypeOK, Call
  <2> QED
      BY <2>2, <2>3 DEF Store, StillCurrent
<1>2. SInv /\ [Next]_vars =>
          \A c \in cancelled :
              call[c].phase = "storing" /\ call'[c].phase = "idle" => stored' = stored
      BY <1>1
<1> QED
    BY <1>2, SubscriptionInvariance, PTL DEF Spec, CancelledStoresNothing

(* Whatever is stored was verified within the window before.                 *)
THEOREM VerifiedWhenStored == Spec => RecentlyVerified
<1>1. ASSUME SInv, [Next]_vars, NEW c \in Caller,
             call[c].phase = "storing", call'[c].phase = "idle", stored' # stored
      PROVE  \E t \in Time : /\ <<stored'.secret, t>> \in proved
                             /\ now <= t + Window
  <2>1. Store(c)
        BY <1>1, StoringEnds
  <2>2. stored' = Candidate(c)
        BY <1>1, <2>1 DEF Store
  <2> QED
      BY <1>1, <2>2, CandidateFacts
<1>2. SInv /\ [Next]_vars =>
          \A c \in Caller :
              call[c].phase = "storing" /\ call'[c].phase = "idle" /\ stored' # stored =>
                  \E t \in Time : /\ <<stored'.secret, t>> \in proved
                                  /\ now <= t + Window
      BY <1>1
<1> QED
    BY <1>2, SubscriptionInvariance, PTL DEF Spec, RecentlyVerified

(* A call that nothing came between keeps the replaced secret signing.       *)
THEOREM RotationsKeepSigning == Spec => UndisturbedRotation
<1>1. ASSUME SInv, [Next]_vars, NEW c \in Caller,
             call[c].phase = "storing", call'[c].phase = "idle",
             call[c].prior = stored, stored.secret # NoSecret
      PROVE  /\ stored.secret \in Signing'
             /\ stored'.secret = stored.secret => Signing' = Signing
  <2>1. Store(c) /\ now' = now
        BY <1>1, StoringEnds DEF Store
  <2>2. CASE stored' = stored
        BY <1>1, <2>1, <2>2 DEF Signing
  <2>3. CASE stored' = Candidate(c)
    <3>1. /\ stored \in Subscription /\ now \in Time /\ call[c].at \in Time
          /\ call[c].at <= now /\ now <= call[c].at + 1
          BY <1>1 DEF SInv, SubscriptionTypeOK, CallInv, CallFresh, Call
    <3>2. stored.secret \in Secret
          BY <1>1, <3>1 DEF Subscription
    <3>3. /\ stored'.secret = call[c].secret
          /\ stored'.previousSecret =
                 IF Rotates(c) THEN stored.secret
                 ELSE IF stored.previousSecret # NoSecret /\ stored.previousUntil > call[c].at
                      THEN stored.previousSecret ELSE NoSecret
          /\ stored'.previousUntil =
                 IF Rotates(c) THEN call[c].at + Window
                 ELSE IF stored.previousSecret # NoSecret /\ stored.previousUntil > call[c].at
                      THEN stored.previousUntil ELSE 0
          BY <1>1, <2>3 DEF Candidate
    <3>4. CASE Rotates(c)
      <4>1. stored'.previousSecret = stored.secret /\ stored'.previousUntil > now
            BY <3>1, <3>3, <3>4, SubscriptionAssumption DEF Time
      <4> QED
          BY <1>1, <2>1, <3>2, <3>3, <3>4, <4>1 DEF Signing, Rotates
    <3>5. CASE ~Rotates(c)
      <4>1. stored'.secret = stored.secret
            BY <1>1, <3>3, <3>5 DEF Rotates
      <4>2. ASSUME NEW secret \in Secret
            PROVE  stored'.previousSecret = secret /\ stored'.previousUntil > now
                   <=> stored.previousSecret = secret /\ stored.previousUntil > now
            BY <3>1, <3>3, <3>5, SubscriptionAssumption DEF Subscription, Time
      <4> QED
          BY <2>1, <4>1, <4>2 DEF Signing
    <3> QED
        BY <3>4, <3>5
  <2> QED
      BY <2>1, <2>2, <2>3 DEF Store
<1>2. SInv /\ [Next]_vars =>
          \A c \in Caller :
              /\ call[c].phase = "storing" /\ call'[c].phase = "idle"
              /\ call[c].prior = stored /\ stored.secret # NoSecret
              => /\ stored.secret \in Signing'
                 /\ stored'.secret = stored.secret => Signing' = Signing
      BY <1>1
<1> QED
    BY <1>2, SubscriptionInvariance, PTL DEF Spec, UndisturbedRotation
=============================================================================
