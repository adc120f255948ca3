------------------------- MODULE DeliveryRows_proofs -------------------------
(* Proofs about the delivery contract, for any sets of events and            *)
(* subscriptions.                                                            *)
EXTENDS DeliveryRows, TLAPS

(* What a settling transaction does to the rows, free of its case split.     *)
LEMMA SettleEffect ==
    ASSUME DeliveryTypeOK, NEW d \in Dispatch, NEW resp \in Response,
           SettleRow(d, resp)
    PROVE  /\ DeliveryTypeOK'
           /\ \A e \in Dispatch \ {d} : row'[e] = row[e]
           /\ row'[d].state \in {"accepted", "pending", "failed"}
           /\ row'[d].ambiguous <=> row[d].ambiguous \/ resp = "unknown"
           /\ resp = "ok" => row'[d].state = "accepted"
<1> DEFINE doubt == row[d].ambiguous \/ Ambiguous(resp)
<1>1. doubt \in BOOLEAN
      OBVIOUS
<1>2. PICK state \in {"accepted", "pending", "failed"} :
        /\ row' = [row EXCEPT ![d].state = state, ![d].ambiguous = doubt]
        /\ resp = "ok" => state = "accepted"
      BY DEF SettleRow
<1> HIDE DEF doubt
<1>3. row[d] \in Row /\ row \in [Dispatch -> Row]
      BY DEF DeliveryTypeOK
<1>4. row' \in [Dispatch -> Row]
      BY <1>1, <1>2, <1>3 DEF Row, RowState
<1>5. row'[d] = [row[d] EXCEPT !.state = state, !.ambiguous = doubt]
      BY <1>2, <1>3
<1>6. row'[d].state = state /\ row'[d].ambiguous = doubt
      BY <1>3, <1>5 DEF Row
<1>7. posted' \subseteq Dispatch /\ stray' \subseteq Dispatch
      /\ active' \subseteq Sub /\ received' \subseteq Dispatch
      BY DEF SettleRow, DeliveryTypeOK
<1>8. doubt <=> row[d].ambiguous \/ resp = "unknown"
      BY DEF doubt, Ambiguous
<1> QED
    BY <1>2, <1>3, <1>4, <1>6, <1>7, <1>8 DEF DeliveryTypeOK

(* Type correctness of the outbox rows and of what the platform has seen.    *)
LEMMA DeliveryTypeStep == DeliveryTypeOK /\ [DeliveryNext]_deliveryVars => DeliveryTypeOK'
<1> SUFFICES ASSUME DeliveryTypeOK, [DeliveryNext]_deliveryVars
             PROVE  DeliveryTypeOK'
    OBVIOUS
<1> USE DEF DeliveryTypeOK, Row, RowState
<1>1. ASSUME NEW d \in Dispatch, ClaimRow(d)
      PROVE  DeliveryTypeOK'
      BY <1>1 DEF ClaimRow, Claimed
<1>2. ASSUME NEW d \in Dispatch, DropRow(d)
      PROVE  DeliveryTypeOK'
      BY <1>2 DEF DropRow
<1>3. ASSUME NEW d \in Dispatch, Arrive(d)
      PROVE  DeliveryTypeOK'
      BY <1>3 DEF Arrive
<1>4. ASSUME NEW d \in Dispatch, NEW resp \in Response, SettleRow(d, resp)
      PROVE  DeliveryTypeOK'
      BY <1>4, SettleEffect
<1>5. ASSUME NEW s \in Sub, Subscribe(s) \/ Expire(s)
      PROVE  DeliveryTypeOK'
      BY <1>5 DEF Subscribe, Expire
<1>6. ASSUME NEW s \in Sub, Unsubscribe(s)
      PROVE  DeliveryTypeOK'
      BY <1>6 DEF Unsubscribe, CancelRows
<1>7. ASSUME NEW d \in Dispatch, NEW s \in Sub, EnqueueRow(d, s)
      PROVE  DeliveryTypeOK'
      BY <1>7 DEF EnqueueRow, FreshRow
<1>8. ASSUME NEW d, CancelRow(d)
      PROVE  DeliveryTypeOK'
      BY <1>8 DEF CancelRow, CancelRows
<1>9. CASE UNCHANGED deliveryVars
      BY <1>9 DEF deliveryVars
<1> QED
    BY <1>1, <1>2, <1>3, <1>4, <1>5, <1>6, <1>7, <1>8, <1>9
    DEF DeliveryNext, DeliveryStep

(* What CleanRowNotReceived needs to be inductive: a stray POST is always on *)
(* record as an ambiguous attempt of its row, and a row starts with none.    *)
StrayIsAmbiguous ==
    /\ \A d \in stray : row[d].ambiguous
    /\ \A d \in Dispatch : row[d].state = "none" => ~row[d].ambiguous
DeliveryInv == DeliveryTypeOK /\ StrayIsAmbiguous /\ CleanRowNotReceived

LEMMA DeliveryInvInit == DeliveryInit => DeliveryInv
BY DEF DeliveryInit, DeliveryInv, DeliveryTypeOK, Row, RowState, NoRow,
       StrayIsAmbiguous, CleanRowNotReceived

(* The step lemma the coordinator's proofs use as well.                      *)
LEMMA DeliveryInvStep == DeliveryInv /\ [DeliveryNext]_deliveryVars => DeliveryInv'
<1> SUFFICES ASSUME DeliveryInv, [DeliveryNext]_deliveryVars
             PROVE  StrayIsAmbiguous' /\ CleanRowNotReceived'
    BY DeliveryTypeStep DEF DeliveryInv
<1> USE DEF DeliveryInv, DeliveryTypeOK, Row, RowState, StrayIsAmbiguous,
            CleanRowNotReceived, Undelivered
<1>1. ASSUME NEW d \in Dispatch, ClaimRow(d)
      PROVE  StrayIsAmbiguous' /\ CleanRowNotReceived'
      BY <1>1 DEF ClaimRow, Claimed
<1>2. ASSUME NEW d \in Dispatch, DropRow(d)
      PROVE  StrayIsAmbiguous' /\ CleanRowNotReceived'
      BY <1>2 DEF DropRow
<1>3. ASSUME NEW d \in Dispatch, Arrive(d)
      PROVE  StrayIsAmbiguous' /\ CleanRowNotReceived'
      BY <1>3 DEF Arrive
<1>4. ASSUME NEW d \in Dispatch, NEW resp \in Response, SettleRow(d, resp)
      PROVE  StrayIsAmbiguous' /\ CleanRowNotReceived'
  <2>1. /\ \A e \in Dispatch \ {d} : row'[e] = row[e]
        /\ row'[d].state \in {"accepted", "pending", "failed"}
        /\ row'[d].ambiguous <=> row[d].ambiguous \/ resp = "unknown"
        /\ resp = "ok" => row'[d].state = "accepted"
        BY <1>4, SettleEffect
  <2>2. CASE resp = "unknown"
        BY <1>4, <2>1, <2>2 DEF SettleRow
  <2>3. CASE resp # "unknown"
        BY <1>4, <2>1, <2>3 DEF SettleRow, Response
  <2> QED
      BY <2>2, <2>3
<1>5. ASSUME NEW s \in Sub, Subscribe(s) \/ Expire(s)
      PROVE  StrayIsAmbiguous' /\ CleanRowNotReceived'
      BY <1>5 DEF Subscribe, Expire
<1>6. ASSUME NEW s \in Sub, Unsubscribe(s)
      PROVE  StrayIsAmbiguous' /\ CleanRowNotReceived'
      BY <1>6 DEF Unsubscribe, CancelRows
<1>7. ASSUME NEW d \in Dispatch, NEW s \in Sub, EnqueueRow(d, s)
      PROVE  StrayIsAmbiguous' /\ CleanRowNotReceived'
      BY <1>7 DEF EnqueueRow, FreshRow
<1>8. ASSUME NEW d, CancelRow(d)
      PROVE  StrayIsAmbiguous' /\ CleanRowNotReceived'
      BY <1>8 DEF CancelRow, CancelRows
<1>9. CASE UNCHANGED deliveryVars
      BY <1>9 DEF deliveryVars
<1> QED
    BY <1>1, <1>2, <1>3, <1>4, <1>5, <1>6, <1>7, <1>8, <1>9
    DEF DeliveryNext, DeliveryStep

(* A row that failed, or can still be retried, without an ambiguous attempt  *)
(* was never received and has no POST on its way: the counting of ambiguous  *)
(* attempts in flush never forgets one, for any interleaving of senders.     *)
THEOREM CleanRowsNotReceived == DeliverySpec => []CleanRowNotReceived
<1>1. DeliverySpec => []DeliveryInv
      BY DeliveryInvInit, DeliveryInvStep, PTL DEF DeliverySpec
<1>2. DeliveryInv => CleanRowNotReceived
      BY DEF DeliveryInv
<1> QED
    BY <1>1, <1>2, PTL

(* Accepted, failed and cancelled rows are final: one step.                  *)
LEMMA FinalRowStep ==
    DeliveryTypeOK /\ [DeliveryNext]_deliveryVars =>
        \A d \in Dispatch :
            row[d].state \in {"accepted", "failed", "cancelled"} => row'[d] = row[d]
<1> SUFFICES ASSUME DeliveryTypeOK, [DeliveryNext]_deliveryVars,
                    NEW e \in Dispatch,
                    row[e].state \in {"accepted", "failed", "cancelled"}
             PROVE  row'[e] = row[e]
    OBVIOUS
<1> USE DEF DeliveryTypeOK, Undelivered
<1>1. ASSUME NEW d \in Dispatch, NEW resp \in Response,
             ClaimRow(d) \/ DropRow(d) \/ Arrive(d) \/ SettleRow(d, resp)
      PROVE  row'[e] = row[e]
      BY <1>1 DEF ClaimRow, DropRow, Arrive, SettleRow
<1>2. ASSUME NEW s \in Sub, Subscribe(s) \/ Expire(s) \/ Unsubscribe(s)
      PROVE  row'[e] = row[e]
      BY <1>2 DEF Subscribe, Expire, Unsubscribe, CancelRows
<1>3. ASSUME NEW d, NEW s, EnqueueRow(d, s) \/ CancelRow(d)
      PROVE  row'[e] = row[e]
      BY <1>3 DEF EnqueueRow, CancelRow, CancelRows
<1>4. CASE UNCHANGED deliveryVars
      BY <1>4 DEF deliveryVars
<1> QED
    BY <1>1, <1>2, <1>3, <1>4 DEF DeliveryNext, DeliveryStep, Response

(* A row that was accepted, failed or was cancelled keeps its state for ever, *)
(* whatever late answer, claim, unsubscription or reconciliation follows.     *)
THEOREM RowsAreFinal == DeliverySpec => FinalRowsStay
<1>1. DeliverySpec => []DeliveryTypeOK
      BY DeliveryInvInit, DeliveryInvStep, PTL DEF DeliverySpec, DeliveryInv
<1>2. DeliveryTypeOK /\ [DeliveryNext]_deliveryVars =>
        [\A d \in Dispatch :
            row[d].state \in {"accepted", "failed", "cancelled"} => row'[d] = row[d]]_row
      BY FinalRowStep
<1> QED
    BY <1>1, <1>2, PTL DEF DeliverySpec, FinalRowsStay
=============================================================================
