------------------------- MODULE MCAppleSubscription -------------------------
(* Small instances of AppleSubscription for TLC. *)
EXTENDS AppleSubscription, TLC

WorkerSymmetry == Permutations(Workers)

AllEvents == EventType

(* Renewals, lapses and refunds, without billing retry. *)
RenewalEvents == {"SUBSCRIBED", "DID_RENEW", "EXPIRED", "REFUND", "REFUND_REVERSED"}

(* Receipts are posted only among the events of RenewalEvents, of which one
   refunds; the other events are left to notifications. *)
PostedAmongRenewals ==
    (\E w \in Workers : work[w].kind = "validate") =>
        /\ \A t \in 1..Len(hist) : hist[t].type \in RenewalEvents
        /\ \A t, u \in 1..Len(hist) :
              hist[t].type = "REFUND" /\ hist[u].type = "REFUND" => t = u
=============================================================================
