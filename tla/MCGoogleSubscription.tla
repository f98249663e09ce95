------------------------ MODULE MCGoogleSubscription ------------------------
(***************************************************************************)
(* Event sets and symmetry for the runs of GoogleSubscription.             *)
(***************************************************************************)
EXTENDS GoogleSubscription, TLC

WorkerSymmetry == Permutations(Workers)

AllEvents == EventType

(* What a posted token can race with. *)
AccessEvents == {"PURCHASED", "ON_HOLD", "RECOVERED", "REVOKED", "VOIDED"}

(* Tokens are posted only among events they race with; the other events are
   left to notifications. *)
PostedAmongAccessEvents ==
    (\E t \in 1..Len(hist) : hist[t].type \notin AccessEvents)
        => \A w \in Workers : work[w].kind # "validate"
=============================================================================
