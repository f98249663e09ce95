------------------------------ MODULE Lifecycle ------------------------------
(***************************************************************************)
(* The pure rules of packages/server/src/lifecycle.ts and of               *)
(* packages/shared/src/constants.ts that every writer and reader of a      *)
(* subscription record shares: when a snapshot is stale, which of several  *)
(* snapshot times is the latest, and which statuses grant access.          *)
(*                                                                         *)
(* A time is a natural number.  NoTime stands for an absent ISO string     *)
(* (stateAsOf undefined); it is the least time, so that "ignoring          *)
(* undefined" is what taking a maximum does anyway.                        *)
(***************************************************************************)
EXTENDS Naturals

NoTime == 0

Time == Nat

(* Subscription statuses of @onesub/shared (SUBSCRIPTION_STATUS). *)
Status == {"active", "grace_period", "on_hold", "paused", "expired", "canceled"}

EntitledStatus == {"active", "grace_period"}

(* isSubscriptionEntitled: an entitled status, and either the paid period or
   the billing grace period has not ended. *)
IsSubscriptionEntitled(status, paidRunning, graceRunning) ==
    /\ status \in EntitledStatus
    /\ paidRunning \/ graceRunning

(* isStaleSnapshot: strictly older than the newest snapshot applied; a record
   or a snapshot without a time is never guarded. *)
IsStaleSnapshot(existingAsOf, asOf) ==
    /\ existingAsOf # NoTime
    /\ asOf # NoTime
    /\ asOf < existingAsOf

(* laterStateAsOf of two times. *)
LaterStateAsOf(a, b) == IF b > a THEN b ELSE a
=============================================================================
