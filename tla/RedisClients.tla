----------------------------- MODULE RedisClients -----------------------------
(***************************************************************************)
(* What the two stores of packages/server/src/stores/redis.ts share: the   *)
(* clients of one Redis, and the ids their keys are made of.  The names of *)
(* RedisSubscriptionStore and RedisPurchaseStore differ, so that a module  *)
(* can extend both.                                                        *)
(***************************************************************************)
CONSTANTS
    Clients,  \* concurrent callers of the stores, in one process or several
    Txs,      \* transaction ids
    Users,
    NoUser    \* no row, or an absent owner key

ASSUME NoUserAssumption == NoUser \notin Users
=============================================================================
