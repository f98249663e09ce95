---------------------------- MODULE MCPurchaseStores ----------------------------
(***************************************************************************)
(* Symmetry for the runs of RedisPurchaseStore.                            *)
(***************************************************************************)
EXTENDS RedisPurchaseStore, TLC

StoreSymmetry == Permutations(Clients) \cup Permutations(Users) \cup Permutations(Txs)
=============================================================================
