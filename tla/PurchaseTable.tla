---------------------------- MODULE PurchaseTable ----------------------------
(***************************************************************************)
(* What a PurchaseStore promises its callers (packages/server/src/store.ts,*)
(* the interface and purchaseConflict): each transaction is listed for at  *)
(* most one user; a call takes effect at once or not at all, and only what *)
(* a pending call asks for ever happens to a purchase.  A save never takes *)
(* a listed purchase from another user; it changes hands by a              *)
(* reassignment and goes by a deletion.                                    *)
(***************************************************************************)
CONSTANTS
    Clients,
    Txs,      \* transactionIds of one product
    Users,
    NoUser    \* a transaction that is not listed

VARIABLES
    owner,    \* the user each transaction is listed for
    pending   \* the request each client waits on, or its last answer

Operations == {"save", "reassign", "delete", "reset"}

Answer == [answer : {"ok", "belongs_to_other", "already_owned", "contended", "absent", "error"}]

Ok == [answer |-> "ok"]

Request == [op : Operations, tx : Txs, user : Users]

TypeOK ==
    /\ owner \in [Txs -> Users \cup {NoUser}]
    /\ pending \in [Clients -> Request \cup Answer]

(* A store may open on the rows of earlier runs. *)
Init == TypeOK /\ pending = [c \in Clients |-> Ok]

Waiting(c, op) == pending[c] \in Request /\ pending[c].op = op

Answered(c, answer) == pending' = [pending EXCEPT ![c] = answer]

Call(c) ==
    /\ pending[c] \in Answer
    /\ \E request \in Request : pending' = [pending EXCEPT ![c] = request]
    /\ UNCHANGED owner

SavePurchase(c) ==
    /\ Waiting(c, "save")
    /\ owner[pending[c].tx] \in {NoUser, pending[c].user}
    /\ owner' = [owner EXCEPT ![pending[c].tx] = pending[c].user]
    /\ Answered(c, Ok)

ReassignPurchase(c) ==
    /\ Waiting(c, "reassign")
    /\ owner' = [owner EXCEPT ![pending[c].tx] = pending[c].user]
    /\ Answered(c, Ok)

DeletePurchaseByTransactionId(c) ==
    /\ Waiting(c, "delete")
    /\ owner' = [owner EXCEPT ![pending[c].tx] = NoUser]
    /\ Answered(c, Ok)

DeletePurchases(c) ==
    /\ Waiting(c, "reset")
    /\ owner' = [tx \in Txs |-> IF owner[tx] = pending[c].user THEN NoUser ELSE owner[tx]]
    /\ Answered(c, Ok)

(* The call is refused, fails, or finds nothing to do: the last may also be
   answered "ok", by a reassignment to the user the row names already. *)
NoEffect(c) ==
    /\ pending[c] \in Request
    /\ \E answer \in Answer :
           /\ answer = Ok => Waiting(c, "reassign")
           /\ Answered(c, answer)
    /\ UNCHANGED owner

Next ==
    \E c \in Clients :
        \/ Call(c) \/ NoEffect(c)
        \/ SavePurchase(c) \/ ReassignPurchase(c)
        \/ DeletePurchaseByTransactionId(c) \/ DeletePurchases(c)

Spec == Init /\ [][Next]_<<owner, pending>>
=============================================================================
