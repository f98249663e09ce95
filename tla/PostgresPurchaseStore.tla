------------------------ MODULE PostgresPurchaseStore ------------------------
(***************************************************************************)
(* PostgresPurchaseStore (packages/server/src/stores/postgres.ts) over the *)
(* table of stores/schema.ts, for the purchases of one product: what each  *)
(* SQL statement does.  A statement is one step; savePurchase takes two.   *)
(***************************************************************************)
CONSTANTS Txs, Users, NoUser

VARIABLES
    record,   \* user_id of the row of each transaction
    type

(* Mutant of MayHold: the partial unique index is not there. *)
MayHoldAny(user, tx) == TRUE

(* idx_onesub_purchases_non_consumable, unique on (user_id, product_id) where
   type = 'non_consumable'. *)
MayHold(user, tx) ==
    type = "non_consumable" => \A other \in Txs \ {tx} : record[other] # user

(* INSERT ... ON CONFLICT (transaction_id) DO NOTHING: the key is looked at
   before the index of non-consumables. *)
InsertAnswer(tx, user) ==
    IF record[tx] # NoUser THEN "exists"
    ELSE IF MayHold(user, tx) THEN "inserted" ELSE "already_owned"

Insert(tx, user) ==
    record' = IF InsertAnswer(tx, user) = "inserted"
              THEN [record EXCEPT ![tx] = user] ELSE record

(* Mutant of SelectAnswer: whose row it is is not looked at. *)
SelectAnswerOfAnyone(tx, user) == "ok"

(* SELECT user_id after an INSERT that found a row; a row deleted in between
   counts as the caller's. *)
SelectAnswer(tx, user) == IF record[tx] \notin {NoUser, user} THEN "belongs_to_other" ELSE "ok"

(* UPDATE ... SET user_id. *)
UpdateAnswer(tx, user) ==
    IF record[tx] = NoUser THEN "absent"
    ELSE IF MayHold(user, tx) THEN "ok" ELSE "already_owned"

Update(tx, user) ==
    record' = IF UpdateAnswer(tx, user) = "ok"
              THEN [record EXCEPT ![tx] = user] ELSE record

(* DELETE ... WHERE transaction_id. *)
DeleteTransaction(tx) == record' = [record EXCEPT ![tx] = NoUser]

(* DELETE ... WHERE user_id AND product_id. *)
DeleteOfUser(user) ==
    record' = [tx \in Txs |-> IF record[tx] = user THEN NoUser ELSE record[tx]]
=============================================================================
