--------------------------- MODULE MCResultCaches ---------------------------
(* A small instance of ResultCaches for TLC: two callers in one server process
   and one in another; the second caller serves another app. *)
EXTENDS ResultCaches

CONSTANTS c1, c2, c3, p1, p2, game, shop

MCCallers == {c1, c2, c3}

MCProcess == [c \in MCCallers |-> IF c = c3 THEN p2 ELSE p1]

MCApp == [c \in MCCallers |-> IF c = c2 THEN shop ELSE game]

(* A process of its own matters only where the adapter is shared. *)
OtherProcessShares == shared \/ calls[c3] = NotCalling
=============================================================================
