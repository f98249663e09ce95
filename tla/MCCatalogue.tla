---------------------------- MODULE MCCatalogue ----------------------------
(* Two tool calls on two product ids: both stores or one of them, every     *)
(* operation, both kinds where the code tells them apart.                   *)
EXTENDS Catalogue

CONSTANTS monthly, yearly

Ask(op, kind, pid, stores) == [op |-> op, kind |-> kind, pid |-> pid, stores |-> stores]

MCRequests ==
    { Ask("create", "subscription", monthly, Stores),
      Ask("create", "subscription", yearly, {"apple"}),
      Ask("create", "one_time", monthly, {"apple"}),
      Ask("create", "one_time", monthly, {"google"}),
      Ask("update", "one_time", monthly, Stores),
      Ask("delete", "subscription", monthly, Stores),
      Ask("delete", "one_time", monthly, {"google"}) }
=============================================================================
