---------------------------- MODULE MCScanEngine ----------------------------
(* Two records and two clients that write either to a record of their own or  *)
(* both to the same.                                                          *)
EXTENDS ScanEngine, TLC

MCRecords == {"a", "b"}
MCClients == {"x", "y"}
OwnRecords == ("x" :> {"a"}) @@ ("y" :> {"b"})
SameRecord == ("x" :> {"a"}) @@ ("y" :> {"a"})

\* One record on a period, the other on an event.
MCDatabases ==
  {[scan_raw |-> ("a" :> "1s") @@ ("b" :> "Event"), evnt |-> ("a" :> "") @@ ("b" :> "e")]}
=============================================================================
