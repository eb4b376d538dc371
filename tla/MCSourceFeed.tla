---------------------------- MODULE MCSourceFeed ----------------------------
(***************************************************************************)
(* Two conversations of which one uses two references, asking for two      *)
(* items in either order; two Modbus servers that share a command; OPC UA  *)
(* messages of up to three items, named in every way and of two types.     *)
(***************************************************************************)
EXTENDS SourceFeed

CONSTANTS a, b

SomeJobs  == {<<a, b>>, <<b, a>>}
ThreeKeys == {<<"c1", 1>>, <<"c1", 2>>, <<"c2", 1>>}

SomeWrites ==
  {[server |-> "plc1", command |-> "open"], [server |-> "plc2", command |-> "open"],
   [server |-> "plc1", command |-> "close"]}

Node(num, ns, form) == [num |-> num, ns |-> ns, form |-> form]

SomeNodes ==
  {Node(45, 0, "plain"), Node(23, 4, "indexed"), Node(9, 0, "indexed"), Node(0, 4, "string")}

Header == <<Node(847, 0, "plain"), Node(0, 0, "indexed")>>
=============================================================================
