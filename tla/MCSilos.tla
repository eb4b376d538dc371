------------------------------ MODULE MCSilos -------------------------------
(***************************************************************************)
(* A polled S7 server (plc1) whose two variables are read together or      *)
(* alone, and both written, and an OPC UA server that publishes two        *)
(* handles (plc2), one in batches of two values.  Both have a variable     *)
(* called k1.                                                              *)
(***************************************************************************)
EXTENDS Silos

Reading(k, v) == [key |-> k, value |-> v]

SomeLayer == [e \in Endpoints |-> IF e = "plc1" THEN "s7comm" ELSE "opcua"]

SomeReads ==
  [e \in Endpoints |->
     IF e = "plc1" THEN {<<Reading("k1", "v1")>>, <<Reading("k1", "v2"), Reading("k2", "v1")>>}
     ELSE {<<Reading("k1", "v2"), Reading("k1", "v1")>>, <<Reading("k2", "v2")>>}]

SomeWriteKeys == [e \in Endpoints |-> IF e = "plc1" THEN {"k1", "k2"} ELSE {"k3"}]

\* Nothing declared, or one variable excluded and another pinned.
SomeConfigs ==
  {[excluded |-> {}, pin |-> None], [excluded |-> {"k1"}, pin |-> "k2"]}
=============================================================================
