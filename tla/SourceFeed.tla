----------------------------- MODULE SourceFeed -----------------------------
(***************************************************************************)
(* What one captured source makes of its lines (multiplex): parse_line of  *)
(* its extractor, then the coalescer of the source.  The layer the source  *)
(* was claimed for decides what is kept between lines: S7 pairs reads and  *)
(* passes writes through, Modbus pairs by frame and coalesces writes, and  *)
(* OPC UA takes each message apart by itself.                              *)
(***************************************************************************)
EXTENDS S7Pairing, WriteCoalescer, OpcuaItems

VARIABLE layer

feedVars == <<layer, s7vars, coalescerVars, opcuaVars>>

FeedInit == layer \in {"s7comm", "modbus", "opcua"} /\ S7Init /\ CoalescerInit /\ OpcuaInit

FeedNext ==
  \/ layer = "s7comm" /\ S7Next /\ UNCHANGED <<layer, coalescerVars, opcuaVars>>
  \/ layer = "modbus" /\ CoalescerNext /\ UNCHANGED <<layer, s7vars, opcuaVars>>
  \/ layer = "opcua" /\ OpcuaNext /\ UNCHANGED <<layer, s7vars, coalescerVars>>

FeedSpec == FeedInit /\ [][FeedNext]_feedVars

-----------------------------------------------------------------------------
\* The types of what the extractors keep between lines.
FeedTypeOK == S7TypeOK /\ CoalescerTypeOK
=============================================================================
