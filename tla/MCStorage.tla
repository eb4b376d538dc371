----------------------------- MODULE MCStorage ------------------------------
(***************************************************************************)
(* What is on disk when a process ends in the middle of something: the     *)
(* record of a run and its report (record), the probe and the captures a   *)
(* replay starts from (probe), the profiles and grammars a later run       *)
(* resumes from (resume), the releases on the Pi (update), and the         *)
(* captures of a session that are archived (upload).                       *)
(*                                                                         *)
(* On the wire: plumbing, two protocols that have an extractor (one frame  *)
(* without an address), a conversation that has none in both directions,   *)
(* and one between equal ports.                                            *)
(***************************************************************************)
EXTENDS MCRunReport, Probe, Resume, Update, MCUpload

ExtractorLayers == <<"modbus", "opcua", "s7comm">>

SomeOnlys == {{"modbus"}, {"opcua", "s7comm"}}

Ports == [plc |-> 502, hmi |-> 49152, web |-> 80, one |-> 4840, two |-> 4840]

Frame(app, names, src, dst) == [app |-> app, names |-> names, src |-> src, dst |-> dst]

SomeFrames ==
  {Frame(NoApp, {}, "hmi", "plc"),
   Frame("mbap", {"modbus"}, "plc", "hmi"),
   Frame("tpkt", {"s7comm"}, NoEndpoint, NoEndpoint),
   Frame("http", {}, "hmi", "web"), Frame("http", {}, "web", "hmi"),
   Frame("data", {}, "two", "one")}

VARIABLE focus

storageVars == <<focus, reportVars, probeVars, resumeVars, updateVars, uploadVars>>

StorageInit ==
  /\ ReportInit /\ ProbeInit /\ ResumeInit /\ UpdateInit /\ UploadInit
  /\ focus \in {"record", "probe", "resume", "update", "upload"}

StorageNext ==
  /\ UNCHANGED focus
  /\ \/ focus = "record" /\ ReportNext /\ UNCHANGED <<probeVars, resumeVars, updateVars, uploadVars>>
     \/ focus = "probe" /\ ProbeNext /\ UNCHANGED <<reportVars, resumeVars, updateVars, uploadVars>>
     \/ focus = "resume" /\ ResumeNext /\ UNCHANGED <<reportVars, probeVars, updateVars, uploadVars>>
     \/ focus = "update" /\ UpdateNext /\ UNCHANGED <<reportVars, probeVars, resumeVars, uploadVars>>
     \/ focus = "upload" /\ UploadNext /\ UNCHANGED <<reportVars, probeVars, resumeVars, updateVars>>

StorageSpec == StorageInit /\ [][StorageNext]_storageVars

-----------------------------------------------------------------------------
\* The types of what the programs keep; no file that was cut off is taken for a
\* phase config or a grammar (load_silo_state).
StorageTypeOK == RecordTypeOK /\ ProbeTypeOK /\ ResumeTypeOK /\ UpdateTypeOK /\ UploadTypeOK
=============================================================================
