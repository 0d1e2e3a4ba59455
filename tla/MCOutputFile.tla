----------------------------- MODULE MCOutputFile -----------------------------
(* Instances of OutputFile, with its readers, for TLC.                       *)
EXTENDS TraceReaders
=============================================================================
