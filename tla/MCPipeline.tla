----------------------------- MODULE MCPipeline -----------------------------
(* Small instances of Pipeline for TLC. *)
EXTENDS Pipeline

AllModes == {"file", "follow", "stdin"}
=============================================================================
