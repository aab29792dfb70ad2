----------------------------- MODULE MCPrecision -----------------------------
(* The heaps of MCIncrementalGC, collected with the history of GCPrecision.  *)
EXTENDS GCPrecision, MCIncrementalGC
=============================================================================
