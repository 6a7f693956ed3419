----------------------------- MODULE MCBatchRun -----------------------------
(* BatchRun with a manifest of a few documents.                            *)
EXTENDS BatchRun
=============================================================================
