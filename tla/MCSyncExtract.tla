--------------------------- MODULE MCSyncExtract ---------------------------
(* SyncExtract with small sets of model values.                            *)
EXTENDS SyncExtract, TLC

MCSymmetry == Permutations(Requests) \cup Permutations(Users)
                \cup Permutations(Files)
=============================================================================
