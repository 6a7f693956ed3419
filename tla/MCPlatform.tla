----------------------------- MODULE MCPlatform -----------------------------
(* Platform with small sets of model values.                               *)
EXTENDS Platform, TLC

MCSessions == Workers \cup Apis \cup Requests

MCSymmetry == Permutations(Jobs) \cup Permutations(Users)
                \cup Permutations(Requests) \cup Permutations(Apis)
=============================================================================
