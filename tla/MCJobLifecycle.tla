--------------------------- MODULE MCJobLifecycle ---------------------------
(* JobLifecycle with small sets of model values.  Sessions has no choice:  *)
(* every worker and every API process owns one session.                    *)
EXTENDS JobRefinement, TLC

MCSessions == Workers \cup Apis

(* Jobs, users, files and workers are interchangeable.                     *)
MCSymmetry == Permutations(Jobs) \cup Permutations(Users)
                \cup Permutations(Files) \cup Permutations(Workers)
=============================================================================
