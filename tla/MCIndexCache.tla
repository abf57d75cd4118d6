---------------------------- MODULE MCIndexCache ----------------------------
(***************************************************************************)
(* Instances of IndexCache for TLC.                                        *)
(***************************************************************************)
EXTENDS IndexCache, TLC

\* Requests are interchangeable, and so are packages that are always charts
\* under their own name.  Only for runs without liveness.
Symmetry ==
    Permutations(Requests) \cup Permutations(Files \ (Doubtful \cup Misnamed))
=============================================================================
