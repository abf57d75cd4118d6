--------------------------- MODULE MCChartUploads ---------------------------
(***************************************************************************)
(* Instances of ChartUploads for TLC.                                      *)
(***************************************************************************)
EXTENDS ChartUploads, TLC

\* Requests and charts are interchangeable.
Symmetry == Permutations(Uploaders) \cup Permutations(Charts)
=============================================================================
