--------------------------- MODULE MCRemoteWrite ----------------------------
(***************************************************************************)
(* An instance of RemoteWrite for TLC.                                     *)
(***************************************************************************)
EXTENDS RemoteWrite

CONSTANTS a, b

\* With two shards the series are apart, with one they are together.
MCFingerprint == [s \in Series |-> IF s = a THEN 1 ELSE 2]

MCMaxSamples == [s \in Series |-> IF s = a THEN 2 ELSE 1]
=============================================================================
