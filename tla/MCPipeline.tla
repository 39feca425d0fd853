----------------------------- MODULE MCPipeline -----------------------------
(* Instances of Pipeline for TLC.                                          *)
EXTENDS Pipeline, TLC

(* buildOutputPath on names with different stems.                          *)
OwnOutput == [t \in Torrents |-> t]

(* buildOutputPath on names that sanitize to one stem.                     *)
SharedOutput == [t \in Torrents |-> "video"]

(* Torrents are interchangeable under either naming.                       *)
Symmetry == Permutations(Torrents)
=============================================================================
