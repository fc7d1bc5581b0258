--------------------------- MODULE MCSharedIndex ---------------------------
(***************************************************************************)
(* Instances of SharedIndex for TLC.                                       *)
(***************************************************************************)
EXTENDS SharedIndex

CONSTANTS w, r

MCIds == {1, 2, 3}
MCWriter == {w}
MCReader == {r}
=============================================================================
