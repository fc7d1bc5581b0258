---------------------------- MODULE MCMappedFile ----------------------------
(***************************************************************************)
(* Instances of MappedFile for TLC.                                        *)
(***************************************************************************)
EXTENDS MappedProperties, TLC

CONSTANTS p1, p2

MCOneProc == {p1}
MCTwoProcs == {p1, p2}
Symmetric == Permutations(Procs)
=============================================================================
