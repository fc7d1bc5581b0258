---------------------------- MODULE MCLifeCycle ----------------------------
(***************************************************************************)
(* Instances of IndexLifeCycle for TLC.                                    *)
(***************************************************************************)
EXTENDS LifeCycleProperties, TLC

CONSTANTS p1, p2

MCTwoProcs == {p1, p2}
MCProcsAlike == Permutations(MCTwoProcs)
=============================================================================
