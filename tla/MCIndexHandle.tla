--------------------------- MODULE MCIndexHandle ---------------------------
(***************************************************************************)
(* Instances of IndexHandle for TLC.                                       *)
(***************************************************************************)
EXTENDS IndexInvariant

(* Word is 4 in the runs: 1 and 5 agree in the bits that choose a bucket,  *)
(* 3 shares the bucket of 1, and 4 is in the other one.                    *)
MCKeysOneBucket == {1, 3, 5}
MCKeysTwoBuckets == {1, 3, 4, 5}
=============================================================================
