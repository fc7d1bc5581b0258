------------------------------ MODULE MCBlock ------------------------------
(***************************************************************************)
(* Instances of BlockPrograms for TLC.                                     *)
(***************************************************************************)
EXTENDS BlockProperties

MCIds == 1 .. 3
=============================================================================
