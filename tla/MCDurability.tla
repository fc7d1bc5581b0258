---------------------------- MODULE MCDurability ----------------------------
(***************************************************************************)
(* Instances of Durability for TLC.                                        *)
(***************************************************************************)
EXTENDS Durability

MCIds == 1 .. 2
=============================================================================
