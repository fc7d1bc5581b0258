--------------------------- MODULE MCFileOperation ---------------------------
(***************************************************************************)
(* Instances of FileOperation for TLC.                                     *)
(***************************************************************************)
EXTENDS FileProperties

(* 0 is free in a process that has closed its standard input. *)
MCDescriptors == 0 .. 3
=============================================================================
