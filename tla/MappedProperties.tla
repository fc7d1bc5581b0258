-------------------------- MODULE MappedProperties --------------------------
(***************************************************************************)
(* What a mapped file promises its callers, and the abstract file that it  *)
(* implements for a process that has it to itself.                         *)
(***************************************************************************)
EXTENDS MappedFile

(* Sizes stay within what MMapOption allows, and every variable keeps to   *)
(* the values its declaration gives it.                                    *)
TypeOK ==
  /\ file \in Seq(Page)
  /\ mapped \in [Procs -> BOOLEAN]
  /\ size \in [Procs -> 0 .. max_map_size_]
  /\ pc \in [Procs -> {"ready", "remap", "stat", "truncate", "map", "copy", "transfer"}]
  /\ target \in [Procs -> 0 .. max_map_size_]
  /\ remaps \in [Procs -> 0 .. 2]
  /\ moved \in [Procs -> 0 .. MaxLength]
  /\ \A p \in Procs : moved[p] <= Length(p)
  /\ faults \in 0 .. MaxFaults

(* A mapping never extends past the end of the file: no memcpy meets       *)
(* SIGBUS, whichever of the calls that make file and mapping grow fails.   *)
MappedWithinFile == \A p \in Procs : size[p] <= Len(file)

(* The calls that make room for a mapping never take pages away from a     *)
(* file that has more of them.                                             *)
FileNeverShrinks == [][Len(file') >= Len(file)]_vars

(* The same of processes that all have the file mapped: mmap_file.cpp:190  *)
(* and mmap_file.h:41 say that ensure_file_size makes the file longer.     *)
SharedFileNeverShrinks ==
  [][(\A p \in Procs : mapped[p]) => Len(file') >= Len(file)]_vars

(* Whatever happens to its mapping, a transfer ends: in success, with an   *)
(* error, or with its process.                                             *)
TransferEnds == \A p \in Procs : (pc[p] # "ready") ~> (pc[p] = "ready")

Contents == [i \in 0 .. MaxEnd + max_map_size_ |-> IF i < Len(file) THEN file[i + 1] ELSE Zero]

Abstract == INSTANCE ByteFile WITH contents <- Contents

(* The mapping cannot be told from outside: reads return what was written, *)
(* or zeros, by whichever way either went; growing, and failing to grow,   *)
(* changes nothing a caller sees.                                          *)
ImplementsByteFile == Abstract!Spec
=============================================================================
