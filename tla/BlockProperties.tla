--------------------------- MODULE BlockProperties ---------------------------
(***************************************************************************)
(* What the programs on a block promise, stated over BlockPrograms.  The   *)
(* records of the index are those IndexProperties speaks of.               *)
(***************************************************************************)
EXTENDS BlockPrograms, IndexProperties

StoredIds == {nodes[n].key : n \in Live}

(* The data of a file, << >> if the index has lost it. *)
DataOf(k) ==
  IF k \in StoredIds THEN Content(nodes[CHOOSE n \in Live : nodes[n].key = k]) ELSE << >>

Abstract == INSTANCE BlockStore WITH
  files <- [k \in promised |-> DataOf(k)],
  program <- IF program = "data" THEN "write" ELSE program,
  data <- [i \in 1 .. Size |-> run]

(* Every variable of the programs keeps to the values of its declaration.  *)
BlockTypeOK ==
  /\ TypeOK
  /\ program \in {"none", "data", "write", "read", "delete"}
  /\ file_id \in Nat /\ moved \in 0 .. Size /\ run \in 0 .. MaxRuns
  /\ mainblock \in Seq(0 .. MaxRuns) /\ Len(mainblock) >= main_blocksize
  /\ promised \subseteq Nat /\ doubtful \subseteq Nat

(* Until a rollback of hash_insert goes wrong, the programs implement      *)
(* BlockStore: a file that block_write_test has said to be written is read *)
(* back with its own data whatever dies and fails, until it is deleted.    *)
ImplementsBlockStore == Abstract!Init /\ [][misrolled' \/ Abstract!Next]_(Abstract!vars)

(* The id block_write_test takes from seq_no_ is never refused unless some *)
(* program has died: an I/O error at any step of a write or a delete       *)
(* leaves seq_no_ past every stored id.                                    *)
RefusedOnlyAfterDeath ==
  printed.status = "EXIT_META_UNEXPECT_FOUND_ERROR" => crashes > 0 \/ misrolled

(* A stored file that nobody was told of comes from a program that died,   *)
(* or from a call that failed, one from each.                              *)
OrphansAccounted ==
  ~misrolled /\ program = "none" => Cardinality(StoredIds \ promised) <= crashes + faults

(* common.h:90 calls seq_no_ the next file number that can be assigned: no *)
(* stored file has it when no program is running.                          *)
NextIdIsFree == program = "none" => block_info.seq_no \notin StoredIds
=============================================================================
