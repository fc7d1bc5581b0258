-------------------------- MODULE IndexProperties --------------------------
(***************************************************************************)
(* What the index of a block promises, stated over the state of            *)
(* IndexHandle.  A property that an I/O error or a crash can break is      *)
(* stated up to that event, and the event is named in its first line.      *)
(***************************************************************************)
EXTENDS IndexHandle, FiniteSets, FiniteSetsExt

At(s, i) == IF i \in 1 .. Len(s) THEN s[i] ELSE Null

HeadOf(l) == IF l = FreeList THEN free_head_offset ELSE bucket_slot[l]

Elements(s) == {s[i] : i \in 1 .. Len(s)}

(* The records of the files the index holds. *)
Live == UNION {Elements(lists[s]) : s \in Slots}

(* The records between bucket array and end of file that an operation has  *)
(* taken out of a list and not yet put into another.                       *)
Moving == IF pc \in {"write", "link", "release", "push"} THEN {current_offset} ELSE {}

(* Every variable keeps to the values its declaration in index_handle.h or *)
(* common.h gives it; an offset is null or starts a record.                *)
TypeOK ==
  /\ bucket_slot \in [Slots -> Nodes \cup {Null}]
  /\ nodes \in [Nodes -> MetaInfo]
  /\ index_file_size \in Int
  /\ free_head_offset \in Nodes \cup {Null}
  /\ data_file_offset \in Nat
  /\ block_info \in [block_id : Nat \ {0}, version : Nat, file_count : Int, size : Int,
                     del_file_count : Nat, del_size : Nat, seq_no : Nat]
  /\ pc \in {"idle", "find", "found", "allocate", "write", "link", "commit", "account",
             "release", "push", "uncount"}
  /\ call \in [op : {"none", "write", "read", "delete"}, meta : MetaInfo]
  /\ pos \in Nodes \cup {Null}
  /\ previous_offset \in Nodes \cup {Null}
  /\ current_offset \in Nodes \cup {Null}
  /\ ret \in [status : {"pending", "TFS_SUCCESS", "EXIT_META_UNEXPECT_FOUND_ERROR",
                         "EXIT_META_NOT_FOUND_ERROR", "DISK_ERROR"},
              meta : MetaInfo]
  /\ crashes \in Nat /\ faults \in Nat /\ misrolled \in BOOLEAN
  /\ lists \in [Lists -> Seq(Nodes)]

(* The chain of a bucket and the list of reusable records are              *)
(* null-terminated lists with no record in two places, so hash_find's loop *)
(* ends and a reused record is in no chain: at every step of every         *)
(* operation, and after a crash between any two stores.                    *)
ListsIntact ==
  ~misrolled =>
    /\ \A l \in Lists :
         /\ HeadOf(l) = At(lists[l], 1)
         /\ \A i \in 1 .. Len(lists[l]) : nodes[lists[l][i]].next = At(lists[l], i + 1)
    /\ \A l, m \in Lists : \A i \in 1 .. Len(lists[l]), j \in 1 .. Len(lists[m]) :
         lists[l][i] = lists[m][j] => l = m /\ i = j

(* index_file_size lies past every record in use, so that the next new     *)
(* record of hash_insert overwrites none of them.                          *)
RecordsBelowEnd ==
  ~misrolled => \A l \in Lists : \A n \in Elements(lists[l]) \cup Moving : n < index_file_size

(* A file is in the chain hash_find searches for its id, and no id is in   *)
(* the index twice.                                                        *)
KeysPlaced ==
  ~misrolled =>
    /\ \A s \in Slots : \A n \in Elements(lists[s]) : Slot(nodes[n].key) = s
    /\ \A m, n \in Live : nodes[m].key = nodes[n].key => m = n

(* Without crash and I/O error no record is lost: each one below           *)
(* index_file_size is in a chain, reusable, or in the hands of the running *)
(* operation.                                                              *)
NothingLeaks ==
  crashes = 0 /\ faults = 0 =>
    1 .. index_file_size - 1 = Live \cup Elements(lists[FreeList]) \cup Moving

(* The bytes that the records of some files account for. *)
SizesOf(records, S) == MapThenSumSet(LAMBDA n : records[n].size, S)

(* What update_block_info keeps count of. *)
Counted ==
  /\ block_info.file_count = Cardinality(Live)
  /\ block_info.size + block_info.del_size = data_file_offset
  /\ block_info.file_count + block_info.del_file_count = block_info.seq_no - 1
  /\ block_info.version = block_info.seq_no - 1 + block_info.del_file_count

(* Without crash and I/O error, the counters of BlockInfo describe the     *)
(* files of the index whenever no operation is running.                    *)
Accounts ==
  crashes = 0 /\ faults = 0 /\ pc = "idle" =>
    Counted /\ block_info.size = SizesOf(nodes, Live)

(* Without a crash, the data of two files never overlap in the main block, *)
(* and the next file is written behind them all.                           *)
DataDisjoint ==
  crashes = 0 /\ ~misrolled =>
    /\ \A m, n \in Live :
         m # n => \/ nodes[m].offset + nodes[m].size <= nodes[n].offset
                  \/ nodes[n].offset + nodes[n].size <= nodes[m].offset
    /\ \A n \in Live :
         nodes[n].offset + nodes[n].size
           <= data_file_offset + (IF pc = "commit" THEN call.meta.size ELSE 0)

(* While a file stays in the index, its id, place and length stay as they  *)
(* were written: unlinking, linking and reusing records around it touch    *)
(* nothing but its next offset.                                            *)
LiveRecordsKept ==
  [][~misrolled' => \A n \in Live \cap Live' : [nodes'[n] EXCEPT !.next = nodes[n].next] = nodes[n]]_vars

(* Unless a rollback goes wrong, every operation returns; in particular    *)
(* the chain hash_find walks has an end.                                   *)
CallReturns == (pc # "idle") ~> (pc = "idle" \/ misrolled)

(* index_handle.cpp:546 says index_file_size points to the next place      *)
(* where a MetaInfo can be written: no file of the index is there.         *)
EndIsUnused == \A n \in Live : n < index_file_size
=============================================================================
